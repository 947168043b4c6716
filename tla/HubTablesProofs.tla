--------------------------- MODULE HubTablesProofs ---------------------------
(***************************************************************************)
(* Proofs about the MAC and IP address tables of a Virtual Hub, for any set   *)
(* of addresses, any limits and any policies: neither table grows over its    *)
(* limit, a DHCPForce session owns only IPv4 addresses a DHCP server gave     *)
(* out, and a checked session takes an address over only in its time.         *)
(*                                                                            *)
(* The sets of addresses may be infinite.  That the used ones are finite is   *)
(* part of the invariant, because evicting "the last entry" of the sorted     *)
(* list needs one.                                                             *)
(***************************************************************************)
EXTENDS HubSwitchProofs, WellFoundedInduction

-----------------------------------------------------------------------------
(* Finite sets with at most so many elements *)

Within(A, max) == IsFiniteSet(A) /\ Cardinality(A) <= max

LEMMA WithinSubset ==
  ASSUME NEW A, NEW max \in Nat, Within(A, max), NEW B \in SUBSET A
  PROVE  Within(B, max)
<1>1. IsFiniteSet(A) /\ IsFiniteSet(B) /\ Cardinality(B) <= Cardinality(A)
  BY FS_Subset DEF Within
<1>2. Cardinality(A) \in Nat /\ Cardinality(B) \in Nat /\ Cardinality(A) <= max
  BY <1>1, FS_CardinalityType DEF Within
<1>3. QED  BY <1>1, <1>2 DEF Within

\* One more fits where there was room.
LEMMA WithinAdd ==
  ASSUME NEW A, NEW max \in Nat, IsFiniteSet(A), Cardinality(A) < max, NEW x,
         NEW B \in SUBSET (A \cup {x})
  PROVE  Within(B, max)
<1>1. /\ IsFiniteSet(A \cup {x})
      /\ Cardinality(A \cup {x}) = Cardinality(A) \/ Cardinality(A \cup {x}) = Cardinality(A) + 1
  BY FS_AddElement
<1>2. Cardinality(A) \in Nat  BY FS_CardinalityType
<1>3. Within(A \cup {x}, max)  BY <1>1, <1>2 DEF Within
<1>4. QED  BY <1>3, WithinSubset

\* A finite set of numbers has a greatest element: a smallest set without one
\* would have one after all.
LEMMA FiniteHasMax ==
  ASSUME NEW S \in SUBSET Nat, IsFiniteSet(S), S # {}
  PROVE  \E x \in S : \A y \in S : y <= x
<1> DEFINE F == FiniteSubsetsOf(S)
           R == StrictSubsetOrdering(S)
           Bad == {T \in F : T # {} /\ ~\E x \in T : \A y \in T : y <= x}
<1> SUFFICES ASSUME S \in Bad PROVE FALSE
  BY DEF FiniteSubsetsOf
<1>1. IsWellFoundedOn(R, F)  BY FS_StrictSubsetOrderingWellFounded
<1>2. Bad \subseteq F /\ Bad # {}  OBVIOUS
<1> HIDE DEF Bad, F, R
<1>3. \E M \in Bad : \A N \in Bad : ~(<<N, M>> \in R)  BY <1>1, <1>2, WFMin
<1>4. PICK M \in Bad : \A N \in Bad : ~(<<N, M>> \in R)  BY <1>3
<1>5. /\ M \subseteq S /\ IsFiniteSet(M) /\ M # {}
      /\ ~\E x \in M : \A y \in M : y <= x
  BY <1>4 DEF Bad, F, FiniteSubsetsOf
<1>6. PICK a \in M : TRUE  BY <1>5
<1> DEFINE N == M \ {a}
<1>7. IsFiniteSet(N)  BY <1>5, FS_Subset
<1>8. <<N, M>> \in R  BY <1>5, <1>6 DEF R, StrictSubsetOrdering
<1>9. N \notin Bad  BY <1>4, <1>8
<1>10. N = {} \/ \E x \in N : \A y \in N : y <= x
  BY <1>5, <1>7, <1>9 DEF Bad, F, FiniteSubsetsOf
<1>11. a \in Nat /\ M \subseteq Nat  BY <1>5, <1>6
<1>12. CASE N = {}
  <2>1. \A y \in M : y = a  BY <1>12
  <2>2. QED  BY <1>5, <1>6, <1>11, <2>1
<1>13. ASSUME NEW x \in N, \A y \in N : y <= x PROVE FALSE
  <2>1. CASE x <= a
    <3>1. \A y \in M : y <= a  BY <1>11, <1>13, <2>1
    <3>2. QED  BY <1>5, <1>6, <3>1
  <2>2. CASE ~(x <= a)
    <3>1. \A y \in M : y <= x  BY <1>11, <1>13, <2>2
    <3>2. QED  BY <1>5, <1>13, <3>1
  <2>3. QED  BY <2>1, <2>2
<1>14. QED  BY <1>10, <1>12, <1>13

-----------------------------------------------------------------------------
(* The MAC address table *)

\* Learning registers a new address only in a table that has room.
LEMMA LearnMacWithin ==
  ASSUME NEW T \in MacTables, NEW flush \in Nat, NEW s \in Sessions,
         NEW m \in MacAddrs, NEW t \in Nat, Within(MacsUsed(T), MaxMacTables)
  PROVE  Within(MacsUsed(LearnMac(T, flush, s, m, t).table), MaxMacTables)
<1> DEFINE e == [session |-> s, updated |-> t]
<1>0. MaxMacTables \in Nat  BY LimitAssumption
<1>1. CASE m \notin Macs
  BY <1>1 DEF LearnMac
<1>2. CASE m \in Macs /\ T[m].session = Nobody
  <2> DEFINE due == flush = 0 \/ flush + FlushInterval < t
             U == IF due THEN DeleteExpiredMacTableEntry(T, t) ELSE T
             full == Cardinality(MacsUsed(U)) >= MaxMacTables
             over == \/ MacLimited(s) /\ Cardinality(MacsOf(U, s)) >= MacLimit(s)
                     \/ full
             N == IF over THEN U ELSE [U EXCEPT ![m] = e]
  <2>1. LearnMac(T, flush, s, m, t) = RegisterMac(T, flush, s, m, t)
    BY <1>2, SessionAssumption DEF LearnMac
  <2>2. RegisterMac(T, flush, s, m, t).table = N
    BY DEF RegisterMac
  <2>3. U \in MacTables /\ MacsUsed(U) \subseteq MacsUsed(T)
    BY DEF DeleteExpiredMacTableEntry, NoMac, MacTables, MacEntries, Owners, MacsUsed
  <2>4. full => over  OBVIOUS
  <2> HIDE DEF U, e
  <2>5. Within(MacsUsed(U), MaxMacTables)  BY <1>0, <2>3, WithinSubset
  <2>6. IsFiniteSet(MacsUsed(U)) /\ Cardinality(MacsUsed(U)) \in Nat
    BY <2>5, FS_CardinalityType DEF Within
  <2>7. CASE over
    <3>1. N = U  BY <2>7
    <3>2. QED  BY <2>1, <2>2, <2>5, <3>1
  <2>8. CASE ~over
    <3>1. N = [U EXCEPT ![m] = e] /\ ~full  BY <2>4, <2>8
    <3>2. MacsUsed(N) \subseteq MacsUsed(U) \cup {m}  BY <2>3, <3>1 DEF MacsUsed, MacTables
    <3>3. Cardinality(MacsUsed(U)) < MaxMacTables  BY <1>0, <2>6, <3>1
    <3> HIDE DEF N, full, over
    <3>4. Within(MacsUsed(N), MaxMacTables)  BY <1>0, <2>6, <3>2, <3>3, WithinAdd
    <3>5. QED  BY <2>1, <2>2, <3>4
  <2>9. QED  BY <2>7, <2>8
<1>3. CASE m \in Macs /\ T[m].session # Nobody
  <2> DEFINE N == LearnMac(T, flush, s, m, t).table
  <2>1. N \in {T, [T EXCEPT ![m].updated = t], [T EXCEPT ![m] = e]}
    BY <1>3 DEF LearnMac, RefreshMac, MoveMac
  <2>2. MacsUsed(N) \subseteq MacsUsed(T)
    BY <1>3, <2>1 DEF MacsUsed, MacTables, MacEntries
  <2> HIDE DEF N
  <2>3. Within(MacsUsed(N), MaxMacTables)  BY <1>0, <2>2, WithinSubset
  <2>4. QED  BY <2>3 DEF N
<1>4. QED  BY <1>1, <1>2, <1>3

\* An address changes hands only by MoveMac, which refuses a checked session while
\* the owner's exclusive time lasts.
LEMMA LearnMacTakeover ==
  ASSUME NEW T \in MacTables, NEW flush \in Nat, NEW s \in Sessions,
         NEW m \in MacAddrs, NEW t \in Nat, NEW k \in Macs \ DLinkMacs,
         T[k].session # Nobody,
         LearnMac(T, flush, s, m, t).table[k].session \notin {T[k].session, Nobody},
         CheckMacApplies(LearnMac(T, flush, s, m, t).table[k].session)
  PROVE  T[k].updated + MacExclusiveTime < t
<1> DEFINE N == LearnMac(T, flush, s, m, t).table
           e == [session |-> s, updated |-> t]
<1>1. CASE m \notin Macs
  BY <1>1 DEF LearnMac
<1>2. CASE m \in Macs /\ T[m].session = Nobody
  <2> DEFINE due == flush = 0 \/ flush + FlushInterval < t
             U == IF due THEN DeleteExpiredMacTableEntry(T, t) ELSE T
             over == \/ MacLimited(s) /\ Cardinality(MacsOf(U, s)) >= MacLimit(s)
                     \/ Cardinality(MacsUsed(U)) >= MaxMacTables
  <2>1. N = RegisterMac(T, flush, s, m, t).table
    BY <1>2, SessionAssumption DEF LearnMac
  <2>2. N = IF over THEN U ELSE [U EXCEPT ![m] = e]
    BY <2>1 DEF RegisterMac
  <2>3. U \in MacTables /\ U[k].session \in {T[k].session, Nobody}
    BY DEF DeleteExpiredMacTableEntry, NoMac, MacTables, MacEntries, Owners
  <2> HIDE DEF U, over, e
  <2>4. N[k] = U[k]  BY <1>2, <2>2, <2>3 DEF MacTables
  <2>5. QED  BY <2>3, <2>4
<1>3. CASE m \in Macs /\ T[m].session = s
  <2>1. N = [T EXCEPT ![m].updated = t]
    BY <1>3, SessionAssumption DEF LearnMac, RefreshMac
  <2>2. N[k].session = T[k].session  BY <2>1 DEF MacTables, MacEntries
  <2>3. QED  BY <2>2
<1>4. CASE m \in Macs /\ T[m].session \notin {s, Nobody}
  <2> DEFINE refused == /\ CheckMacApplies(s) /\ m \notin DLinkMacs
                        /\ T[m].updated + MacExclusiveTime >= t
  <2>1. N = MoveMac(T, flush, s, m, t).table
    BY <1>4 DEF LearnMac
  <2>2. N = IF refused THEN T ELSE [T EXCEPT ![m] = e]
    BY <2>1 DEF MoveMac
  <2>3. ~refused /\ k = m /\ N[k].session = s  BY <2>2 DEF MacTables
  <2>4. ~(T[k].updated + MacExclusiveTime >= t)  BY <2>3
  <2>5. T[k].updated \in Nat /\ MacExclusiveTime \in Nat
    BY LimitAssumption DEF MacTables, MacEntries
  <2>6. QED  BY <2>4, <2>5
<1>5. QED  BY <1>1, <1>2, <1>3, <1>4

-----------------------------------------------------------------------------
(* The IP address table *)

\* What DhcpForced says of a table.
Forced(T) ==
  \A i \in Ips4 : T[i].session # Nobody /\ Policy[T[i].session].DHCPForce => T[i].dhcp

IpGood(T) == Within(IpsUsed(T), MaxIpTables) /\ Forced(T)

\* Freeing slots keeps a table good.
LEMMA FreedIpGood ==
  ASSUME NEW T \in IpTables, NEW U \in IpTables, IpGood(T),
         \A i \in Ips : U[i] \in {T[i], NoIpEntry}
  PROVE  IpGood(U)
<1>1. IpsUsed(U) \subseteq IpsUsed(T)  BY DEF IpsUsed, NoIpEntry
<1>2. MaxIpTables \in Nat  BY LimitAssumption
<1>3. Within(IpsUsed(U), MaxIpTables)  BY <1>1, <1>2, WithinSubset DEF IpGood
<1>4. Forced(U)
  <2> SUFFICES ASSUME NEW i \in Ips4, U[i].session # Nobody, Policy[U[i].session].DHCPForce
               PROVE  U[i].dhcp
    BY DEF Forced
  <2>1. U[i] = T[i]  BY DEF Ips, NoIpEntry
  <2>2. QED  BY <2>1 DEF IpGood, Forced
<1>5. QED  BY <1>3, <1>4 DEF IpGood

\* Inserting touches no other slot except to free it.
LEMMA InsertIpOthers ==
  ASSUME NEW T \in IpTables, NEW i \in Ips, NEW e \in IpEntries, NEW t \in Nat
  PROVE  /\ InsertIp(T, i, e, t)[i] = e
         /\ \A k \in Ips : k # i => InsertIp(T, i, e, t)[k] \in {T[k], NoIpEntry}
<1> DEFINE U == DeleteExpiredIpTableEntry(T, t)
           V == IF Cardinality(IpsUsed(U)) >= MaxIpTables
                THEN DeleteOldIpTableEntry(U) ELSE U
<1>1. DOMAIN U = Ips /\ \A k \in Ips : U[k] \in {T[k], NoIpEntry}
  BY DEF DeleteExpiredIpTableEntry
<1> HIDE DEF U
<1>2. DOMAIN V = Ips /\ \A k \in Ips : V[k] \in {U[k], NoIpEntry}
  BY <1>1 DEF DeleteOldIpTableEntry
<1>3. InsertIp(T, i, e, t) = [V EXCEPT ![i] = e]  BY DEF InsertIp, U
<1> HIDE DEF V
<1>4. QED  BY <1>1, <1>2, <1>3

\* When the table is full the entry with the greatest address goes, so there is
\* room for the new one.
LEMMA InsertIpWithin ==
  ASSUME NEW T \in IpTables, NEW i \in Ips, NEW e \in IpEntries, NEW t \in Nat,
         Within(IpsUsed(T), MaxIpTables)
  PROVE  Within(IpsUsed(InsertIp(T, i, e, t)), MaxIpTables)
<1> DEFINE U == DeleteExpiredIpTableEntry(T, t)
           V == IF Cardinality(IpsUsed(U)) >= MaxIpTables
                THEN DeleteOldIpTableEntry(U) ELSE U
           A == IpsUsed(U)
<1>0. MaxIpTables \in Nat /\ MaxIpTables # 0  BY LimitAssumption
<1>1. DOMAIN U = Ips /\ A \subseteq IpsUsed(T)
  BY DEF DeleteExpiredIpTableEntry, IpsUsed, NoIpEntry
<1>2. InsertIp(T, i, e, t) = [V EXCEPT ![i] = e]  BY DEF InsertIp
<1> HIDE DEF U
<1>3. IsFiniteSet(A) /\ Cardinality(A) \in Nat /\ Cardinality(A) <= MaxIpTables
  <2> HIDE DEF A
  <2>1. Within(A, MaxIpTables)  BY <1>0, <1>1, WithinSubset
  <2>2. QED  BY <2>1, FS_CardinalityType DEF Within
<1>4. DOMAIN V = Ips /\ IsFiniteSet(IpsUsed(V)) /\ Cardinality(IpsUsed(V)) < MaxIpTables
  <2>1. CASE ~(Cardinality(A) >= MaxIpTables)
    <3>1. V = U  BY <2>1
    <3> HIDE DEF V
    <3>2. QED  BY <1>0, <1>1, <1>3, <2>1, <3>1
  <2>2. CASE Cardinality(A) >= MaxIpTables
    <3>1. V = DeleteOldIpTableEntry(U)  BY <2>2
    <3>2. A \in SUBSET Nat  BY AddressAssumption DEF IpsUsed
    <3>3. A # {}
      <4>1. Cardinality({}) = 0  BY FS_EmptySet
      <4>2. QED  BY <1>0, <2>2, <4>1
    <3>4. PICK x \in A : \A y \in A : y <= x  BY <1>3, <3>2, <3>3, FiniteHasMax
    <3> HIDE DEF V
    <3>5. DOMAIN V = Ips /\ IpsUsed(V) \subseteq A \ {x}
      BY <3>1, <3>4 DEF DeleteOldIpTableEntry, IpsUsed, NoIpEntry
    <3> HIDE DEF A
    <3>6. IsFiniteSet(A \ {x}) /\ Cardinality(A \ {x}) = Cardinality(A) - 1
      BY <1>3, <3>4, FS_RemoveElement
    <3>7. /\ IsFiniteSet(IpsUsed(V)) /\ Cardinality(IpsUsed(V)) <= Cardinality(A \ {x})
      BY <3>5, <3>6, FS_Subset
    <3>8. Cardinality(IpsUsed(V)) \in Nat  BY <3>7, FS_CardinalityType
    <3>9. Cardinality(IpsUsed(V)) <= Cardinality(A) - 1  BY <3>6, <3>7
    <3>10. QED  BY <1>0, <1>3, <3>5, <3>7, <3>8, <3>9
  <2>3. QED  BY <2>1, <2>2
<1> HIDE DEF V
<1>5. IpsUsed([V EXCEPT ![i] = e]) \subseteq IpsUsed(V) \cup {i}
  BY <1>4 DEF IpsUsed
<1>6. QED  BY <1>0, <1>2, <1>4, <1>5, WithinAdd

LEMMA InsertIpGood ==
  ASSUME NEW T \in IpTables, NEW i \in Ips, NEW e \in IpEntries, NEW t \in Nat, IpGood(T),
         e.session \in Sessions,
         i \in Ips4 /\ Policy[e.session].DHCPForce => e.dhcp
  PROVE  IpGood(InsertIp(T, i, e, t))
<1> DEFINE U == InsertIp(T, i, e, t)
<1>1. U[i] = e /\ \A k \in Ips : k # i => U[k] \in {T[k], NoIpEntry}
  BY InsertIpOthers
<1>2. Within(IpsUsed(U), MaxIpTables)  BY InsertIpWithin DEF IpGood
<1> HIDE DEF U
<1>3. Forced(U)
  <2> SUFFICES ASSUME NEW k \in Ips4, U[k].session # Nobody, Policy[U[k].session].DHCPForce
               PROVE  U[k].dhcp
    BY DEF Forced
  <2>1. CASE k = i  BY <1>1, <2>1
  <2>2. CASE k # i
    <3>1. U[k] = T[k]  BY <1>1, <2>2 DEF Ips, NoIpEntry
    <3>2. QED  BY <3>1 DEF IpGood, Forced
  <2>3. QED  BY <2>1, <2>2
<1>4. QED  BY <1>2, <1>3 DEF IpGood, U

\* A used slot may pass to a session that is not forced to DHCP, or that had it, or
\* that takes over what DHCP gave out.
LEMMA RefreshIpGood ==
  ASSUME NEW T \in IpTables, NEW s \in Sessions, NEW i \in Ips, NEW t \in Nat, IpGood(T),
         T[i].session # Nobody,
         i \in Ips4 /\ Policy[s].DHCPForce => T[i].dhcp
  PROVE  IpGood(RefreshIp(T, s, i, t))
<1> DEFINE U == RefreshIp(T, s, i, t)
<1>1. /\ U[i].session = s /\ U[i].dhcp = T[i].dhcp
      /\ \A k \in Ips : k # i => U[k] = T[k]
  BY DEF RefreshIp, IpTables, IpEntries
<1> HIDE DEF U
<1>2. IpsUsed(U) \subseteq IpsUsed(T)  BY <1>1 DEF IpsUsed
<1>3. MaxIpTables \in Nat  BY LimitAssumption
<1>4. Within(IpsUsed(U), MaxIpTables)  BY <1>2, <1>3, WithinSubset DEF IpGood
<1>5. Forced(U)
  <2> SUFFICES ASSUME NEW k \in Ips4, U[k].session # Nobody, Policy[U[k].session].DHCPForce
               PROVE  U[k].dhcp
    BY DEF Forced
  <2>1. CASE k = i  BY <1>1, <2>1
  <2>2. CASE k # i
    <3>1. U[k] = T[k]  BY <1>1, <2>2 DEF Ips
    <3>2. QED  BY <3>1 DEF IpGood, Forced
  <2>3. QED  BY <2>1, <2>2
<1>6. QED  BY <1>4, <1>5 DEF IpGood, U

\* An address is registered for no DHCPForce session, if it is an IPv4 address.
LEMMA RegisterIpGood ==
  ASSUME NEW T \in IpTables, NEW s \in Sessions, NEW i \in Ips, NEW t \in Nat, IpGood(T),
         ~(i \in Ips4 /\ Policy[s].DHCPForce)
  PROVE  IpGood(RegisterIp(T, s, i, t))
<1> DEFINE e == [session |-> s, updated |-> t, dhcp |-> FALSE]
<1>1. e \in IpEntries /\ e.session = s  BY DEF IpEntries, Owners
<1>2. RegisterIp(T, s, i, t) = IF i \in ManagedIps THEN InsertIp(T, i, e, t) ELSE T
  BY DEF RegisterIp
<1> HIDE DEF e
<1>3. IpGood(InsertIp(T, i, e, t))  BY <1>1, InsertIpGood
<1>4. QED  BY <1>2, <1>3

\* Learning from an IPv4, ARP or IPv6 packet keeps the table good.
LEMMA LearnIpGood ==
  ASSUME NEW T \in IpTables, NEW s \in Sessions, NEW p \in Packets, NEW t \in Nat, IpGood(T)
  PROVE  IpGood(LearnIp(T, s, p, t).table)
<1> DEFINE N == LearnIp(T, s, p, t).table
<1>1. CASE p.kind \in {"ip4", "arp"} /\ p.ip \in Ips4
  <2> DEFINE i == p.ip
  <2>1. i \in Ips  BY <1>1 DEF Ips
  <2>2. N = LearnIp4(T, s, i, t).table  BY <1>1 DEF LearnIp
  <2>3. CASE T[i].session = Nobody
    <3> DEFINE force == Policy[s].DHCPForce
               over == force \/ (IpLimited(s) /\ Cardinality(IpsOf(T, s, Ips4)) >= IpLimit(s))
    <3>1. N = IF over THEN T ELSE RegisterIp(T, s, i, t)
      <4>1. T[i].session # s  BY <2>3, SessionAssumption
      <4>2. LearnIp4(T, s, i, t) =
              [pass |-> ~over, table |-> IF over THEN T ELSE RegisterIp(T, s, i, t)]
        BY <2>3, <4>1 DEF LearnIp4
      <4> HIDE DEF over
      <4>3. QED  BY <2>2, <4>2
    <3>2. ~over => ~force  OBVIOUS
    <3>3. CASE over  BY <3>1, <3>3
    <3>4. CASE ~over
      <4>1. IpGood(RegisterIp(T, s, i, t))  BY <2>1, <3>2, <3>4, RegisterIpGood
      <4> HIDE DEF over, N
      <4>2. N = RegisterIp(T, s, i, t)  BY <3>1, <3>4
      <4>3. QED  BY <4>1, <4>2 DEF N
    <3>5. QED  BY <3>3, <3>4
  <2>4. CASE T[i].session = s
    <3>1. N = RefreshIp(T, s, i, t)
      BY <2>2, <2>4, SessionAssumption DEF LearnIp4
    <3>2. T[i].session # Nobody /\ (Policy[s].DHCPForce => T[i].dhcp)
      BY <1>1, <2>4, SessionAssumption DEF IpGood, Forced
    <3>3. QED  BY <2>1, <3>1, <3>2, RefreshIpGood
  <2>5. CASE T[i].session \notin {s, Nobody}
    <3> DEFINE force == Policy[s].DHCPForce
               refused == \/ (Policy[s].CheckIP \/ force) /\ T[i].updated + IpExclusiveTime >= t
                          \/ force /\ ~T[i].dhcp
    <3>1. N = IF refused THEN T ELSE RefreshIp(T, s, i, t)
      BY <2>2, <2>5 DEF LearnIp4
    <3>2. ~refused => ~(force /\ ~T[i].dhcp)  OBVIOUS
    <3>3. CASE refused  BY <3>1, <3>3
    <3>4. CASE ~refused
      <4>1. T[i].dhcp \in BOOLEAN  BY <2>1 DEF IpTables, IpEntries
      <4>2. IpGood(RefreshIp(T, s, i, t))  BY <2>1, <2>5, <3>2, <3>4, <4>1, RefreshIpGood
      <4> HIDE DEF refused, N
      <4>3. N = RefreshIp(T, s, i, t)  BY <3>1, <3>4
      <4>4. QED  BY <4>2, <4>3 DEF N
    <3>5. QED  BY <3>3, <3>4
  <2>6. QED  BY <2>3, <2>4, <2>5
<1>2. CASE p.kind \in {"ip6", "ra6"} /\ p.ip \in Ips6
  <2> DEFINE i == p.ip
  <2>1. i \in Ips /\ i \notin Ips4  BY <1>2, AddressAssumption DEF Ips
  <2>2. N = LearnIp6(T, s, i, p.kind = "ra6", t).table  BY <1>2 DEF LearnIp
  <2>3. CASE T[i].session = Nobody
    <3>1. N = T \/ N = RegisterIp(T, s, i, t)
      BY <2>2, <2>3, SessionAssumption DEF LearnIp6
    <3>2. QED  BY <2>1, <3>1, RegisterIpGood
  <2>4. CASE T[i].session = s
    <3>1. N = RefreshIp(T, s, i, t)
      BY <2>2, <2>4, SessionAssumption DEF LearnIp6
    <3>2. QED  BY <2>1, <2>4, <3>1, SessionAssumption, RefreshIpGood
  <2>5. CASE T[i].session \notin {s, Nobody}
    BY <2>2, <2>5, SessionAssumption DEF LearnIp6
  <2>6. QED  BY <2>3, <2>4, <2>5
<1>3. CASE ~(p.kind \in {"ip4", "arp"} /\ p.ip \in Ips4)
           /\ ~(p.kind \in {"ip6", "ra6"} /\ p.ip \in Ips6)
  BY <1>3 DEF LearnIp
<1>4. QED  BY <1>1, <1>2, <1>3

\* So does a DHCP ACK, which marks what it moves as given out by DHCP.
LEMMA SnoopDhcpGood ==
  ASSUME NEW T \in IpTables, NEW M \in MacTables, NEW p \in Packets, NEW t \in Nat, IpGood(T)
  PROVE  IpGood(SnoopDhcp(T, M, p, t))
<1> DEFINE e == [session |-> M[p.client].session, updated |-> t, dhcp |-> TRUE]
           C == p.kind = "dhcpack" /\ p.ip \in Ips4 /\ M[p.client].session # Nobody
<1>1. CASE ~C  BY <1>1 DEF SnoopDhcp
<1>2. CASE C
  <2>1. p.ip \in Ips /\ p.client \in Macs  BY <1>2 DEF Ips, Packets
  <2>2. e \in IpEntries /\ e.session \in Sessions /\ e.dhcp
    BY <1>2, <2>1 DEF MacTables, MacEntries, IpEntries, Owners
  <2>3. CASE T[p.ip].session = Nobody
    <3>1. SnoopDhcp(T, M, p, t) = InsertIp(T, p.ip, e, t)  BY <1>2, <2>3 DEF SnoopDhcp
    <3> HIDE DEF e
    <3>2. QED  BY <2>1, <2>2, <3>1, InsertIpGood
  <2>4. CASE T[p.ip].session # Nobody
    <3>1. SnoopDhcp(T, M, p, t) = [T EXCEPT ![p.ip] = e]  BY <1>2, <2>4 DEF SnoopDhcp
    <3> DEFINE U == [T EXCEPT ![p.ip] = e]
    <3> HIDE DEF e
    <3>2. U[p.ip] = e /\ \A k \in Ips : k # p.ip => U[k] = T[k]
      BY <2>1 DEF IpTables
    <3> HIDE DEF U
    <3>3. IpsUsed(U) \subseteq IpsUsed(T)  BY <2>4, <3>2 DEF IpsUsed
    <3>4. MaxIpTables \in Nat  BY LimitAssumption
    <3>5. Within(IpsUsed(U), MaxIpTables)  BY <3>3, <3>4, WithinSubset DEF IpGood
    <3>6. Forced(U)
      <4> SUFFICES ASSUME NEW k \in Ips4, U[k].session # Nobody, Policy[U[k].session].DHCPForce
                   PROVE  U[k].dhcp
        BY DEF Forced
      <4>1. CASE k = p.ip  BY <2>2, <3>2, <4>1
      <4>2. CASE k # p.ip
        <5>1. U[k] = T[k]  BY <3>2, <4>2 DEF Ips
        <5>2. QED  BY <5>1 DEF IpGood, Forced
      <4>3. QED  BY <4>1, <4>2
    <3>7. QED  BY <3>1, <3>5, <3>6 DEF IpGood, U
  <2>5. QED  BY <2>3, <2>4
<1>3. QED  BY <1>1, <1>2

\* An address of another session is taken by a checked one only in its time, or
\* because a DHCP server said so (the IPv6 branch never takes one).
IpTakeover(T, U, t) ==
  \A i \in Ips :
    /\ T[i].session # Nobody /\ U[i].session \notin {T[i].session, Nobody}
    /\ Policy[U[i].session].CheckIP \/ Policy[U[i].session].DHCPForce
    => T[i].updated + IpExclusiveTime < t \/ U[i].dhcp

LEMMA InsertIpTakeover ==
  ASSUME NEW T \in IpTables, NEW i \in Ips, NEW e \in IpEntries, NEW t \in Nat,
         T[i].session = Nobody
  PROVE  IpTakeover(T, InsertIp(T, i, e, t), t)
<1> SUFFICES ASSUME NEW k \in Ips, T[k].session # Nobody
             PROVE  InsertIp(T, i, e, t)[k].session \in {T[k].session, Nobody}
  BY DEF IpTakeover
<1>1. InsertIp(T, i, e, t)[k] \in {T[k], NoIpEntry}  BY InsertIpOthers
<1>2. QED  BY <1>1 DEF NoIpEntry

LEMMA LearnIpTakeover ==
  ASSUME NEW T \in IpTables, NEW s \in Sessions, NEW p \in Packets, NEW t \in Nat
  PROVE  IpTakeover(T, LearnIp(T, s, p, t).table, t)
<1> DEFINE N == LearnIp(T, s, p, t).table
<1>1. IpTakeover(T, T, t)  BY DEF IpTakeover
<1>2. ASSUME NEW i \in Ips, T[i].session = Nobody
      PROVE  IpTakeover(T, RegisterIp(T, s, i, t), t)
  <2> DEFINE e == [session |-> s, updated |-> t, dhcp |-> FALSE]
  <2>1. e \in IpEntries  BY DEF IpEntries, Owners
  <2>2. RegisterIp(T, s, i, t) = IF i \in ManagedIps THEN InsertIp(T, i, e, t) ELSE T
    BY DEF RegisterIp
  <2> HIDE DEF e
  <2>3. IpTakeover(T, InsertIp(T, i, e, t), t)  BY <1>2, <2>1, InsertIpTakeover
  <2>4. QED  BY <1>1, <2>2, <2>3
<1>3. ASSUME NEW i \in Ips,
             \/ T[i].session = s
             \/ ~(Policy[s].CheckIP \/ Policy[s].DHCPForce)
             \/ T[i].updated + IpExclusiveTime < t
      PROVE  IpTakeover(T, RefreshIp(T, s, i, t), t)
  <2> DEFINE U == RefreshIp(T, s, i, t)
  <2>1. U[i].session = s /\ \A k \in Ips : k # i => U[k] = T[k]
    BY DEF RefreshIp, IpTables, IpEntries
  <2> HIDE DEF U
  <2>2. IpTakeover(T, U, t)  BY <1>3, <2>1 DEF IpTakeover
  <2>3. QED  BY <2>2 DEF U
<1>4. CASE p.kind \in {"ip4", "arp"} /\ p.ip \in Ips4
  <2> DEFINE i == p.ip
             wait == T[i].updated + IpExclusiveTime >= t
  <2>1. i \in Ips  BY <1>4 DEF Ips
  <2>2. N = LearnIp4(T, s, i, t).table  BY <1>4 DEF LearnIp
  <2>3. CASE T[i].session = Nobody
    <3>1. N = T \/ N = RegisterIp(T, s, i, t)
      BY <2>2, <2>3, SessionAssumption DEF LearnIp4
    <3>2. QED  BY <2>1, <2>3, <3>1, <1>1, <1>2
  <2>4. CASE T[i].session = s
    <3>1. N = RefreshIp(T, s, i, t)
      BY <2>2, <2>4, SessionAssumption DEF LearnIp4
    <3>2. QED  BY <2>1, <2>4, <3>1, <1>3
  <2>5. CASE T[i].session \notin {s, Nobody}
    <3>1. \/ N = T
          \/ ~((Policy[s].CheckIP \/ Policy[s].DHCPForce) /\ wait) /\ N = RefreshIp(T, s, i, t)
      BY <2>2, <2>5, SessionAssumption DEF LearnIp4
    <3>2. ~wait => T[i].updated + IpExclusiveTime < t
      BY <2>1, LimitAssumption DEF IpTables, IpEntries
    <3> HIDE DEF N, wait
    <3>3. N = T \/ N = RefreshIp(T, s, i, t)  BY <3>1
    <3>4. IpTakeover(T, N, t)  BY <2>1, <3>1, <3>2, <1>1, <1>3
    <3>5. QED  BY <3>4 DEF N
  <2>6. QED  BY <2>3, <2>4, <2>5
<1>5. CASE p.kind \in {"ip6", "ra6"} /\ p.ip \in Ips6
  <2> DEFINE i == p.ip
  <2>1. i \in Ips  BY <1>5 DEF Ips
  <2>2. N = LearnIp6(T, s, i, p.kind = "ra6", t).table  BY <1>5 DEF LearnIp
  <2>3. CASE T[i].session = Nobody
    <3>1. N = T \/ N = RegisterIp(T, s, i, t)
      BY <2>2, <2>3, SessionAssumption DEF LearnIp6
    <3>2. QED  BY <2>1, <2>3, <3>1, <1>1, <1>2
  <2>4. CASE T[i].session = s
    <3>1. N = RefreshIp(T, s, i, t)
      BY <2>2, <2>4, SessionAssumption DEF LearnIp6
    <3>2. QED  BY <2>1, <2>4, <3>1, <1>3
  <2>5. CASE T[i].session \notin {s, Nobody}
    BY <2>2, <2>5, <1>1, SessionAssumption DEF LearnIp6
  <2>6. QED  BY <2>3, <2>4, <2>5
<1>6. CASE ~(p.kind \in {"ip4", "arp"} /\ p.ip \in Ips4)
           /\ ~(p.kind \in {"ip6", "ra6"} /\ p.ip \in Ips6)
  BY <1>1, <1>6 DEF LearnIp
<1>7. QED  BY <1>4, <1>5, <1>6

LEMMA SnoopDhcpTakeover ==
  ASSUME NEW T \in IpTables, NEW M \in MacTables, NEW p \in Packets, NEW t \in Nat
  PROVE  IpTakeover(T, SnoopDhcp(T, M, p, t), t)
<1> DEFINE e == [session |-> M[p.client].session, updated |-> t, dhcp |-> TRUE]
           C == p.kind = "dhcpack" /\ p.ip \in Ips4 /\ M[p.client].session # Nobody
<1>1. CASE ~C  BY <1>1 DEF SnoopDhcp, IpTakeover
<1>2. CASE C
  <2>1. p.ip \in Ips /\ p.client \in Macs  BY <1>2 DEF Ips, Packets
  <2>2. e \in IpEntries /\ e.dhcp
    BY <1>2, <2>1 DEF MacTables, MacEntries, IpEntries, Owners
  <2>3. CASE T[p.ip].session = Nobody
    <3>1. SnoopDhcp(T, M, p, t) = InsertIp(T, p.ip, e, t)  BY <1>2, <2>3 DEF SnoopDhcp
    <3> HIDE DEF e
    <3>2. QED  BY <2>1, <2>2, <2>3, <3>1, InsertIpTakeover
  <2>4. CASE T[p.ip].session # Nobody
    <3>1. SnoopDhcp(T, M, p, t) = [T EXCEPT ![p.ip] = e]  BY <1>2, <2>4 DEF SnoopDhcp
    <3> DEFINE U == [T EXCEPT ![p.ip] = e]
    <3> HIDE DEF e
    <3>2. U[p.ip] = e /\ \A k \in Ips : k # p.ip => U[k] = T[k]
      BY <2>1 DEF IpTables
    <3> HIDE DEF U
    <3>3. IpTakeover(T, U, t)  BY <2>2, <3>2 DEF IpTakeover
    <3>4. QED  BY <3>1, <3>3 DEF U
  <2>5. QED  BY <2>3, <2>4
<1>3. QED  BY <1>1, <1>2

-----------------------------------------------------------------------------
(* What a step of the hub does to the tables *)

\* Entries are only removed: by HubPaFree, the administrator, or not at all.
Shrinks ==
  /\ \A m \in Macs : macTable'[m] \in {macTable[m], NoMac}
  /\ \A i \in Ips : ipTable'[i] \in {ipTable[i], NoIpEntry}

\* The packets a session may hand over: new ones and those that were delayed.
Offered(s) == Traffic \cup {delayed[s][i] : i \in DOMAIN delayed[s]}

\* Or a session's packet is learned from; a packet is a DHCP ACK to the filter or
\* an address to learn to StorePacket, never both.
Learns(s, p) ==
  /\ p \in Offered(s)
  /\ macTable' \in {macTable, LearnMac(macTable, lastFlush, s, p.smac, now).table}
  /\ ipTable' \in {ipTable, SnoopDhcp(ipTable, macTable, p, now), LearnIp(ipTable, s, p, now).table}

LEMMA StoreLearns ==
  ASSUME NEW s \in Sessions, NEW p \in Packets, p \in Offered(s),
         NEW ipt \in {ipTable, SnoopDhcp(ipTable, macTable, p, now)},
         StorePacketFrom(s, p, ipt)
  PROVE  Learns(s, p)
<1> DEFINE L == LearnMac(macTable, lastFlush, s, p.smac, now)
           I == LearnIp(ipt, s, p, now)
<1>1. macTable' = L.table /\ ipTable' \in {ipt, I.table}
  BY DEF StorePacketFrom
<1>2. CASE p.kind = "dhcpack"
  <2>1. I.table = ipt  BY <1>2 DEF LearnIp
  <2>2. QED  BY <1>1, <2>1 DEF Learns
<1>3. CASE p.kind # "dhcpack"
  <2>1. ipt = ipTable  BY <1>3 DEF SnoopDhcp
  <2>2. QED  BY <1>1, <2>1 DEF Learns
<1>4. QED  BY <1>2, <1>3

LEMMA TableSteps ==
  ASSUME TypeOK, [Next]_vars
  PROVE  Shrinks \/ \E s \in Sessions, p \in Packets : Learns(s, p)
<1> USE DEF listVars, fdbVars, outVars
<1>1. UNCHANGED fdbVars => Shrinks  BY DEF Shrinks
<1>2. ASSUME NEW s \in Sessions, SessionStep(s)
      PROVE  Shrinks \/ \E p \in Packets : Learns(s, p)
  <2>1. CASE HubPaFreeTables(s)
    BY <2>1 DEF HubPaFreeTables, ForgetMacs, ForgetIps, Shrinks
  <2>2. CASE StoreDelayedPacket(s)
    <3>1. PICK i \in DOMAIN delayed[s] : StorePacketFrom(s, delayed[s][i], ipTable)
      BY <2>2 DEF StoreDelayedPacket
    <3>2. delayed[s] \in Seq(Packets)  BY DEF TypeOK
    <3>3. delayed[s][i] \in Packets  BY <3>1, <3>2
    <3>4. delayed[s][i] \in Offered(s)  BY DEF Offered
    <3>5. QED  BY <3>1, <3>3, <3>4, StoreLearns
  <2>3. CASE AddSession(s) \/ HubPaInit(s) \/ HubPaInitMonitor(s) \/ StartLoop(s)
    BY <1>1, <2>3 DEF AddSession, HubPaInit, HubPaInitMonitor, StartLoop
  <2>4. CASE DelSession(s) \/ HubPaFreeMonitor(s) \/ HubPaFreeQueue(s) \/ HubPaGetNextPacket(s)
    BY <1>1, <2>4 DEF DelSession, HubPaFreeMonitor, HubPaFreeQueue, HubPaGetNextPacket
  <2>5. CASE ConnectionStep(s)  BY <1>1, <2>5, ConnectionStepIs DEF Charge
  <2>6. QED  BY <1>2, <2>1, <2>2, <2>3, <2>4, <2>5 DEF SessionStep
<1>3. ASSUME NEW s \in Sessions, NEW p \in Traffic, PutPacket(s, p)
      PROVE  p \in Packets /\ Learns(s, p)
  <2>1. p \in Packets /\ p \in Offered(s)  BY SwitchAssumption DEF Offered
  <2>2. CASE FilterPacket(s, p) \/ DelayPacket(s, p)
    BY <2>1, <2>2 DEF FilterPacket, DelayPacket, Learns
  <2>3. CASE StorePacket(s, p)
    BY <2>1, <2>3, StoreLearns DEF StorePacket
  <2>4. QED  BY <1>3, <2>1, <2>2, <2>3 DEF PutPacket
<1>4. CASE StoreStep
  BY <1>1, <1>4 DEF StoreStep, CopyToMonitors, ForwardUnicast, FloodBegin, FloodOne, FloodEnd
<1>5. CASE AdminStep
  <2>1. ASSUME NEW m \in Macs, StDeleteMacTable(m) PROVE Shrinks
    BY <2>1 DEF StDeleteMacTable, Shrinks, TypeOK, MacTables
  <2>2. ASSUME NEW i \in Ips, StDeleteIpTable(i) PROVE Shrinks
    BY <2>2 DEF StDeleteIpTable, Shrinks, TypeOK, IpTables
  <2>3. QED  BY <1>5, <2>1, <2>2 DEF AdminStep
<1>6. CASE (\E m \in Macs : HubPoll(m)) \/ StopAllSession \/ Tick \/ UNCHANGED vars
  BY <1>1, <1>6 DEF HubPoll, StopAllSession, Tick, vars
<1>7. QED  BY <1>2, <1>3, <1>4, <1>5, <1>6 DEF Next

-----------------------------------------------------------------------------
(* Theorems *)

TablesGood == Within(MacsUsed(macTable), MaxMacTables) /\ IpGood(ipTable)

LEMMA InitTablesGood == ASSUME Init PROVE TablesGood
<1>1. MacsUsed(macTable) = {} /\ IpsUsed(ipTable) = {}
  BY DEF Init, MacsUsed, IpsUsed, NoMac, NoIpEntry
<1>2. IsFiniteSet({}) /\ Cardinality({}) = 0  BY FS_EmptySet
<1>3. Within({}, MaxMacTables) /\ Within({}, MaxIpTables)
  BY <1>2, LimitAssumption DEF Within
<1>4. Forced(ipTable)  BY DEF Init, Forced, NoIpEntry, Ips
<1>5. QED  BY <1>1, <1>3, <1>4 DEF TablesGood, IpGood

LEMMA NextTablesGood == ASSUME IInv, TablesGood, [Next]_vars PROVE TablesGood'
<1>1. /\ macTable \in MacTables /\ lastFlush \in Nat /\ ipTable \in IpTables /\ now \in Nat
      /\ macTable' \in MacTables /\ ipTable' \in IpTables
  BY NextIInv DEF IInv, TypeOK
<1>2. Within(MacsUsed(macTable), MaxMacTables) /\ IpGood(ipTable)  BY DEF TablesGood
<1>3. CASE Shrinks
  <2>1. MacsUsed(macTable') \subseteq MacsUsed(macTable)
    BY <1>3 DEF Shrinks, MacsUsed, NoMac
  <2>2. Within(MacsUsed(macTable'), MaxMacTables)
    BY <1>2, <2>1, LimitAssumption, WithinSubset
  <2>3. IpGood(ipTable')  BY <1>1, <1>2, <1>3, FreedIpGood DEF Shrinks
  <2>4. QED  BY <2>2, <2>3 DEF TablesGood, Within, IpGood, Forced, MacsUsed, IpsUsed
<1>4. ASSUME NEW s \in Sessions, NEW p \in Packets, Learns(s, p) PROVE TablesGood'
  <2>1. p.smac \in MacAddrs  BY DEF Packets
  <2>2. Within(MacsUsed(LearnMac(macTable, lastFlush, s, p.smac, now).table), MaxMacTables)
    BY <1>1, <1>2, <2>1, LearnMacWithin
  <2>3. IpGood(SnoopDhcp(ipTable, macTable, p, now))  BY <1>1, <1>2, SnoopDhcpGood
  <2>4. IpGood(LearnIp(ipTable, s, p, now).table)  BY <1>1, <1>2, LearnIpGood
  <2>5. Within(MacsUsed(macTable'), MaxMacTables) /\ IpGood(ipTable')
    BY <1>2, <1>4, <2>2, <2>3, <2>4 DEF Learns
  <2>6. QED  BY <2>5 DEF TablesGood, Within, IpGood, Forced, MacsUsed, IpsUsed
<1>5. QED  BY <1>3, <1>4, TableSteps DEF IInv

LEMMA TablesAlwaysGood == Spec => []TablesGood
<1>1. Init => TablesGood  BY InitTablesGood
<1>2. IInv /\ TablesGood /\ [Next]_vars => TablesGood'  BY NextTablesGood
<1>3. QED  BY <1>1, <1>2, Inductive, PTL DEF Spec

\* Neither table ever holds more entries than its limit: not by registration,
\* take-over or DHCP, and not by packets that were delayed while it filled.
THEOREM WithinLimitsCorrect == Spec => []WithinLimits
<1>1. TablesGood => WithinLimits  BY DEF TablesGood, IpGood, Within, WithinLimits
<1>2. QED  BY <1>1, TablesAlwaysGood, PTL

\* What a DHCPForce session owns of IPv4 was given out by a DHCP server.
THEOREM DhcpForcedCorrect == Spec => []DhcpForced
<1>1. TablesGood => DhcpForced  BY DEF TablesGood, IpGood, Forced, DhcpForced
<1>2. QED  BY <1>1, TablesAlwaysGood, PTL

\* No step of the hub gives an address of one session to another, checked one
\* before the exclusive time is over, unless a DHCP server moved it.
THEOREM AddressTakeoverCorrect == Spec => AddressTakeover
<1> DEFINE Act ==
      /\ \A m \in Macs \ DLinkMacs : LET o == macTable[m].session  n == macTable'[m].session IN
           o # Nobody /\ n \notin {o, Nobody} /\ CheckMacApplies(n)
             => macTable[m].updated + MacExclusiveTime < now
      /\ \A i \in Ips : LET o == ipTable[i].session  n == ipTable'[i].session IN
           /\ o # Nobody /\ n \notin {o, Nobody}
           /\ Policy[n].CheckIP \/ Policy[n].DHCPForce
           => ipTable[i].updated + IpExclusiveTime < now \/ ipTable'[i].dhcp
<1>1. IInv /\ [Next]_vars => Act
  <2> SUFFICES ASSUME IInv, [Next]_vars PROVE Act  OBVIOUS
  <2>0. /\ macTable \in MacTables /\ lastFlush \in Nat /\ ipTable \in IpTables
        /\ now \in Nat /\ TypeOK
    BY DEF IInv, TypeOK
  <2>1. CASE Shrinks
    BY <2>1 DEF Shrinks, NoMac, NoIpEntry
  <2>2. ASSUME NEW s \in Sessions, NEW p \in Packets, Learns(s, p) PROVE Act
    <3>1. p.smac \in MacAddrs  BY DEF Packets
    <3>2. ASSUME NEW m \in Macs \ DLinkMacs, macTable[m].session # Nobody,
                 macTable'[m].session \notin {macTable[m].session, Nobody},
                 CheckMacApplies(macTable'[m].session)
          PROVE  macTable[m].updated + MacExclusiveTime < now
      <4>1. macTable' = LearnMac(macTable, lastFlush, s, p.smac, now).table
        BY <2>2, <3>2 DEF Learns
      <4>2. QED  BY <2>0, <3>1, <3>2, <4>1, LearnMacTakeover
    <3>3. IpTakeover(ipTable, ipTable', now)
      <4>1. IpTakeover(ipTable, ipTable, now)  BY DEF IpTakeover
      <4>2. QED  BY <2>0, <2>2, <4>1, LearnIpTakeover, SnoopDhcpTakeover DEF Learns
    <3>4. QED  BY <3>2, <3>3 DEF IpTakeover
  <2>3. QED  BY <2>0, <2>1, <2>2, TableSteps
<1>2. QED  BY <1>1, Inductive, PTL DEF Spec, AddressTakeover

-----------------------------------------------------------------------------
(* The limits of one session *)

LEMMA NoneAdded ==
  ASSUME NEW A, IsFiniteSet(A), NEW B \in SUBSET A, NEW l \in Nat
  PROVE  Cardinality(B) <= Greater(l, Cardinality(A))
<1>1. IsFiniteSet(B) /\ Cardinality(B) <= Cardinality(A)  BY FS_Subset
<1>2. Cardinality(A) \in Nat /\ Cardinality(B) \in Nat  BY <1>1, FS_CardinalityType
<1>3. QED  BY <1>1, <1>2 DEF Greater

\* One is added where there was room below the limit.
LEMMA OneAdded ==
  ASSUME NEW A, IsFiniteSet(A), NEW C \in SUBSET A, NEW l \in Nat, Cardinality(C) < l,
         NEW x, NEW B \in SUBSET (C \cup {x})
  PROVE  Cardinality(B) <= l /\ Cardinality(B) <= Greater(l, Cardinality(A))
<1>1. IsFiniteSet(C)  BY FS_Subset
<1>2. Within(B, l)  BY <1>1, WithinAdd
<1>3. IsFiniteSet(B) /\ Cardinality(B) <= l  BY <1>2 DEF Within
<1>4. Cardinality(A) \in Nat /\ Cardinality(B) \in Nat  BY <1>3, FS_CardinalityType
<1>5. QED  BY <1>3, <1>4 DEF Greater

LEMMA LimitTypes ==
  ASSUME NEW s \in Sessions
  PROVE  MacLimit(s) \in Nat /\ IpLimit(s) \in Nat /\ IpLimitV6(s) \in Nat
<1>1. /\ Policy[s].MaxMac \in Nat /\ Policy[s].MaxIP \in Nat /\ Policy[s].MaxIPv6 \in Nat
      /\ {MacMinLimit, IpMinLimit, IpMinLimitV6, IpLimitNoRoutingV6} \subseteq Nat
  BY PolicyAssumption, LimitAssumption DEF Policies
<1>2. MacLimit(s) \in Nat  BY <1>1 DEF MacLimit, Greater
<1>3. IpLimit(s) \in Nat  BY <1>1 DEF IpLimit, Greater
<1> DEFINE routed == CASE Policy[s].MaxIPv6 = 0  -> IpLimitNoRoutingV6
                       [] ~Policy[s].NoRoutingV6 -> Policy[s].MaxIPv6
                       [] OTHER -> Smaller(IpLimitNoRoutingV6, Policy[s].MaxIPv6)
<1>4. routed \in Nat
  <2>1. Smaller(IpLimitNoRoutingV6, Policy[s].MaxIPv6) \in Nat  BY <1>1 DEF Smaller
  <2>2. CASE Policy[s].MaxIPv6 = 0  BY <1>1, <2>2
  <2>3. CASE Policy[s].MaxIPv6 # 0 /\ ~Policy[s].NoRoutingV6  BY <1>1, <2>3
  <2>4. CASE Policy[s].MaxIPv6 # 0 /\ Policy[s].NoRoutingV6  BY <2>1, <2>4
  <2>5. QED  BY <2>2, <2>3, <2>4
<1>5. IpLimitV6(s) = Greater(IpMinLimitV6, routed)  BY DEF IpLimitV6
<1> HIDE DEF routed
<1>6. IpLimitV6(s) \in Nat  BY <1>1, <1>4, <1>5 DEF Greater
<1>7. QED  BY <1>2, <1>3, <1>6

\* What MacLimitPassed says of one session and two tables.
MacGrowth(T, U, s) ==
  \/ Cardinality(MacsOf(U, s)) <= Greater(MacLimit(s), Cardinality(MacsOf(T, s)))
  \/ \E m \in Macs : T[m].session \notin {s, Nobody} /\ U[m].session = s

LEMMA MacFewer ==
  ASSUME NEW T \in MacTables, Within(MacsUsed(T), MaxMacTables), NEW U, NEW s \in Sessions,
         MacsOf(U, s) \subseteq MacsOf(T, s)
  PROVE  MacGrowth(T, U, s)
<1>1. MacsOf(T, s) \subseteq MacsUsed(T)  BY SessionAssumption DEF MacsOf, MacsUsed
<1>2. IsFiniteSet(MacsOf(T, s))  BY <1>1, FS_Subset DEF Within
<1>3. QED  BY <1>2, LimitTypes, NoneAdded DEF MacGrowth

\* RegisterMac counts the addresses of the session first, RefreshMac adds none and
\* MoveMac takes one over.
LEMMA LearnMacGrowth ==
  ASSUME NEW T \in MacTables, NEW flush \in Nat, NEW s \in Sessions,
         NEW m \in MacAddrs, NEW t \in Nat, Within(MacsUsed(T), MaxMacTables),
         NEW r \in Sessions, MacLimited(r)
  PROVE  MacGrowth(T, LearnMac(T, flush, s, m, t).table, r)
<1> DEFINE N == LearnMac(T, flush, s, m, t).table
           e == [session |-> s, updated |-> t]
<1>0. r # Nobody /\ s # Nobody  BY SessionAssumption
<1>1. CASE m \notin Macs
  <2>1. N = T  BY <1>1 DEF LearnMac
  <2>2. QED  BY <2>1, MacFewer
<1>2. CASE m \in Macs /\ T[m].session = Nobody
  <2> DEFINE due == flush = 0 \/ flush + FlushInterval < t
             U == IF due THEN DeleteExpiredMacTableEntry(T, t) ELSE T
             full == MacLimited(s) /\ Cardinality(MacsOf(U, s)) >= MacLimit(s)
             over == full \/ Cardinality(MacsUsed(U)) >= MaxMacTables
  <2>1. N = RegisterMac(T, flush, s, m, t).table
    BY <1>0, <1>2 DEF LearnMac
  <2>2. N = IF over THEN U ELSE [U EXCEPT ![m] = e]
    BY <2>1 DEF RegisterMac
  <2>3. DOMAIN U = Macs /\ MacsOf(U, r) \subseteq MacsOf(T, r)
    BY <1>0 DEF DeleteExpiredMacTableEntry, NoMac, MacTables, MacEntries, MacsOf
  <2>4. full => over  OBVIOUS
  <2> HIDE DEF U, e, N
  <2>5. CASE over
    <3>1. N = U  BY <2>2, <2>5
    <3>2. MacGrowth(T, N, r)  BY <2>3, <3>1, MacFewer
    <3>3. QED  BY <3>2 DEF N
  <2>6. CASE ~over
    <3>1. N = [U EXCEPT ![m] = e] /\ ~full  BY <2>2, <2>4, <2>6
    <3>2. CASE r # s
      <4>1. MacsOf(N, r) \subseteq MacsOf(U, r)  BY <2>3, <3>1, <3>2 DEF MacsOf, e
      <4>2. MacGrowth(T, N, r)  BY <2>3, <4>1, MacFewer
      <4>3. QED  BY <4>2 DEF N
    <3>3. CASE r = s
      <4>1. MacsOf(N, r) \subseteq MacsOf(U, r) \cup {m}  BY <2>3, <3>1 DEF MacsOf
      <4>2. MacLimit(r) \in Nat  BY LimitTypes
      <4>3. IsFiniteSet(MacsOf(T, r)) /\ Cardinality(MacsOf(U, r)) \in Nat
        <5>1. MacsOf(T, r) \subseteq MacsUsed(T)  BY <1>0 DEF MacsOf, MacsUsed
        <5>2. IsFiniteSet(MacsOf(T, r))  BY <5>1, FS_Subset DEF Within
        <5>3. IsFiniteSet(MacsOf(U, r))  BY <2>3, <5>2, FS_Subset
        <5>4. QED  BY <5>2, <5>3, FS_CardinalityType
      <4>4. Cardinality(MacsOf(U, r)) < MacLimit(r)  BY <3>1, <3>3, <4>2, <4>3
      <4>5. Cardinality(MacsOf(N, r)) <= Greater(MacLimit(r), Cardinality(MacsOf(T, r)))
        BY <2>3, <4>1, <4>2, <4>3, <4>4, OneAdded
      <4>6. QED  BY <4>5 DEF MacGrowth, N
    <3>4. QED  BY <3>2, <3>3
  <2>7. QED  BY <2>5, <2>6
<1>3. CASE m \in Macs /\ T[m].session = s
  <2>1. N = [T EXCEPT ![m].updated = t]  BY <1>0, <1>3 DEF LearnMac, RefreshMac
  <2>2. MacsOf(N, r) \subseteq MacsOf(T, r)  BY <2>1 DEF MacTables, MacEntries, MacsOf
  <2> HIDE DEF N
  <2>3. MacGrowth(T, N, r)  BY <2>2, MacFewer
  <2>4. QED  BY <2>3 DEF N
<1>4. CASE m \in Macs /\ T[m].session \notin {s, Nobody}
  <2>1. N = T \/ N = [T EXCEPT ![m] = e]
    BY <1>4 DEF LearnMac, MoveMac
  <2>2. CASE N = T  BY <2>2, MacFewer
  <2>3. CASE N = [T EXCEPT ![m] = e]
    <3>1. N[m].session = s  BY <1>4, <2>3 DEF MacTables
    <3>2. CASE r = s  BY <1>4, <3>1, <3>2 DEF MacGrowth
    <3>3. CASE r # s
      <4>1. MacsOf(N, r) \subseteq MacsOf(T, r)  BY <2>3, <3>3 DEF MacTables, MacsOf
      <4> HIDE DEF N
      <4>2. MacGrowth(T, N, r)  BY <4>1, MacFewer
      <4>3. QED  BY <4>2 DEF N
    <3>4. QED  BY <3>2, <3>3
  <2>4. QED  BY <2>1, <2>2, <2>3
<1>5. QED  BY <1>1, <1>2, <1>3, <1>4 DEF MacAddrs

\* Over its limit a session's MAC addresses grow only by those it takes over:
\* learning a new one counts first, in StorePacket and for delayed packets alike.
THEOREM MacLimitPassedCorrect == Spec => MacLimitPassed
<1> DEFINE Act == \A s \in Sessions : MacLimited(s) => MacGrowth(macTable, macTable', s)
<1>1. IInv /\ TablesGood /\ [Next]_vars => Act
  <2> SUFFICES ASSUME IInv, TablesGood, [Next]_vars, NEW s \in Sessions, MacLimited(s)
               PROVE  MacGrowth(macTable, macTable', s)
    OBVIOUS
  <2>0. /\ macTable \in MacTables /\ lastFlush \in Nat /\ now \in Nat /\ TypeOK
        /\ Within(MacsUsed(macTable), MaxMacTables)
    BY DEF IInv, TypeOK, TablesGood
  <2>1. MacGrowth(macTable, macTable, s)  BY <2>0, MacFewer
  <2>2. CASE Shrinks
    <3>1. MacsOf(macTable', s) \subseteq MacsOf(macTable, s)
      BY <2>2, SessionAssumption DEF Shrinks, NoMac, MacsOf
    <3>2. QED  BY <2>0, <3>1, MacFewer
  <2>3. ASSUME NEW u \in Sessions, NEW p \in Packets, Learns(u, p)
        PROVE  MacGrowth(macTable, macTable', s)
    <3>1. p.smac \in MacAddrs  BY DEF Packets
    <3>2. MacGrowth(macTable, LearnMac(macTable, lastFlush, u, p.smac, now).table, s)
      BY <2>0, <3>1, LearnMacGrowth
    <3>3. QED  BY <2>1, <2>3, <3>2 DEF Learns
  <2>4. QED  BY <2>0, <2>2, <2>3, TableSteps
<1>2. Act => \A s \in Sessions : MacLimited(s) =>
               \/ Cardinality(MacsOf(macTable', s))
                    <= Greater(MacLimit(s), Cardinality(MacsOf(macTable, s)))
               \/ \E m \in Macs :
                    macTable[m].session \notin {s, Nobody} /\ macTable'[m].session = s
  BY DEF MacGrowth
<1>3. QED  BY <1>1, <1>2, Inductive, TablesAlwaysGood, PTL DEF Spec, MacLimitPassed

\* The ways LearnIp changes the table: a free address is registered, after the
\* session's were counted; its own is refreshed; another session's IPv4 address is
\* taken over.
LEMMA LearnIpCases ==
  ASSUME NEW T \in IpTables, NEW s \in Sessions, NEW p \in Packets, NEW t \in Nat
  PROVE  LET N == LearnIp(T, s, p, t).table  i == p.ip IN
           \/ N = T
           \/ /\ i \in Ips /\ N = RegisterIp(T, s, i, t)
              /\ i \in Ips4 /\ IpLimited(s)
                   => ~(Cardinality(IpsOf(T, s, Ips4)) >= IpLimit(s))
              /\ i \in Ips6 /\ IpLimitedV6(s) /\ p.kind # "ra6"
                   => ~(Cardinality(IpsOf(T, s, Ips6)) >= IpLimitV6(s))
           \/ i \in Ips /\ T[i].session = s /\ N = RefreshIp(T, s, i, t)
           \/ i \in Ips4 /\ T[i].session \notin {s, Nobody} /\ N = RefreshIp(T, s, i, t)
<1> DEFINE N == LearnIp(T, s, p, t).table
           i == p.ip
           Is == \/ N = T
                 \/ /\ i \in Ips /\ N = RegisterIp(T, s, i, t)
                    /\ i \in Ips4 /\ IpLimited(s)
                         => ~(Cardinality(IpsOf(T, s, Ips4)) >= IpLimit(s))
                    /\ i \in Ips6 /\ IpLimitedV6(s) /\ p.kind # "ra6"
                         => ~(Cardinality(IpsOf(T, s, Ips6)) >= IpLimitV6(s))
                 \/ i \in Ips /\ T[i].session = s /\ N = RefreshIp(T, s, i, t)
                 \/ i \in Ips4 /\ T[i].session \notin {s, Nobody} /\ N = RefreshIp(T, s, i, t)
<1> SUFFICES Is  OBVIOUS
<1>0. s # Nobody /\ (i \in Ips4 => i \notin Ips6)  BY SessionAssumption, AddressAssumption
<1>1. CASE p.kind \in {"ip4", "arp"} /\ i \in Ips4
  <2>1. N = LearnIp4(T, s, i, t).table /\ i \in Ips  BY <1>1 DEF LearnIp, Ips
  <2>2. CASE T[i].session = Nobody
    <3> DEFINE count == IpLimited(s) /\ Cardinality(IpsOf(T, s, Ips4)) >= IpLimit(s)
               over == Policy[s].DHCPForce \/ count
    <3>1. LearnIp4(T, s, i, t)
            = [pass |-> ~over, table |-> IF over THEN T ELSE RegisterIp(T, s, i, t)]
      BY <1>0, <2>2 DEF LearnIp4
    <3>2. count => over  OBVIOUS
    <3> HIDE DEF over
    <3>3. N = IF over THEN T ELSE RegisterIp(T, s, i, t)  BY <2>1, <3>1
    <3> HIDE DEF N
    <3>4. CASE over  BY <3>3, <3>4
    <3>5. CASE ~over  BY <1>0, <1>1, <2>1, <3>2, <3>3, <3>5
    <3>6. QED  BY <3>4, <3>5
  <2>3. CASE T[i].session = s
    <3>1. N = RefreshIp(T, s, i, t)  BY <1>0, <2>1, <2>3 DEF LearnIp4
    <3>2. QED  BY <2>1, <2>3, <3>1
  <2>4. CASE T[i].session \notin {s, Nobody}
    <3>1. N = T \/ N = RefreshIp(T, s, i, t)  BY <2>1, <2>4 DEF LearnIp4
    <3>2. QED  BY <1>1, <2>4, <3>1
  <2>5. QED  BY <2>2, <2>3, <2>4
<1>2. CASE p.kind \in {"ip6", "ra6"} /\ i \in Ips6
  <2> DEFINE ra == p.kind = "ra6"
  <2>1. N = LearnIp6(T, s, i, ra, t).table /\ i \in Ips  BY <1>2 DEF LearnIp, Ips
  <2>2. CASE T[i].session = Nobody
    <3> DEFINE over == ~ra /\ IpLimitedV6(s) /\ Cardinality(IpsOf(T, s, Ips6)) >= IpLimitV6(s)
    <3>1. LearnIp6(T, s, i, ra, t)
            = [pass |-> ~over, table |-> IF over THEN T ELSE RegisterIp(T, s, i, t)]
      BY <1>0, <2>2 DEF LearnIp6
    <3>2. ~over => ra \/ ~IpLimitedV6(s) \/ ~(Cardinality(IpsOf(T, s, Ips6)) >= IpLimitV6(s))
      OBVIOUS
    <3> HIDE DEF over
    <3>3. N = IF over THEN T ELSE RegisterIp(T, s, i, t)  BY <2>1, <3>1
    <3> HIDE DEF N
    <3>4. CASE over  BY <3>3, <3>4
    <3>5. CASE ~over  BY <1>0, <1>2, <2>1, <3>2, <3>3, <3>5
    <3>6. QED  BY <3>4, <3>5
  <2>3. CASE T[i].session = s
    <3>1. N = RefreshIp(T, s, i, t)  BY <1>0, <2>1, <2>3 DEF LearnIp6
    <3>2. QED  BY <2>1, <2>3, <3>1
  <2>4. CASE T[i].session \notin {s, Nobody}
    <3>1. N = T  BY <2>1, <2>4 DEF LearnIp6
    <3>2. QED  BY <3>1
  <2>5. QED  BY <2>2, <2>3, <2>4
<1>3. CASE ~(p.kind \in {"ip4", "arp"} /\ i \in Ips4) /\ ~(p.kind \in {"ip6", "ra6"} /\ i \in Ips6)
  <2>1. N = T  BY <1>3 DEF LearnIp
  <2>2. QED  BY <2>1
<1>4. QED  BY <1>1, <1>2, <1>3

\* What they do to the addresses of a session.
LEMMA RegisterIpOf ==
  ASSUME NEW T \in IpTables, NEW s \in Sessions, NEW i \in Ips, NEW t \in Nat,
         NEW r \in Sessions, NEW A \in SUBSET Ips
  PROVE  /\ IpsOf(RegisterIp(T, s, i, t), r, A) \subseteq IpsOf(T, r, A) \cup {i}
         /\ r # s \/ i \notin A => IpsOf(RegisterIp(T, s, i, t), r, A) \subseteq IpsOf(T, r, A)
<1> DEFINE e == [session |-> s, updated |-> t, dhcp |-> FALSE]
           U == InsertIp(T, i, e, t)
<1>1. RegisterIp(T, s, i, t) = IF i \in ManagedIps THEN U ELSE T
  BY DEF RegisterIp
<1>2. e \in IpEntries /\ e.session = s /\ r # Nobody
  BY SessionAssumption DEF IpEntries, Owners
<1>3. U[i] = e /\ \A k \in Ips : k # i => U[k] \in {T[k], NoIpEntry}
  BY <1>2, InsertIpOthers
<1> HIDE DEF U, e
<1>4. /\ IpsOf(U, r, A) \subseteq IpsOf(T, r, A) \cup {i}
      /\ r # s \/ i \notin A => IpsOf(U, r, A) \subseteq IpsOf(T, r, A)
  BY <1>2, <1>3 DEF IpsOf, NoIpEntry
<1>5. QED  BY <1>1, <1>4

LEMMA RefreshIpOf ==
  ASSUME NEW T \in IpTables, NEW s \in Sessions, NEW i \in Ips, NEW t \in Nat,
         NEW r \in Sessions, NEW A \in SUBSET Ips,
         T[i].session = s \/ r # s \/ i \notin A
  PROVE  IpsOf(RefreshIp(T, s, i, t), r, A) \subseteq IpsOf(T, r, A)
<1> DEFINE U == RefreshIp(T, s, i, t)
<1>1. U[i].session = s /\ \A k \in Ips : k # i => U[k] = T[k]
  BY DEF RefreshIp, IpTables, IpEntries
<1> HIDE DEF U
<1>2. IpsOf(U, r, A) \subseteq IpsOf(T, r, A)  BY <1>1 DEF IpsOf
<1>3. QED  BY <1>2 DEF U

\* A DHCP ACK gives one IPv4 address to one session, marked.
LEMMA SnoopDhcpOf ==
  ASSUME NEW T \in IpTables, NEW M \in MacTables, NEW p \in Packets, NEW t \in Nat,
         NEW r \in Sessions, NEW A \in SUBSET Ips
  PROVE  LET N == SnoopDhcp(T, M, p, t) IN
           \/ IpsOf(N, r, A) \subseteq IpsOf(T, r, A)
           \/ /\ p.ip \in Ips4 /\ p.ip \in A
              /\ T[p.ip].session # r /\ N[p.ip].session = r /\ N[p.ip].dhcp
<1> DEFINE e == [session |-> M[p.client].session, updated |-> t, dhcp |-> TRUE]
           C == p.kind = "dhcpack" /\ p.ip \in Ips4 /\ M[p.client].session # Nobody
           N == SnoopDhcp(T, M, p, t)
<1>0. r # Nobody  BY SessionAssumption
<1>1. CASE ~C  BY <1>1 DEF SnoopDhcp
<1>2. CASE C
  <2>1. p.ip \in Ips /\ p.client \in Macs  BY <1>2 DEF Ips, Packets
  <2>2. e \in IpEntries /\ e.dhcp
    BY <1>2, <2>1 DEF MacTables, MacEntries, IpEntries, Owners
  <2>3. N = IF T[p.ip].session = Nobody THEN InsertIp(T, p.ip, e, t) ELSE [T EXCEPT ![p.ip] = e]
    BY <1>2 DEF SnoopDhcp
  <2> HIDE DEF e
  <2>4. N[p.ip] = e /\ \A k \in Ips : k # p.ip => N[k] \in {T[k], NoIpEntry}
    <3>1. CASE T[p.ip].session = Nobody
      <4>1. N = InsertIp(T, p.ip, e, t)  BY <2>3, <3>1
      <4>2. QED  BY <2>1, <2>2, <4>1, InsertIpOthers
    <3>2. CASE T[p.ip].session # Nobody
      <4>1. N = [T EXCEPT ![p.ip] = e]  BY <2>3, <3>2
      <4> HIDE DEF N
      <4>2. QED  BY <2>1, <4>1 DEF IpTables
    <3>3. QED  BY <3>1, <3>2
  <2> HIDE DEF N
  <2>5. \A k \in IpsOf(N, r, A) : k # p.ip => k \in IpsOf(T, r, A)
    BY <1>0, <2>4 DEF IpsOf, NoIpEntry
  <2>6. CASE p.ip \in A /\ T[p.ip].session # r /\ N[p.ip].session = r
    BY <1>2, <2>2, <2>4, <2>6 DEF N
  <2>7. CASE ~(p.ip \in A /\ T[p.ip].session # r /\ N[p.ip].session = r)
    <3>1. IpsOf(N, r, A) \subseteq IpsOf(T, r, A)  BY <2>5, <2>7 DEF IpsOf
    <3>2. QED  BY <3>1 DEF N
  <2>8. QED  BY <2>6, <2>7
<1>3. QED  BY <1>1, <1>2

\* What IpLimitPassed says of one session and two tables.
IpGrowth(T, U, s) ==
  \/ Cardinality(IpsOf(U, s, Ips4)) <= Greater(IpLimit(s), Cardinality(IpsOf(T, s, Ips4)))
  \/ \E i \in Ips4 :
       /\ T[i].session # s /\ U[i].session = s
       /\ T[i].session # Nobody \/ U[i].dhcp

LEMMA IpsOfFinite ==
  ASSUME NEW T \in IpTables, IpGood(T), NEW s \in Sessions, NEW A \in SUBSET Ips
  PROVE  IsFiniteSet(IpsOf(T, s, A)) /\ Cardinality(IpsOf(T, s, A)) \in Nat
<1>1. IpsOf(T, s, A) \subseteq IpsUsed(T)  BY SessionAssumption DEF IpsOf, IpsUsed
<1>2. IsFiniteSet(IpsOf(T, s, A))  BY <1>1, FS_Subset DEF IpGood, Within
<1>3. QED  BY <1>2, FS_CardinalityType

LEMMA IpFewer ==
  ASSUME NEW T \in IpTables, IpGood(T), NEW U, NEW s \in Sessions,
         IpsOf(U, s, Ips4) \subseteq IpsOf(T, s, Ips4)
  PROVE  IpGrowth(T, U, s)
<1>1. IsFiniteSet(IpsOf(T, s, Ips4))  BY IpsOfFinite DEF Ips
<1>2. QED  BY <1>1, LimitTypes, NoneAdded DEF IpGrowth

LEMMA LearnIpGrowth ==
  ASSUME NEW T \in IpTables, IpGood(T), NEW s \in Sessions, NEW p \in Packets, NEW t \in Nat,
         NEW r \in Sessions, IpLimited(r)
  PROVE  IpGrowth(T, LearnIp(T, s, p, t).table, r)
<1> DEFINE N == LearnIp(T, s, p, t).table
           i == p.ip
<1>0. Ips4 \in SUBSET Ips  BY DEF Ips
<1>1. CASE N = T  BY <1>1, IpFewer
<1>2. CASE /\ i \in Ips /\ N = RegisterIp(T, s, i, t)
           /\ i \in Ips4 /\ IpLimited(s) => ~(Cardinality(IpsOf(T, s, Ips4)) >= IpLimit(s))
  <2>1. /\ IpsOf(N, r, Ips4) \subseteq IpsOf(T, r, Ips4) \cup {i}
        /\ r # s \/ i \notin Ips4 => IpsOf(N, r, Ips4) \subseteq IpsOf(T, r, Ips4)
    BY <1>0, <1>2, RegisterIpOf
  <2> HIDE DEF N, i
  <2>2. CASE r # s \/ i \notin Ips4
    <3>1. IpGrowth(T, N, r)  BY <2>1, <2>2, IpFewer
    <3>2. QED  BY <3>1 DEF N
  <2>3. CASE r = s /\ i \in Ips4
    <3>1. IsFiniteSet(IpsOf(T, r, Ips4)) /\ Cardinality(IpsOf(T, r, Ips4)) \in Nat
      BY <1>0, IpsOfFinite
    <3>2. IpLimit(r) \in Nat  BY LimitTypes
    <3>3. Cardinality(IpsOf(T, r, Ips4)) < IpLimit(r)  BY <1>2, <2>3, <3>1, <3>2
    <3>4. Cardinality(IpsOf(N, r, Ips4)) <= Greater(IpLimit(r), Cardinality(IpsOf(T, r, Ips4)))
      BY <2>1, <3>1, <3>2, <3>3, OneAdded
    <3>5. QED  BY <3>4 DEF IpGrowth, N
  <2>4. QED  BY <2>2, <2>3
<1>3. CASE i \in Ips /\ T[i].session = s /\ N = RefreshIp(T, s, i, t)
  <2>1. IpsOf(N, r, Ips4) \subseteq IpsOf(T, r, Ips4)  BY <1>0, <1>3, RefreshIpOf
  <2> HIDE DEF N
  <2>2. IpGrowth(T, N, r)  BY <2>1, IpFewer
  <2>3. QED  BY <2>2 DEF N
<1>4. CASE i \in Ips4 /\ T[i].session \notin {s, Nobody} /\ N = RefreshIp(T, s, i, t)
  <2>1. CASE r # s
    <3>1. IpsOf(N, r, Ips4) \subseteq IpsOf(T, r, Ips4)  BY <1>0, <1>4, <2>1, RefreshIpOf
    <3> HIDE DEF N
    <3>2. IpGrowth(T, N, r)  BY <3>1, IpFewer
    <3>3. QED  BY <3>2 DEF N
  <2>2. CASE r = s
    <3>1. N[i].session = s  BY <1>0, <1>4 DEF RefreshIp, IpTables, IpEntries
    <3>2. QED  BY <1>4, <2>2, <3>1 DEF IpGrowth
  <2>3. QED  BY <2>1, <2>2
<1>5. QED
  <2> HIDE DEF N
  <2>1. IpGrowth(T, N, r)  BY <1>1, <1>2, <1>3, <1>4, LearnIpCases DEF N
  <2>2. QED  BY <2>1 DEF N

LEMMA SnoopDhcpGrowth ==
  ASSUME NEW T \in IpTables, IpGood(T), NEW M \in MacTables, NEW p \in Packets, NEW t \in Nat,
         NEW r \in Sessions
  PROVE  IpGrowth(T, SnoopDhcp(T, M, p, t), r)
<1> DEFINE N == SnoopDhcp(T, M, p, t)
<1>0. Ips4 \in SUBSET Ips  BY DEF Ips
<1>1. \/ IpsOf(N, r, Ips4) \subseteq IpsOf(T, r, Ips4)
      \/ p.ip \in Ips4 /\ T[p.ip].session # r /\ N[p.ip].session = r /\ N[p.ip].dhcp
  BY <1>0, SnoopDhcpOf
<1> HIDE DEF N
<1>2. CASE IpsOf(N, r, Ips4) \subseteq IpsOf(T, r, Ips4)
  <2>1. IpGrowth(T, N, r)  BY <1>2, IpFewer
  <2>2. QED  BY <2>1 DEF N
<1>3. CASE p.ip \in Ips4 /\ T[p.ip].session # r /\ N[p.ip].session = r /\ N[p.ip].dhcp
  <2>1. IpGrowth(T, N, r)  BY <1>3 DEF IpGrowth
  <2>2. QED  BY <2>1 DEF N
<1>4. QED  BY <1>1, <1>2, <1>3

\* Over its limit a session's IPv4 addresses grow only by those it takes over and
\* those a DHCP server gives it.
THEOREM IpLimitPassedCorrect == Spec => IpLimitPassed
<1> DEFINE Act == \A s \in Sessions : IpLimited(s) => IpGrowth(ipTable, ipTable', s)
<1>1. IInv /\ TablesGood /\ [Next]_vars => Act
  <2> SUFFICES ASSUME IInv, TablesGood, [Next]_vars, NEW s \in Sessions, IpLimited(s)
               PROVE  IpGrowth(ipTable, ipTable', s)
    OBVIOUS
  <2>0. /\ ipTable \in IpTables /\ macTable \in MacTables /\ now \in Nat /\ TypeOK
        /\ IpGood(ipTable)
    BY DEF IInv, TypeOK, TablesGood
  <2>1. IpGrowth(ipTable, ipTable, s)  BY <2>0, IpFewer
  <2>2. CASE Shrinks
    <3>1. IpsOf(ipTable', s, Ips4) \subseteq IpsOf(ipTable, s, Ips4)
      BY <2>2, SessionAssumption DEF Shrinks, NoIpEntry, IpsOf, Ips
    <3>2. QED  BY <2>0, <3>1, IpFewer
  <2>3. ASSUME NEW u \in Sessions, NEW p \in Packets, Learns(u, p)
        PROVE  IpGrowth(ipTable, ipTable', s)
    <3>1. IpGrowth(ipTable, SnoopDhcp(ipTable, macTable, p, now), s)
      BY <2>0, SnoopDhcpGrowth
    <3>2. IpGrowth(ipTable, LearnIp(ipTable, u, p, now).table, s)
      BY <2>0, LearnIpGrowth
    <3>3. QED  BY <2>1, <2>3, <3>1, <3>2 DEF Learns
  <2>4. QED  BY <2>0, <2>2, <2>3, TableSteps
<1>2. Act => \A s \in Sessions : IpLimited(s) =>
               \/ Cardinality(IpsOf(ipTable', s, Ips4))
                    <= Greater(IpLimit(s), Cardinality(IpsOf(ipTable, s, Ips4)))
               \/ \E i \in Ips4 :
                    /\ ipTable[i].session # s /\ ipTable'[i].session = s
                    /\ ipTable[i].session # Nobody \/ ipTable'[i].dhcp
  BY DEF IpGrowth
<1>3. QED  BY <1>1, <1>2, Inductive, TablesAlwaysGood, PTL DEF Spec, IpLimitPassed

\* What a session delays was traffic, so nothing but traffic is ever learned from.
DelayedTraffic == delayed \in [Sessions -> Seq(Traffic)]

LEMMA NextDelayedTraffic ==
  ASSUME DelayedTraffic, [Next]_vars PROVE DelayedTraffic'
<1> USE DEF DelayedTraffic
<1>1. UNCHANGED delayed => DelayedTraffic'  OBVIOUS
<1>2. ASSUME NEW s \in Sessions, SessionStep(s) PROVE DelayedTraffic'
  <2>1. CASE HubPaFreeQueue(s)
    <3>1. <<>> \in Seq(Traffic)  OBVIOUS
    <3>2. QED  BY <2>1, <3>1 DEF HubPaFreeQueue
  <2>2. CASE StoreDelayedPacket(s)
    <3>1. PICK i \in DOMAIN delayed[s] :
            delayed' = [delayed EXCEPT ![s] = SubSeq(@, 1, i - 1) \o SubSeq(@, i + 1, Len(@))]
      BY <2>2 DEF StoreDelayedPacket
    <3>2. delayed[s] \in Seq(Traffic) /\ i \in 1 .. Len(delayed[s])  OBVIOUS
    <3>3. SubSeq(delayed[s], 1, i - 1) \in Seq(Traffic)  BY <3>2
    <3>4. SubSeq(delayed[s], i + 1, Len(delayed[s])) \in Seq(Traffic)  BY <3>2
    <3>5. SubSeq(delayed[s], 1, i - 1) \o SubSeq(delayed[s], i + 1, Len(delayed[s]))
            \in Seq(Traffic)
      BY <3>3, <3>4
    <3>6. QED  BY <3>1, <3>5
  <2>3. CASE AddSession(s) \/ HubPaInit(s) \/ HubPaInitMonitor(s) \/ StartLoop(s)
    BY <1>1, <2>3 DEF AddSession, HubPaInit, HubPaInitMonitor, StartLoop
  <2>4. CASE DelSession(s) \/ HubPaFreeMonitor(s) \/ HubPaFreeTables(s) \/ HubPaGetNextPacket(s)
    BY <1>1, <2>4 DEF DelSession, HubPaFreeMonitor, HubPaFreeTables, HubPaGetNextPacket
  <2>5. CASE ConnectionStep(s)
    BY <1>1, <2>5 DEF ConnectionStep, ChargeSendQueue, ChargeSockets, SettleConnection,
                      CleanupConnection, Charge
  <2>6. QED  BY <1>2, <2>1, <2>2, <2>3, <2>4, <2>5 DEF SessionStep
<1>3. ASSUME NEW s \in Sessions, NEW p \in Traffic, PutPacket(s, p) PROVE DelayedTraffic'
  <2>1. CASE FilterPacket(s, p) \/ StorePacket(s, p)
    BY <1>1, <2>1 DEF FilterPacket, StorePacket
  <2>2. CASE DelayPacket(s, p)
    <3>1. Append(delayed[s], p) \in Seq(Traffic)  OBVIOUS
    <3>2. QED  BY <2>2, <3>1 DEF DelayPacket
  <2>3. QED  BY <1>3, <2>1, <2>2 DEF PutPacket
<1>4. CASE StoreStep
  BY <1>1, <1>4 DEF StoreStep, CopyToMonitors, ForwardUnicast, FloodBegin, FloodOne, FloodEnd
<1>5. CASE AdminStep \/ (\E m \in Macs : HubPoll(m)) \/ StopAllSession \/ Tick \/ UNCHANGED vars
  BY <1>1, <1>5 DEF AdminStep, StDeleteMacTable, StDeleteIpTable, HubPoll, StopAllSession,
                    Tick, vars
<1>6. QED  BY <1>2, <1>3, <1>4, <1>5 DEF Next

LEMMA OfferedTraffic ==
  ASSUME DelayedTraffic, NEW s \in Sessions PROVE Offered(s) \subseteq Traffic
<1>1. delayed[s] \in Seq(Traffic)  BY DEF DelayedTraffic
<1>2. \A i \in DOMAIN delayed[s] : delayed[s][i] \in Traffic  BY <1>1
<1>3. QED  BY <1>2 DEF Offered

\* What IpV6LimitPerSession says of a table.
V6Within(T) ==
  \A s \in Sessions : IpLimitedV6(s) => Cardinality(IpsOf(T, s, Ips6)) <= IpLimitV6(s)

LEMMA IpV6Fewer ==
  ASSUME NEW T \in IpTables, IpGood(T), V6Within(T), NEW U,
         \A s \in Sessions : IpsOf(U, s, Ips6) \subseteq IpsOf(T, s, Ips6)
  PROVE  V6Within(U)
<1> SUFFICES ASSUME NEW s \in Sessions, IpLimitedV6(s)
             PROVE  Cardinality(IpsOf(U, s, Ips6)) <= IpLimitV6(s)
  BY DEF V6Within
<1>1. IsFiniteSet(IpsOf(T, s, Ips6))  BY IpsOfFinite DEF Ips
<1>2. Cardinality(IpsOf(T, s, Ips6)) <= IpLimitV6(s) /\ IpLimitV6(s) \in Nat
  BY LimitTypes DEF V6Within
<1>3. Within(IpsOf(U, s, Ips6), IpLimitV6(s))  BY <1>1, <1>2, WithinSubset DEF Within
<1>4. QED  BY <1>3 DEF Within

\* No IPv6 address changes hands, and RegisterIp comes after the count.
LEMMA LearnIpV6Within ==
  ASSUME NEW T \in IpTables, IpGood(T), V6Within(T), NEW s \in Sessions, NEW p \in Packets,
         p.kind # "ra6", NEW t \in Nat
  PROVE  V6Within(LearnIp(T, s, p, t).table)
<1> DEFINE N == LearnIp(T, s, p, t).table
           i == p.ip
<1>0. Ips6 \in SUBSET Ips  BY DEF Ips
<1>1. CASE N = T  BY <1>1
<1>2. CASE /\ i \in Ips /\ N = RegisterIp(T, s, i, t)
           /\ i \in Ips6 /\ IpLimitedV6(s) => ~(Cardinality(IpsOf(T, s, Ips6)) >= IpLimitV6(s))
  <2> SUFFICES ASSUME NEW r \in Sessions, IpLimitedV6(r)
               PROVE  Cardinality(IpsOf(N, r, Ips6)) <= IpLimitV6(r)
    BY DEF V6Within
  <2>1. /\ IpsOf(N, r, Ips6) \subseteq IpsOf(T, r, Ips6) \cup {i}
        /\ r # s \/ i \notin Ips6 => IpsOf(N, r, Ips6) \subseteq IpsOf(T, r, Ips6)
    BY <1>0, <1>2, RegisterIpOf
  <2> HIDE DEF N, i
  <2>2. /\ IsFiniteSet(IpsOf(T, r, Ips6)) /\ Cardinality(IpsOf(T, r, Ips6)) \in Nat
        /\ Cardinality(IpsOf(T, r, Ips6)) <= IpLimitV6(r) /\ IpLimitV6(r) \in Nat
    BY <1>0, IpsOfFinite, LimitTypes DEF V6Within
  <2>3. CASE r # s \/ i \notin Ips6
    <3>1. Within(IpsOf(N, r, Ips6), IpLimitV6(r))
      BY <2>1, <2>2, <2>3, WithinSubset DEF Within
    <3>2. QED  BY <3>1 DEF Within
  <2>4. CASE r = s /\ i \in Ips6
    <3>1. Cardinality(IpsOf(T, r, Ips6)) < IpLimitV6(r)  BY <1>2, <2>2, <2>4
    <3>2. QED  BY <2>1, <2>2, <3>1, OneAdded
  <2>5. QED  BY <2>3, <2>4
<1>3. CASE \/ i \in Ips /\ T[i].session = s /\ N = RefreshIp(T, s, i, t)
           \/ i \in Ips4 /\ T[i].session \notin {s, Nobody} /\ N = RefreshIp(T, s, i, t)
  <2>1. i \in Ips /\ (T[i].session = s \/ i \notin Ips6) /\ N = RefreshIp(T, s, i, t)
    BY <1>3, AddressAssumption DEF Ips
  <2>2. \A r \in Sessions : IpsOf(N, r, Ips6) \subseteq IpsOf(T, r, Ips6)
    BY <1>0, <2>1, RefreshIpOf
  <2> HIDE DEF N
  <2>3. V6Within(N)  BY <2>2, IpV6Fewer
  <2>4. QED  BY <2>3 DEF N
<1>4. QED
  <2> HIDE DEF N
  <2>1. V6Within(N)  BY <1>1, <1>2, <1>3, LearnIpCases DEF N
  <2>2. QED  BY <2>1 DEF N

LEMMA NextV6Within ==
  ASSUME IInv, TablesGood, DelayedTraffic, V6Within(ipTable), [Next]_vars,
         \A p \in Traffic : p.kind # "ra6"
  PROVE  V6Within(ipTable')
<1>0. /\ ipTable \in IpTables /\ macTable \in MacTables /\ now \in Nat /\ TypeOK
      /\ IpGood(ipTable)
  BY DEF IInv, TypeOK, TablesGood
<1>1. CASE Shrinks
  <2>1. \A s \in Sessions : IpsOf(ipTable', s, Ips6) \subseteq IpsOf(ipTable, s, Ips6)
    BY <1>1, SessionAssumption DEF Shrinks, NoIpEntry, IpsOf, Ips
  <2>2. QED  BY <1>0, <2>1, IpV6Fewer
<1>2. ASSUME NEW u \in Sessions, NEW p \in Packets, Learns(u, p) PROVE V6Within(ipTable')
  <2>1. p.kind # "ra6"  BY <1>2, OfferedTraffic DEF Learns
  <2>2. V6Within(SnoopDhcp(ipTable, macTable, p, now))
    <3>1. \A r \in Sessions :
            IpsOf(SnoopDhcp(ipTable, macTable, p, now), r, Ips6) \subseteq IpsOf(ipTable, r, Ips6)
      BY <1>0, AddressAssumption, SnoopDhcpOf DEF Ips
    <3>2. QED  BY <1>0, <3>1, IpV6Fewer
  <2>3. V6Within(LearnIp(ipTable, u, p, now).table)
    BY <1>0, <2>1, LearnIpV6Within
  <2>4. QED  BY <1>2, <2>2, <2>3 DEF Learns
<1>3. QED  BY <1>0, <1>1, <1>2, TableSteps

\* Where no router messages and no DHCPv6 are sent, which the code lets past it on
\* purpose, the limit of IPv6 addresses of a session holds: nothing is taken over.
THEOREM IpV6LimitCorrect ==
  ASSUME \A p \in Traffic : p.kind # "ra6" PROVE Spec => []IpV6LimitPerSession
<1>1. Init => DelayedTraffic  BY DEF Init, DelayedTraffic
<1>2. DelayedTraffic /\ [Next]_vars => DelayedTraffic'  BY NextDelayedTraffic
<1>3. Init => V6Within(ipTable)
  <2> SUFFICES ASSUME Init, NEW s \in Sessions
               PROVE  Cardinality(IpsOf(ipTable, s, Ips6)) <= IpLimitV6(s)
    BY DEF V6Within
  <2>1. IpsOf(ipTable, s, Ips6) = {}  BY SessionAssumption DEF Init, IpsOf, NoIpEntry, Ips
  <2>2. Cardinality({}) = 0 /\ IpLimitV6(s) \in Nat  BY FS_EmptySet, LimitTypes
  <2>3. QED  BY <2>1, <2>2
<1>4. IInv /\ TablesGood /\ DelayedTraffic /\ V6Within(ipTable) /\ [Next]_vars
        => V6Within(ipTable)'
  <2>1. IInv /\ TablesGood /\ DelayedTraffic /\ V6Within(ipTable) /\ [Next]_vars
          => V6Within(ipTable')
    BY NextV6Within
  <2>2. QED  BY <2>1 DEF V6Within, IpsOf
<1>5. V6Within(ipTable) => IpV6LimitPerSession  BY DEF V6Within, IpV6LimitPerSession
<1>6. QED
  BY <1>1, <1>2, <1>3, <1>4, <1>5, Inductive, TablesAlwaysGood, PTL DEF Spec
=============================================================================
