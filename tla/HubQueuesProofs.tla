--------------------------- MODULE HubQueuesProofs ---------------------------
(***************************************************************************)
(* Proofs about what is in the ports' queues of a Virtual Hub, for any number *)
(* of sessions and any policies: the shared counter is the flooded blocks the *)
(* queues hold and what the connections charged, the flooded blocks stay      *)
(* within the quota, and ports in privacy filter mode hear nothing of each    *)
(* other but broadcasts.                                                       *)
(***************************************************************************)
EXTENDS HubSwitchProofs, FunctionTheorems

-----------------------------------------------------------------------------
(* Counting the flooded blocks of one queue *)

FloodedAt(q) == {i \in DOMAIN q : q[i].flooding}

LEMMA FloodedFinite ==
  ASSUME NEW q \in Seq(Blocks)
  PROVE  IsFiniteSet(FloodedAt(q)) /\ Flooded(q) = Cardinality(FloodedAt(q)) /\ Flooded(q) \in Nat
<1>1. IsFiniteSet(1 .. Len(q))  BY FS_Interval
<1>2. FloodedAt(q) \subseteq 1 .. Len(q)  BY DEF FloodedAt
<1>3. QED  BY <1>1, <1>2, FS_Subset, FS_CardinalityType DEF FloodedAt, Flooded

LEMMA FloodedEmpty == Flooded(<<>>) = 0
<1>1. {i \in DOMAIN <<>> : <<>>[i].flooding} = {}  OBVIOUS
<1>2. QED  BY <1>1, FS_EmptySet DEF Flooded

\* A block stored at the end adds one if it was flooded.
LEMMA FloodedAppend ==
  ASSUME NEW q \in Seq(Blocks), NEW b \in Blocks
  PROVE  Flooded(Append(q, b)) = IF b.flooding THEN Flooded(q) + 1 ELSE Flooded(q)
<1>1. /\ Append(q, b) \in Seq(Blocks) /\ Len(q) \in Nat
      /\ DOMAIN Append(q, b) = 1 .. Len(q) + 1 /\ DOMAIN q = 1 .. Len(q)
      /\ \A i \in 1 .. Len(q) : Append(q, b)[i] = q[i]
      /\ Append(q, b)[Len(q) + 1] = b
  OBVIOUS
<1>2. Len(q) + 1 \notin FloodedAt(q)  BY <1>1 DEF FloodedAt
<1>3. CASE b.flooding
  <2>1. FloodedAt(Append(q, b)) = FloodedAt(q) \cup {Len(q) + 1}
    BY <1>1, <1>3 DEF FloodedAt
  <2>2. Cardinality(FloodedAt(q) \cup {Len(q) + 1}) = Cardinality(FloodedAt(q)) + 1
    BY <1>2, FloodedFinite, FS_AddElement
  <2>3. /\ Flooded(q) = Cardinality(FloodedAt(q))
        /\ Flooded(Append(q, b)) = Cardinality(FloodedAt(Append(q, b)))
    BY <1>1, FloodedFinite
  <2>4. QED  BY <1>3, <2>1, <2>2, <2>3
<1>4. CASE ~b.flooding
  <2>1. FloodedAt(Append(q, b)) = FloodedAt(q)
    BY <1>1, <1>4 DEF FloodedAt
  <2>2. QED  BY <1>1, <1>4, <2>1, FloodedFinite
<1>5. QED  BY <1>3, <1>4

\* The block taken from the front takes one away if it was flooded: the others
\* move up by one place.
LEMMA FloodedTail ==
  ASSUME NEW q \in Seq(Blocks), q # <<>>
  PROVE  Flooded(Tail(q)) = IF Head(q).flooding THEN Flooded(q) - 1 ELSE Flooded(q)
<1>1. /\ Tail(q) \in Seq(Blocks) /\ Len(q) \in Nat /\ Len(q) >= 1 /\ Head(q) = q[1]
      /\ DOMAIN q = 1 .. Len(q) /\ DOMAIN Tail(q) = 1 .. Len(q) - 1
      /\ \A i \in 1 .. Len(q) - 1 : Tail(q)[i] = q[i + 1]
  OBVIOUS
<1> DEFINE A == FloodedAt(q) \ {1}
           f == [i \in FloodedAt(Tail(q)) |-> i + 1]
<1>2. f \in Bijection(FloodedAt(Tail(q)), A)
  <2>1. \A i \in FloodedAt(Tail(q)) : i \in Nat /\ i + 1 \in A
    BY <1>1 DEF FloodedAt
  <2>2. \A j \in A : j \in Nat /\ j - 1 \in FloodedAt(Tail(q)) /\ (j - 1) + 1 = j
    BY <1>1 DEF FloodedAt
  <2> HIDE DEF A
  <2>3. f \in [FloodedAt(Tail(q)) -> A]  BY <2>1
  <2>4. \A i, j \in FloodedAt(Tail(q)) : f[i] = f[j] => i = j  BY <2>1
  <2>5. \A j \in A : \E i \in FloodedAt(Tail(q)) : f[i] = j  BY <2>2
  <2>6. f \in Injection(FloodedAt(Tail(q)), A)  BY <2>3, <2>4 DEF Injection, IsInjective
  <2>7. f \in Surjection(FloodedAt(Tail(q)), A)  BY <2>3, <2>5 DEF Surjection
  <2>8. QED  BY <2>6, <2>7 DEF Bijection
<1>3. Cardinality(A) = Flooded(Tail(q))
  <2>1. IsFiniteSet(FloodedAt(Tail(q))) /\ Flooded(Tail(q)) = Cardinality(FloodedAt(Tail(q)))
    BY <1>1, FloodedFinite
  <2>2. ExistsBijection(FloodedAt(Tail(q)), A)  BY <1>2 DEF ExistsBijection
  <2> HIDE DEF A
  <2>3. QED  BY <2>1, <2>2, FS_Bijection
<1>4. Cardinality(A) = IF 1 \in FloodedAt(q) THEN Flooded(q) - 1 ELSE Flooded(q)
  BY FloodedFinite, FS_RemoveElement
<1>5. 1 \in FloodedAt(q) <=> Head(q).flooding  BY <1>1 DEF FloodedAt
<1>6. QED  BY <1>3, <1>4, <1>5
-----------------------------------------------------------------------------
(* Counting the flooded blocks of several queues, and what is charged *)

\* FloodAccounting, and that there is something to count: there may be infinitely
\* many sessions, but not flooded or charged blocks.
Accounted ==
  /\ IsFiniteSet(FloodedOf(Sessions)) /\ IsFiniteSet(Charged)
  /\ tcpQueueSize = Cardinality(FloodedOf(Sessions)) + Cardinality(Charged)

\* Tagged with the session, they are as many.
LEMMA Tagged ==
  ASSUME NEW A, IsFiniteSet(A), NEW s
  PROVE  IsFiniteSet({s} \X A) /\ Cardinality({s} \X A) = Cardinality(A)
<1> DEFINE B == {s} \X A
           f == [i \in A |-> <<s, i>>]
<1>1. f \in [A -> B] /\ \A i, j \in A : f[i] = f[j] => i = j  OBVIOUS
<1>2. \A x \in B : \E i \in A : f[i] = x  OBVIOUS
<1> HIDE DEF B, f
<1>3. f \in Injection(A, B)  BY <1>1 DEF Injection, IsInjective
<1>4. f \in Surjection(A, B)  BY <1>1, <1>2 DEF Surjection
<1>5. ExistsBijection(A, B)  BY <1>3, <1>4 DEF Bijection, ExistsBijection
<1>6. QED  BY <1>5, FS_Bijection DEF B

\* A part of a finite set is replaced by something new.
LEMMA PartReplaced ==
  ASSUME NEW F, NEW A, NEW B, IsFiniteSet(F), IsFiniteSet(A), IsFiniteSet(B),
         A \subseteq F, (F \ A) \cap B = {}
  PROVE  /\ IsFiniteSet((F \ A) \cup B)
         /\ Cardinality((F \ A) \cup B) + Cardinality(A) = Cardinality(F) + Cardinality(B)
<1>1. IsFiniteSet(F \ A)  BY FS_Subset
<1>2. /\ Cardinality(F) \in Nat /\ Cardinality(F \ A) \in Nat /\ Cardinality(A) \in Nat
      /\ Cardinality(B) \in Nat
  BY <1>1, FS_CardinalityType
<1>3. Cardinality({}) = 0  BY FS_EmptySet
<1>4. Cardinality(F) = Cardinality(F \ A) + Cardinality(A)
  <2>1. (F \ A) \cup A = F /\ (F \ A) \cap A = {}  OBVIOUS
  <2>2. Cardinality((F \ A) \cup A)
          = Cardinality(F \ A) + Cardinality(A) - Cardinality((F \ A) \cap A)
    BY <1>1, FS_Union
  <2>3. Cardinality(F) = Cardinality(F \ A) + Cardinality(A) - 0  BY <1>3, <2>1, <2>2
  <2>4. QED  BY <1>2, <2>3
<1>5. /\ IsFiniteSet((F \ A) \cup B)
      /\ Cardinality((F \ A) \cup B)
           = Cardinality(F \ A) + Cardinality(B) - Cardinality((F \ A) \cap B)
  BY <1>1, FS_Union
<1>6. Cardinality((F \ A) \cup B) = Cardinality(F \ A) + Cardinality(B) - 0
  BY <1>3, <1>5
<1>7. QED  BY <1>2, <1>4, <1>5, <1>6

\* When the queue of one session of S changes, so does the count, by as much.
LEMMA OneQueueChanges ==
  ASSUME TypeOK, NEW S \in SUBSET Sessions, IsFiniteSet(FloodedOf(S)),
         NEW s \in Sessions, NEW q \in Seq(Blocks), queue' = [queue EXCEPT ![s] = q]
  PROVE  /\ IsFiniteSet(FloodedOf(S)')
         /\ s \notin S => FloodedOf(S)' = FloodedOf(S)
         /\ s \in S => Cardinality(FloodedOf(S)') + Flooded(queue[s])
                         = Cardinality(FloodedOf(S)) + Flooded(q)
<1> DEFINE F == FloodedOf(S)
           A == {s} \X FloodedAt(queue[s])
           B == {s} \X FloodedAt(q)
<1>1. queue[s] \in Seq(Blocks) /\ queue'[s] = q
      /\ \A t \in Sessions : t # s => queue'[t] = queue[t]
  BY DEF TypeOK
<1>2. CASE s \notin S
  <2>1. FloodedOf(S)' = FloodedOf(S)  BY <1>1, <1>2 DEF FloodedOf
  <2>2. QED  BY <1>2, <2>1
<1>3. CASE s \in S
  <2>1. /\ IsFiniteSet(A) /\ Cardinality(A) = Flooded(queue[s])
        /\ IsFiniteSet(B) /\ Cardinality(B) = Flooded(q)
    BY <1>1, FloodedFinite, Tagged
  <2>2. A \subseteq F  BY <1>3 DEF FloodedOf, FloodedAt
  <2>3. FloodedOf(S)' = (F \ A) \cup B  BY <1>1, <1>3 DEF FloodedOf, FloodedAt
  <2>4. (F \ A) \cap B = {}  BY DEF FloodedOf, FloodedAt
  <2>5. IsFiniteSet(F)  OBVIOUS
  <2> HIDE DEF A, B, F
  <2>6. /\ IsFiniteSet((F \ A) \cup B)
        /\ Cardinality((F \ A) \cup B) + Cardinality(A) = Cardinality(F) + Cardinality(B)
    BY <2>1, <2>2, <2>4, <2>5, PartReplaced
  <2>7. QED  BY <1>3, <2>1, <2>3, <2>6 DEF F
<1>4. QED  BY <1>2, <1>3

\* When what one session's connection holds changes, so do the charged blocks.
LEMMA OneChargeChanges ==
  ASSUME TypeOK, IsFiniteSet(Charged), NEW s \in Sessions, NEW a \in Nat, NEW b \in Nat,
         Charge(s, a, b)
  PROVE  /\ IsFiniteSet(Charged')
         /\ Cardinality(Charged')
              = Cardinality(Charged) - (lastPacketQueueSize[s] + lastTcpQueueSize[s]) + (a + b)
<1> DEFINE F == Charged
           k == lastPacketQueueSize[s] + lastTcpQueueSize[s]
           A == {s} \X (1 .. k)
           B == {s} \X (1 .. a + b)
<1>1. /\ lastPacketQueueSize'[s] = a /\ lastTcpQueueSize'[s] = b
      /\ \A t \in Sessions : t # s => /\ lastPacketQueueSize'[t] = lastPacketQueueSize[t]
                                      /\ lastTcpQueueSize'[t] = lastTcpQueueSize[t]
  BY DEF Charge, TypeOK
<1>2. k \in Nat /\ a + b \in Nat  BY DEF TypeOK
<1>3. /\ IsFiniteSet(A) /\ Cardinality(A) = k
      /\ IsFiniteSet(B) /\ Cardinality(B) = a + b
  <2>1. ASSUME NEW n \in Nat PROVE IsFiniteSet(1 .. n) /\ Cardinality(1 .. n) = n
    <3>1. IsFiniteSet(1 .. n) /\ Cardinality(1 .. n) = IF 1 > n THEN 0 ELSE n - 1 + 1
      BY FS_Interval
    <3>2. QED  BY <3>1
  <2> HIDE DEF k
  <2>2. QED  BY <1>2, <2>1, Tagged
<1>4. A \subseteq F  BY DEF Charged
<1>5. Charged' = (F \ A) \cup B  BY <1>1 DEF Charged
<1>6. (F \ A) \cap B = {}  BY DEF Charged
<1> HIDE DEF A, B, k, F
<1>7. IsFiniteSet(F)  BY DEF F
<1>8. /\ IsFiniteSet((F \ A) \cup B)
      /\ Cardinality((F \ A) \cup B) + Cardinality(A) = Cardinality(F) + Cardinality(B)
  BY <1>3, <1>4, <1>6, <1>7, PartReplaced
<1>9. Cardinality((F \ A) \cup B) \in Nat /\ Cardinality(F) \in Nat
  BY <1>7, <1>8, FS_CardinalityType
<1>10. Cardinality((F \ A) \cup B) = Cardinality(F) - k + (a + b)
  BY <1>2, <1>3, <1>8, <1>9
<1>11. QED  BY <1>5, <1>8, <1>10 DEF k, F

-----------------------------------------------------------------------------
(* Which steps touch the queues, and how *)

\* FloodOne stores the block for its one session and counts it, or does neither.
LEMMA FloodOneIs ==
  ASSUME IInv, NEW d \in Sessions, FloodOne(d)
  PROVE  \/ UNCHANGED outVars
         \/ /\ ~OverQuota(d) /\ DestinationAllows(d)
            /\ queue' = [queue EXCEPT ![d] = Append(queue[d], Block(job.src # Hub))]
            /\ tcpQueueSize' = IF job.src # Hub THEN tcpQueueSize + 1 ELSE tcpQueueSize
            /\ UNCHANGED chargeVars
<1> DEFINE D == {e \in {d} : HasPa(e) /\ ~IsMonitorMode(e) /\ ~OverQuota(e)
                              /\ DestinationAllows(e)}
           b == Block(job.src # Hub)
<1>1. /\ D \in SUBSET {d}
      /\ d \in D => ~OverQuota(d) /\ DestinationAllows(d)
      /\ queue' = [e \in Sessions |-> IF e \in Accepting(D) THEN Append(queue[e], b)
                                      ELSE queue[e]]
      /\ tcpQueueSize' = IF job.src # Hub THEN tcpQueueSize + Cardinality(Accepting(D))
                         ELSE tcpQueueSize
      /\ UNCHANGED chargeVars
  BY DEF FloodOne, Enqueue
<1>2. queue \in [Sessions -> Seq(Blocks)] /\ tcpQueueSize \in Int  BY DEF IInv, TypeOK
<1> HIDE DEF D, b
<1>3. Accepting(D) \subseteq D  BY DEF Accepting
<1>4. CASE Accepting(D) = {}
  <2>1. queue' = queue  BY <1>1, <1>2, <1>4
  <2>2. tcpQueueSize' = IF job.src # Hub THEN tcpQueueSize + 0 ELSE tcpQueueSize
    BY <1>1, <1>4, FS_EmptySet
  <2>3. QED  BY <1>1, <1>2, <2>1, <2>2 DEF outVars
<1>5. CASE Accepting(D) # {}
  <2>1. d \in D /\ Accepting(D) = {d}  BY <1>1, <1>3, <1>5
  <2>2. Cardinality({d}) = 1  BY FS_Singleton
  <2>3. queue' = [queue EXCEPT ![d] = Append(queue[d], b)]  BY <1>1, <1>2, <2>1
  <2>4. tcpQueueSize' = IF job.src # Hub THEN tcpQueueSize + 1 ELSE tcpQueueSize
    BY <1>1, <2>1, <2>2
  <2>5. QED  BY <1>1, <2>1, <2>3, <2>4 DEF b
<1>6. QED  BY <1>4, <1>5

\* Five steps touch a queue: the two that take blocks out and the three of
\* StorePacket that put one in; HubPaInit finds the queue empty.  Beside them only
\* the connections touch the counter.
LEMMA QueueSteps ==
  ASSUME IInv, [Next]_vars
  PROVE  \/ UNCHANGED outVars
         \/ \E s \in Sessions : HubPaFreeQueue(s) \/ HubPaGetNextPacket(s)
         \/ CopyToMonitors \/ ForwardUnicast
         \/ \E d \in Sessions : FloodOne(d)
         \/ \E s \in Sessions : \E a, b \in Nat : Charge(s, a, b)
<1> USE DEF listVars, fdbVars, outVars, chargeVars
<1>1. ASSUME NEW s \in Sessions, SessionStep(s),
             ~HubPaFreeQueue(s), ~HubPaGetNextPacket(s), ~ConnectionStep(s)
      PROVE  UNCHANGED outVars
  <2>1. CASE HubPaInit(s)
    <3>1. queue[s] = <<>>
      BY <2>1 DEF IInv, Ownership, QueuesOwned, NoBlockWithoutPa, HubPaInit, HasPa
    <3>2. QED  BY <2>1, <3>1 DEF HubPaInit, IInv, TypeOK
  <2>2. CASE AddSession(s) \/ HubPaInitMonitor(s) \/ StartLoop(s) \/ DelSession(s)
    BY <2>2 DEF AddSession, HubPaInitMonitor, StartLoop, DelSession
  <2>3. CASE HubPaFreeMonitor(s) \/ HubPaFreeTables(s) \/ StoreDelayedPacket(s)
    BY <2>3 DEF HubPaFreeMonitor, HubPaFreeTables, StoreDelayedPacket
  <2>4. QED  BY <1>1, <2>1, <2>2, <2>3 DEF SessionStep
<1>2. ASSUME NEW s \in Sessions, NEW p \in Traffic, PutPacket(s, p) PROVE UNCHANGED outVars
  BY <1>2 DEF PutPacket, FilterPacket, DelayPacket, StorePacket
<1>3. ASSUME FloodBegin \/ FloodEnd PROVE UNCHANGED outVars
  BY <1>3 DEF FloodBegin, FloodEnd
<1>4. ASSUME \/ (\E m \in Macs : HubPoll(m)) \/ StopAllSession \/ AdminStep \/ Tick
             \/ UNCHANGED vars
      PROVE  UNCHANGED outVars
  BY <1>4 DEF HubPoll, StopAllSession, AdminStep, StDeleteMacTable, StDeleteIpTable, Tick, vars
<1>5. ASSUME NEW s \in Sessions, ConnectionStep(s)
      PROVE  \E a, b \in Nat : Charge(s, a, b)
  BY <1>5, ConnectionStepIs DEF IInv
<1>6. QED  BY <1>1, <1>2, <1>3, <1>4, <1>5 DEF Next, StoreStep

\* Blocks stored without the flooding mark leave the flooded blocks as they are.
LEMMA EnqueueUncounted ==
  ASSUME TypeOK, NEW D, NEW b \in Blocks, ~b.flooding, Enqueue(D, b),
         NEW S \in SUBSET Sessions
  PROVE  FloodedOf(S)' = FloodedOf(S)
<1>1. ASSUME NEW s \in Sessions PROVE FloodedAt(queue'[s]) = FloodedAt(queue[s])
  <2>1. queue[s] \in Seq(Blocks)  BY DEF TypeOK
  <2>2. queue'[s] = queue[s] \/ queue'[s] = Append(queue[s], b)  BY DEF Enqueue
  <2>3. FloodedAt(Append(queue[s], b)) = FloodedAt(queue[s])
    <3> DEFINE q == queue[s]
    <3> HIDE DEF q
    <3>1. q \in Seq(Blocks)  BY <2>1 DEF q
    <3>2. /\ Append(q, b) \in Seq(Blocks) /\ Len(q) \in Nat
          /\ DOMAIN Append(q, b) = 1 .. Len(q) + 1 /\ DOMAIN q = 1 .. Len(q)
          /\ \A i \in 1 .. Len(q) : Append(q, b)[i] = q[i]
          /\ Append(q, b)[Len(q) + 1] = b
      BY <3>1
    <3>3. QED  BY <3>2 DEF FloodedAt, q
  <2>4. QED  BY <2>2, <2>3
<1>2. FloodedOf(S) = UNION {{<<s, i>> : i \in FloodedAt(queue[s])} : s \in S}
  BY DEF FloodedOf, FloodedAt
<1>3. FloodedOf(S)' = UNION {{<<s, i>> : i \in FloodedAt(queue'[s])} : s \in S}
  BY DEF FloodedOf, FloodedAt
<1>4. QED  BY <1>1, <1>2, <1>3

-----------------------------------------------------------------------------
(* The counter *)

LEMMA InitAccounted == ASSUME Init PROVE Accounted
<1>1. FloodedOf(Sessions) = {}  BY DEF Init, FloodedOf
<1>2. Charged = {}  BY DEF Init, Charged
<1>3. QED  BY <1>1, <1>2, FS_EmptySet DEF Accounted, Init

\* A step that changes one queue, and the counter by as much, keeps them together.
LEMMA QueueAccounted ==
  ASSUME TypeOK, Accounted, NEW s \in Sessions, NEW q \in Seq(Blocks), NEW d \in Int,
         queue' = [queue EXCEPT ![s] = q], UNCHANGED chargeVars,
         Flooded(q) = Flooded(queue[s]) + d, tcpQueueSize' = tcpQueueSize + d
  PROVE  Accounted'
<1> DEFINE n == Cardinality(FloodedOf(Sessions))
           c == Cardinality(Charged)
           m == Cardinality(FloodedOf(Sessions)')
<1>1. IsFiniteSet(FloodedOf(Sessions)') /\ m + Flooded(queue[s]) = n + Flooded(q)
  BY OneQueueChanges DEF Accounted
<1>2. Charged' = Charged  BY DEF Charged, chargeVars
<1>3. n \in Nat /\ c \in Nat /\ m \in Nat /\ Flooded(queue[s]) \in Nat
  BY <1>1, FS_CardinalityType, Counts DEF Accounted, TypeOK
<1>4. tcpQueueSize = n + c  BY DEF Accounted
<1> HIDE DEF n, c, m
<1>5. m = n + d  BY <1>1, <1>3
<1>6. tcpQueueSize' = m + c  BY <1>3, <1>4, <1>5
<1>7. QED  BY <1>1, <1>2, <1>6 DEF Accounted, m, c

\* Every step that moves a flooded or a charged block moves the counter with it.
LEMMA NextAccounted == ASSUME IInv, Accounted, [Next]_vars PROVE Accounted'
<1>0. TypeOK /\ tcpQueueSize \in Int /\ \A s \in Sessions : queue[s] \in Seq(Blocks)
  BY DEF IInv, TypeOK
<1>1. CASE UNCHANGED outVars
  BY <1>1 DEF outVars, chargeVars, Accounted, FloodedOf, Charged
<1>2. ASSUME NEW s \in Sessions, HubPaFreeQueue(s) PROVE Accounted'
  <2>1. /\ queue' = [queue EXCEPT ![s] = <<>>] /\ <<>> \in Seq(Blocks)
        /\ tcpQueueSize' = tcpQueueSize - Flooded(queue[s]) /\ UNCHANGED chargeVars
    BY <1>2 DEF HubPaFreeQueue
  <2>2. Flooded(queue[s]) \in Nat  BY <1>0, Counts
  <2> DEFINE d == -Flooded(queue[s])
  <2>3. /\ d \in Int /\ Flooded(<<>>) = Flooded(queue[s]) + d
        /\ tcpQueueSize' = tcpQueueSize + d
    BY <1>0, <2>1, <2>2, FloodedEmpty
  <2> HIDE DEF d
  <2>4. QED  BY <1>0, <2>1, <2>3, QueueAccounted
<1>3. ASSUME NEW s \in Sessions, HubPaGetNextPacket(s) PROVE Accounted'
  <2> DEFINE q == queue[s]
             d == IF Head(q).flooding THEN -1 ELSE 0
  <2>1. /\ queue' = [queue EXCEPT ![s] = Tail(q)] /\ q # <<>> /\ UNCHANGED chargeVars
        /\ tcpQueueSize' = IF Head(q).flooding THEN tcpQueueSize - 1 ELSE tcpQueueSize
    BY <1>3 DEF HubPaGetNextPacket
  <2>2. q \in Seq(Blocks) /\ Tail(q) \in Seq(Blocks) /\ Flooded(q) \in Nat
    BY <1>0, <2>1, Counts
  <2> HIDE DEF q
  <2>3. Flooded(Tail(q)) = IF Head(q).flooding THEN Flooded(q) - 1 ELSE Flooded(q)
    BY <2>1, <2>2, FloodedTail
  <2>4. /\ d \in Int /\ Flooded(Tail(q)) = Flooded(q) + d
        /\ tcpQueueSize' = tcpQueueSize + d
    <3>1. CASE Head(q).flooding  BY <1>0, <2>1, <2>2, <2>3, <3>1
    <3>2. CASE ~Head(q).flooding  BY <1>0, <2>1, <2>2, <2>3, <3>2
    <3>3. QED  BY <3>1, <3>2
  <2> HIDE DEF d
  <2>5. QED  BY <1>0, <2>1, <2>2, <2>4, QueueAccounted DEF q
<1>4. CASE CopyToMonitors \/ ForwardUnicast
  <2>1. Block(FALSE) \in Blocks /\ ~Block(FALSE).flooding  BY JobBlock DEF Block
  <2>2. /\ tcpQueueSize' = tcpQueueSize /\ UNCHANGED chargeVars
        /\ \E D : Enqueue(D, Block(FALSE))
    BY <1>4 DEF CopyToMonitors, ForwardUnicast
  <2>3. FloodedOf(Sessions)' = FloodedOf(Sessions)  BY <1>0, <2>1, <2>2, EnqueueUncounted
  <2>4. Charged' = Charged  BY <2>2 DEF Charged, chargeVars
  <2>5. QED  BY <2>2, <2>3, <2>4 DEF Accounted
<1>5. ASSUME NEW d \in Sessions, FloodOne(d) PROVE Accounted'
  <2> DEFINE counted == job.src # Hub
             b == Block(counted)
             q == queue[d]
             n == IF counted THEN 1 ELSE 0
  <2>1. CASE UNCHANGED outVars  BY <1>1, <2>1
  <2>2. CASE /\ queue' = [queue EXCEPT ![d] = Append(q, b)] /\ UNCHANGED chargeVars
             /\ tcpQueueSize' = IF counted THEN tcpQueueSize + 1 ELSE tcpQueueSize
    <3>1. b \in Blocks /\ (b.flooding <=> counted)  BY JobBlock DEF Block
    <3>2. q \in Seq(Blocks) /\ Flooded(q) \in Nat  BY <1>0, Counts
    <3>3. /\ queue' = [queue EXCEPT ![d] = Append(q, b)] /\ UNCHANGED chargeVars
          /\ counted => tcpQueueSize' = tcpQueueSize + 1
          /\ ~counted => tcpQueueSize' = tcpQueueSize
      BY <2>2
    <3> HIDE DEF q, b, counted
    <3>4. Append(q, b) \in Seq(Blocks)  BY <3>1, <3>2
    <3>5. Flooded(Append(q, b)) = IF b.flooding THEN Flooded(q) + 1 ELSE Flooded(q)
      BY <3>1, <3>2, FloodedAppend
    <3>6. n \in Int /\ Flooded(Append(q, b)) = Flooded(q) + n /\ tcpQueueSize' = tcpQueueSize + n
      <4>1. CASE counted  BY <1>0, <3>1, <3>2, <3>3, <3>5, <4>1
      <4>2. CASE ~counted  BY <1>0, <3>1, <3>2, <3>3, <3>5, <4>2
      <4>3. QED  BY <4>1, <4>2
    <3> HIDE DEF n
    <3>7. QED  BY <1>0, <3>3, <3>4, <3>6, QueueAccounted DEF q
  <2>3. QED  BY <1>5, <2>1, <2>2, FloodOneIs
<1>6. ASSUME NEW s \in Sessions, NEW a \in Nat, NEW b \in Nat, Charge(s, a, b) PROVE Accounted'
  <2> DEFINE n == Cardinality(FloodedOf(Sessions))
             c == Cardinality(Charged)
             e == Cardinality(Charged')
             k == lastPacketQueueSize[s]
             l == lastTcpQueueSize[s]
  <2>1. IsFiniteSet(Charged') /\ e = c - (k + l) + (a + b)
    BY <1>0, <1>6, OneChargeChanges DEF Accounted
  <2>2. FloodedOf(Sessions)' = FloodedOf(Sessions)  BY <1>6 DEF Charge, FloodedOf
  <2>3. n \in Nat /\ c \in Nat /\ k \in Nat /\ l \in Nat
    BY <1>0, FS_CardinalityType DEF Accounted, TypeOK
  <2>4. tcpQueueSize = n + c /\ tcpQueueSize' = tcpQueueSize + (a - k) + (b - l)
    BY <1>6 DEF Accounted, Charge
  <2> HIDE DEF n, c, e, k, l
  <2>5. tcpQueueSize' = n + e  BY <2>1, <2>3, <2>4
  <2>6. QED  BY <2>1, <2>2, <2>5 DEF Accounted, n, e
<1>7. QED  BY <1>1, <1>2, <1>3, <1>4, <1>5, <1>6, QueueSteps

LEMMA AlwaysAccounted == Spec => []Accounted
<1>1. Init => Accounted  BY InitAccounted
<1>2. IInv /\ Accounted /\ [Next]_vars => Accounted'  BY NextAccounted
<1>3. QED  BY <1>1, <1>2, Inductive, PTL DEF Spec

\* The counter all hubs share is exactly the flooded blocks the queues hold and what
\* the connections have charged: every way in and out of both is counted once
\* (StorePacketToHubPa, HubPaGetNextPacket, HubPaFree; SessionMain, ConnectionSend,
\* CleanupConnection).
THEOREM FloodAccountingCorrect == Spec => []FloodAccounting
<1>1. Accounted => FloodAccounting  BY DEF Accounted, FloodAccounting
<1>2. QED  BY <1>1, AlwaysAccounted, PTL

-----------------------------------------------------------------------------
(* The quota *)

\* The sessions the quota is about wait for no more flooded blocks than the counter
\* shows, whatever the connections charge beside.
LEMMA CounterCovers ==
  ASSUME Accounted
  PROVE  /\ IsFiniteSet(FloodedOf(TcpSessions)) /\ Cardinality(FloodedOf(TcpSessions)) \in Nat
         /\ Cardinality(FloodedOf(TcpSessions)) <= tcpQueueSize
<1>1. FloodedOf(TcpSessions) \subseteq FloodedOf(Sessions)
  BY SwitchAssumption DEF FloodedOf
<1>2. /\ IsFiniteSet(FloodedOf(TcpSessions))
      /\ Cardinality(FloodedOf(TcpSessions)) <= Cardinality(FloodedOf(Sessions))
  BY <1>1, FS_Subset DEF Accounted
<1>3. /\ Cardinality(FloodedOf(TcpSessions)) \in Nat
      /\ Cardinality(FloodedOf(Sessions)) \in Nat /\ Cardinality(Charged) \in Nat
  BY <1>2, FS_CardinalityType DEF Accounted
<1>4. QED  BY <1>2, <1>3 DEF Accounted

\* A flood passes the check of the quota and stores its block in one step, and
\* nothing else stores a flooded block.
LEMMA NextFloodQuota ==
  ASSUME IInv, Accounted, FloodQuota, [Next]_vars PROVE FloodQuota'
<1> DEFINE held == Cardinality(FloodedOf(TcpSessions))
<1> SUFFICES ASSUME Quota # 0 PROVE held' <= Quota
  BY DEF FloodQuota
<1>0. /\ TypeOK /\ TcpSessions \in SUBSET Sessions /\ Quota \in Nat /\ tcpQueueSize \in Int
      /\ IsFiniteSet(FloodedOf(TcpSessions))
      /\ held \in Nat /\ held <= Quota /\ held <= tcpQueueSize
      /\ \A s \in Sessions : queue[s] \in Seq(Blocks)
  BY SwitchAssumption, CounterCovers DEF FloodQuota, IInv, TypeOK
<1>1. CASE queue' = queue  BY <1>0, <1>1 DEF FloodedOf
<1>2. ASSUME NEW s \in Sessions, NEW q \in Seq(Blocks), queue' = [queue EXCEPT ![s] = q],
             Flooded(q) <= Flooded(queue[s])
      PROVE  held' <= Quota
  <2>1. Flooded(q) \in Nat /\ Flooded(queue[s]) \in Nat  BY <1>0, Counts
  <2>2. CASE s \notin TcpSessions
    <3>1. FloodedOf(TcpSessions)' = FloodedOf(TcpSessions)
      BY <1>0, <1>2, <2>2, OneQueueChanges
    <3>2. QED  BY <1>0, <3>1
  <2>3. CASE s \in TcpSessions
    <3>1. IsFiniteSet(FloodedOf(TcpSessions)') /\ held' + Flooded(queue[s]) = held + Flooded(q)
      BY <1>0, <1>2, <2>3, OneQueueChanges
    <3>2. held' \in Nat  BY <3>1, FS_CardinalityType
    <3> HIDE DEF held
    <3>3. QED  BY <1>0, <1>2, <2>1, <3>1, <3>2
  <2>4. QED  BY <2>2, <2>3
<1>3. ASSUME NEW s \in Sessions, HubPaFreeQueue(s) PROVE held' <= Quota
  <2>1. queue' = [queue EXCEPT ![s] = <<>>] /\ <<>> \in Seq(Blocks)
    BY <1>3 DEF HubPaFreeQueue
  <2>2. Flooded(queue[s]) \in Nat  BY <1>0, Counts
  <2>3. Flooded(<<>>) <= Flooded(queue[s])  BY <2>2, FloodedEmpty
  <2>4. QED  BY <1>2, <2>1, <2>3
<1>4. ASSUME NEW s \in Sessions, HubPaGetNextPacket(s) PROVE held' <= Quota
  <2>1. queue' = [queue EXCEPT ![s] = Tail(queue[s])] /\ queue[s] # <<>>
    BY <1>4 DEF HubPaGetNextPacket
  <2>2. Flooded(queue[s]) \in Nat /\ Tail(queue[s]) \in Seq(Blocks)  BY <1>0, <2>1, Counts
  <2>3. Flooded(Tail(queue[s])) <= Flooded(queue[s])
    <3>1. \/ Flooded(Tail(queue[s])) = Flooded(queue[s]) - 1
          \/ Flooded(Tail(queue[s])) = Flooded(queue[s])
      BY <1>0, <2>1, FloodedTail
    <3>2. QED  BY <2>2, <3>1
  <2>4. QED  BY <1>2, <2>1, <2>2, <2>3
<1>5. CASE CopyToMonitors \/ ForwardUnicast
  <2>1. Block(FALSE) \in Blocks /\ ~Block(FALSE).flooding  BY JobBlock DEF Block
  <2>2. \E D : Enqueue(D, Block(FALSE))
    BY <1>5 DEF CopyToMonitors, ForwardUnicast
  <2>3. FloodedOf(TcpSessions)' = FloodedOf(TcpSessions)
    BY <1>0, <2>1, <2>2, EnqueueUncounted
  <2>4. QED  BY <1>0, <2>3
<1>6. ASSUME NEW d \in Sessions, FloodOne(d) PROVE held' <= Quota
  <2> DEFINE b == Block(job.src # Hub)
             q == Append(queue[d], b)
  <2>1. CASE UNCHANGED outVars  BY <1>1, <2>1 DEF outVars
  <2>2. CASE queue' = [queue EXCEPT ![d] = q] /\ ~OverQuota(d)
    <3>1. b \in Blocks /\ queue[d] \in Seq(Blocks) /\ Flooded(queue[d]) \in Nat
      BY <1>0, JobBlock, Counts
    <3>2. Flooded(q) = Flooded(queue[d]) + 1 \/ Flooded(q) = Flooded(queue[d])
      BY <3>1, FloodedAppend
    <3>3. q \in Seq(Blocks)  BY <3>1
    <3> HIDE DEF q
    <3>4. CASE d \notin TcpSessions
      <4>1. FloodedOf(TcpSessions)' = FloodedOf(TcpSessions)
        BY <1>0, <2>2, <3>3, <3>4, OneQueueChanges
      <4>2. QED  BY <1>0, <4>1
    <3>5. CASE d \in TcpSessions
      <4>1. tcpQueueSize < Quota  BY <1>0, <2>2, <3>5 DEF OverQuota
      <4>2. IsFiniteSet(FloodedOf(TcpSessions)')
            /\ held' + Flooded(queue[d]) = held + Flooded(q)
        BY <1>0, <2>2, <3>3, <3>5, OneQueueChanges
      <4>3. held' \in Nat  BY <4>2, FS_CardinalityType
      <4> HIDE DEF held
      <4>4. held' = held + 1 \/ held' = held  BY <1>0, <3>1, <3>2, <4>2, <4>3
      <4>5. QED  BY <1>0, <4>1, <4>4
    <3>6. QED  BY <3>4, <3>5
  <2>3. QED  BY <1>6, <2>1, <2>2, FloodOneIs
<1>7. ASSUME NEW s \in Sessions, NEW a, NEW c, Charge(s, a, c) PROVE held' <= Quota
  BY <1>1, <1>7 DEF Charge
<1>8. CASE UNCHANGED outVars  BY <1>1, <1>8 DEF outVars
<1>9. QED  BY <1>3, <1>4, <1>5, <1>6, <1>7, <1>8, QueueSteps

\* Whatever the connections charge, and whenever: the flooded blocks waiting for the
\* sessions the quota is about stay within it.
THEOREM FloodQuotaCorrect == Spec => []FloodQuota
<1>1. Init => FloodQuota
  <2> SUFFICES ASSUME Init PROVE Cardinality(FloodedOf(TcpSessions)) <= Quota
    BY DEF FloodQuota
  <2>1. FloodedOf(TcpSessions) = {}  BY SwitchAssumption DEF Init, FloodedOf
  <2>2. Cardinality({}) = 0  BY FS_EmptySet
  <2>3. QED  BY <2>1, <2>2, SwitchAssumption
<1>2. IInv /\ Accounted /\ FloodQuota /\ [Next]_vars => FloodQuota'  BY NextFloodQuota
<1>3. QED  BY <1>1, <1>2, Inductive, AlwaysAccounted, PTL DEF Spec

-----------------------------------------------------------------------------
(* The privacy filter *)

\* What PrivacyIsolation asks of one block in the queue of s.
Isolated(s, b) ==
  (/\ b.src # Hub /\ ~Policy[s].MonitorPort
   /\ Policy[s].PrivacyFilter /\ Policy[b.src].PrivacyFilter
   /\ DropArpInPrivacyFilterMode
   /\ AllowSameUserInPrivacyFilterMode => User[b.src] # User[s])
    => b.bcast /\ ~DropBroadcastsInPrivacyFilterMode

LEMMA PrivacyIsolationIs ==
  PrivacyIsolation <=> \A s \in Sessions : \A i \in DOMAIN queue[s] : Isolated(s, queue[s][i])
BY DEF PrivacyIsolation, Isolated

\* It is enough to look at the block that is stored.
LEMMA EnqueueIsolated ==
  ASSUME TypeOK, PrivacyIsolation, NEW D, NEW b \in Blocks, Enqueue(D, b),
         \A d \in D \cap Sessions : Isolated(d, b)
  PROVE  PrivacyIsolation'
<1> SUFFICES ASSUME NEW s \in Sessions, NEW i \in DOMAIN queue'[s]
             PROVE  Isolated(s, queue'[s][i])
  BY DEF PrivacyIsolation, Isolated
<1>1. \A j \in DOMAIN queue[s] : Isolated(s, queue[s][j])  BY PrivacyIsolationIs
<1>2. \/ queue'[s] = queue[s]
      \/ s \in D /\ queue'[s] = Append(queue[s], b)
  BY DEF Enqueue, Accepting
<1>3. CASE queue'[s] = queue[s]  BY <1>1, <1>3
<1>4. CASE s \in D /\ queue'[s] = Append(queue[s], b)
  <2>1. queue[s] \in Seq(Blocks)  BY DEF TypeOK
  <2>2. \/ i \in DOMAIN queue[s] /\ queue'[s][i] = queue[s][i]
        \/ queue'[s][i] = b
    BY <1>4, <2>1
  <2>3. QED  BY <1>1, <1>4, <2>2
<1>5. QED  BY <1>2, <1>3, <1>4

\* The check of both branches of StorePacket, for a destination that passed it.
LEMMA AllowedIsolated ==
  ASSUME NEW d \in Sessions, NEW f, DestinationAllows(d) PROVE Isolated(d, Block(f))
<1>1. ~PrivacyForbids(d)  BY DEF DestinationAllows
<1>2. Block(f).src = job.src /\ Block(f).bcast = job.bcast  BY DEF Block
<1>3. QED  BY <1>1, <1>2, SwitchAssumption DEF PrivacyForbids, Isolated

\* A block that is not stored by a forwarding step was there before.
LEMMA NextPrivacyIsolation ==
  ASSUME IInv, PrivacyIsolation, [Next]_vars PROVE PrivacyIsolation'
<1>0. TypeOK /\ queue \in [Sessions -> Seq(Blocks)]  BY DEF IInv, TypeOK
<1>1. CASE UNCHANGED outVars
  BY <1>1, PrivacyIsolationIs DEF outVars, PrivacyIsolation
<1>2. ASSUME NEW s \in Sessions, HubPaFreeQueue(s) \/ HubPaGetNextPacket(s)
      PROVE  PrivacyIsolation'
  <2> SUFFICES ASSUME NEW t \in Sessions, NEW i \in DOMAIN queue'[t]
               PROVE  Isolated(t, queue'[t][i])
    BY DEF PrivacyIsolation, Isolated
  <2>1. \A j \in DOMAIN queue[t] : Isolated(t, queue[t][j])  BY PrivacyIsolationIs
  <2>2. \/ queue'[t] = queue[t]
        \/ queue'[t] = <<>>
        \/ queue[t] # <<>> /\ queue'[t] = Tail(queue[t])
    BY <1>0, <1>2 DEF HubPaFreeQueue, HubPaGetNextPacket
  <2>3. queue[t] \in Seq(Blocks)  BY <1>0
  <2>4. \E j \in DOMAIN queue[t] : queue'[t][i] = queue[t][j]
    <3>1. CASE queue'[t] = queue[t]  BY <3>1
    <3>2. CASE queue'[t] = <<>>  BY <3>2
    <3>3. CASE queue[t] # <<>> /\ queue'[t] = Tail(queue[t])
      <4>1. i + 1 \in DOMAIN queue[t] /\ queue'[t][i] = queue[t][i + 1]  BY <2>3, <3>3
      <4>2. QED  BY <4>1
    <3>4. QED  BY <2>2, <3>1, <3>2, <3>3
  <2>5. QED  BY <2>1, <2>4
<1>3. CASE CopyToMonitors
  <2>1. \A d \in monitorList : Policy[d].MonitorPort
    BY DEF IInv, Ownership, MonitorsOwned
  <2>2. \A d \in {e \in monitorList : AclAllows(e)} : Isolated(d, Block(FALSE))
    BY <2>1 DEF Isolated
  <2>3. Block(FALSE) \in Blocks  BY JobBlock
  <2>4. Enqueue({e \in monitorList : AclAllows(e)}, Block(FALSE))
    BY <1>3 DEF CopyToMonitors
  <2>5. QED  BY <1>0, <2>2, <2>3, <2>4, EnqueueIsolated
<1>4. CASE ForwardUnicast
  <2> DEFINE D == {e \in {job.dest} : DestinationAllows(e)}
  <2>1. Enqueue(D, Block(FALSE))  BY <1>4 DEF ForwardUnicast
  <2>2. \A d \in D \cap Sessions : Isolated(d, Block(FALSE))  BY AllowedIsolated
  <2>3. Block(FALSE) \in Blocks  BY JobBlock
  <2> HIDE DEF D
  <2>4. QED  BY <1>0, <2>1, <2>2, <2>3, EnqueueIsolated
<1>5. ASSUME NEW d \in Sessions, FloodOne(d) PROVE PrivacyIsolation'
  <2> DEFINE D == {e \in {d} : HasPa(e) /\ ~IsMonitorMode(e) /\ ~OverQuota(e)
                                /\ DestinationAllows(e)}
             b == Block(job.src # Hub)
  <2>1. Enqueue(D, b)  BY <1>5 DEF FloodOne
  <2>2. \A e \in D \cap Sessions : Isolated(e, b)  BY AllowedIsolated
  <2>3. b \in Blocks  BY JobBlock
  <2> HIDE DEF D, b
  <2>4. QED  BY <1>0, <2>1, <2>2, <2>3, EnqueueIsolated
<1>6. ASSUME NEW s \in Sessions, NEW a, NEW c, Charge(s, a, c) PROVE PrivacyIsolation'
  BY <1>6, PrivacyIsolationIs DEF Charge, PrivacyIsolation
<1>7. QED  BY <1>1, <1>2, <1>3, <1>4, <1>5, <1>6, QueueSteps

\* Between two ports in privacy filter mode only broadcasts pass, whatever the
\* path of the packet: unicast, flood, or delayed before.
THEOREM PrivacyIsolationCorrect == Spec => []PrivacyIsolation
<1>1. Init => PrivacyIsolation  BY DEF Init, PrivacyIsolation
<1>2. IInv /\ PrivacyIsolation /\ [Next]_vars => PrivacyIsolation'  BY NextPrivacyIsolation
<1>3. QED  BY <1>1, <1>2, Inductive, PTL DEF Spec

-----------------------------------------------------------------------------
(* The length of the queues *)

\* StorePacketToHubPa drops the block when the queue is full.
LEMMA EnqueueBounded ==
  ASSUME TypeOK, QueuesBounded, NEW D, NEW b \in Blocks, Enqueue(D, b)
  PROVE  QueuesBounded'
<1> SUFFICES ASSUME NEW s \in Sessions PROVE Len(queue'[s]) <= MaxStoredQueue
  BY DEF QueuesBounded
<1>1. queue[s] \in Seq(Blocks) /\ Len(queue[s]) <= MaxStoredQueue /\ MaxStoredQueue \in Nat
  BY SwitchAssumption DEF TypeOK, QueuesBounded
<1>2. \/ queue'[s] = queue[s]
      \/ Len(queue[s]) < MaxStoredQueue /\ queue'[s] = Append(queue[s], b)
  BY DEF Enqueue, Accepting
<1>3. Len(Append(queue[s], b)) = Len(queue[s]) + 1  BY <1>1
<1>4. CASE queue'[s] = queue[s]  BY <1>1, <1>4
<1>5. CASE Len(queue[s]) < MaxStoredQueue /\ queue'[s] = Append(queue[s], b)
  <2>1. Len(queue[s]) + 1 <= MaxStoredQueue  BY <1>1, <1>5
  <2>2. QED  BY <1>3, <1>5, <2>1
<1>6. QED  BY <1>2, <1>4, <1>5

LEMMA NextQueuesBounded == ASSUME IInv, QueuesBounded, [Next]_vars PROVE QueuesBounded'
<1>0. TypeOK /\ queue \in [Sessions -> Seq(Blocks)]  BY DEF IInv, TypeOK
<1>1. CASE UNCHANGED outVars  BY <1>1 DEF outVars, QueuesBounded
<1>2. ASSUME NEW s \in Sessions, HubPaFreeQueue(s) \/ HubPaGetNextPacket(s)
      PROVE  QueuesBounded'
  <2> SUFFICES ASSUME NEW t \in Sessions PROVE Len(queue'[t]) <= MaxStoredQueue
    BY DEF QueuesBounded
  <2>1. queue[t] \in Seq(Blocks) /\ Len(queue[t]) <= MaxStoredQueue /\ MaxStoredQueue \in Nat
    BY <1>0, SwitchAssumption DEF QueuesBounded
  <2>2. \/ queue'[t] = queue[t]
        \/ queue'[t] = <<>>
        \/ queue[t] # <<>> /\ queue'[t] = Tail(queue[t])
    BY <1>0, <1>2 DEF HubPaFreeQueue, HubPaGetNextPacket
  <2>3. Len(<<>>) = 0 /\ (queue[t] # <<>> => Len(Tail(queue[t])) = Len(queue[t]) - 1)
    BY <2>1
  <2>4. Len(queue[t]) \in Nat  BY <2>1
  <2>5. Len(queue'[t]) = 0 \/ Len(queue'[t]) = Len(queue[t])
        \/ Len(queue'[t]) = Len(queue[t]) - 1
    BY <2>2, <2>3
  <2>6. QED  BY <2>1, <2>4, <2>5
<1>3. CASE CopyToMonitors \/ ForwardUnicast
  <2>1. \E D : Enqueue(D, Block(FALSE))  BY <1>3 DEF CopyToMonitors, ForwardUnicast
  <2>2. QED  BY <1>0, <2>1, JobBlock, EnqueueBounded
<1>4. ASSUME NEW d \in Sessions, FloodOne(d) PROVE QueuesBounded'
  <2>1. \E D : Enqueue(D, Block(job.src # Hub))  BY <1>4 DEF FloodOne
  <2>2. Block(job.src # Hub) \in Blocks  BY JobBlock
  <2>3. QED  BY <1>0, <2>1, <2>2, EnqueueBounded
<1>5. ASSUME NEW s \in Sessions, NEW a, NEW c, Charge(s, a, c) PROVE QueuesBounded'
  BY <1>5 DEF Charge, QueuesBounded
<1>6. QED  BY <1>1, <1>2, <1>3, <1>4, <1>5, QueueSteps

\* However slow a session takes its packets, the hub keeps at most
\* MAX_STORED_QUEUE_NUM for it, from unicasts, floods and copies together.
THEOREM QueuesBoundedCorrect == Spec => []QueuesBounded
<1>1. Init => QueuesBounded
  <2>1. Len(<<>>) = 0 /\ MaxStoredQueue \in Nat  BY SwitchAssumption
  <2>2. QED  BY <2>1 DEF Init, QueuesBounded
<1>2. IInv /\ QueuesBounded /\ [Next]_vars => QueuesBounded'  BY NextQueuesBounded
<1>3. QED  BY <1>1, <1>2, Inductive, PTL DEF Spec
=============================================================================
