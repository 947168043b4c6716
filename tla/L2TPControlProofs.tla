------------------------- MODULE L2TPControlProofs -------------------------
(***************************************************************************)
(* Proofs about the L2TP tunnel: types first, then how the session and its     *)
(* thread depend on the tunnel, and then the numbers of the control channel,    *)
(* from which the refinement of FifoChannel and the use of the queues follow.   *)
(***************************************************************************)
EXTENDS L2TPControl, FiniteSetTheorems, TLAPS

USE DEF ClientMessages, ServerMessages, TunnelFlags, Packet, Queued

-----------------------------------------------------------------------------
(* Sequence numbers below 2^15 compare and count like naturals *)

LEMMA SuccIs == ASSUME NEW n \in Nat, n < 32768 PROVE Succ(n) = n + 1
BY DEF Succ

LEMMA SeqLTIs ==
  ASSUME NEW m \in Nat, NEW n \in Nat, m < 32768, n < 32768
  PROVE  SeqLT(m, n) <=> m < n
<1>1. CASE m < n
  <2>1. (m - n) % 65536 = m - n + 65536
    BY <1>1
  <2> QED BY <1>1, <2>1 DEF SeqLT
<1>2. CASE ~(m < n)
  <2>1. (m - n) % 65536 = m - n
    BY <1>2
  <2> QED BY <1>2, <2>1 DEF SeqLT
<1> QED BY <1>1, <1>2

LEMMA SuccType == ASSUME NEW n \in Nat PROVE Succ(n) \in Nat
BY DEF Succ

LEMMA NewMessagesType ==
  ASSUME NEW timers, NextNs \in Nat
  PROVE  NewMessages(timers) \subseteq Queued(ServerMessages) /\ NsAfter(timers) \in Nat
<1>1. NsOfCDN(timers) \in Nat
  BY SuccType DEF NsOfCDN
<1>2. NsOfSTOPCCN(timers) \in Nat
  BY <1>1, SuccType DEF NsOfSTOPCCN
<1>3. NsAfter(timers) \in Nat
  BY <1>2, SuccType DEF NsAfter
<1> QED BY <1>1, <1>2, <1>3 DEF NewMessages

LEMMA DatagramsType ==
  ASSUME NEW queue \in SUBSET Queued(ServerMessages), NEW last \in Nat
  PROVE  Datagrams(queue, last) \subseteq Packet(ServerMessages)
BY DEF Datagrams, Succ

LEMMA TransmitIn ==
  ASSUME NEW S, NEW net \in SUBSET S, NEW packets \in SUBSET S
  PROVE  Transmit(net, packets) \subseteq S
BY DEF Transmit

LEMMA UnansweredType ==
  ASSUME NEW messages \in Seq(ClientMessages), NEW first \in Nat, NEW nr \in Nat
  PROVE  Unanswered(messages, first, nr) \subseteq Packet(ClientMessages)
<1> SUFFICES ASSUME NEW i \in first + 1 .. Len(messages)
             PROVE  [ns |-> i, nr |-> nr, type |-> messages[i]] \in Packet(ClientMessages)
  BY DEF Unanswered
<1>1. i \in 1 .. Len(messages) /\ i \in Nat
  OBVIOUS
<1>2. messages[i] \in ClientMessages
  BY <1>1
<1> QED BY <1>1, <1>2

-----------------------------------------------------------------------------
(* Types *)

ClientTyped ==
  /\ sent \in Seq(ClientMessages) /\ Len(sent) <= MaxSent /\ acked \in Nat /\ clientNr \in Nat
  /\ got \subseteq ServerMessages
  /\ toServer \subseteq Packet(ClientMessages) /\ toClient \subseteq Packet(ServerMessages)

ServerTyped ==
  /\ tunnel \in {"none", "up", "freed"} /\ NextNs \in Nat /\ LastNr \in Nat
  /\ SendQueue \subseteq Queued(ServerMessages) /\ RecvQueue \subseteq Queued(ClientMessages)
  /\ tunnelFlags \subseteq TunnelFlags
  /\ session \in {"none", "up", "freed"} /\ sessionFlags \subseteq TunnelFlags
  /\ ~({"Established", "Disconnecting"} \subseteq sessionFlags)
  /\ ppp \in {"none", "running", "ended", "stopped", "orphan"}
  /\ hellos \in 0 .. MaxHello /\ handled \in Seq(ClientMessages)

FlagsTyped ==
  /\ StateChanged \in BOOLEAN /\ HasThread \in BOOLEAN
  /\ Halt \in BOOLEAN /\ Halting \in BOOLEAN /\ HaltCompleted \in BOOLEAN
  /\ stopped \in BOOLEAN /\ late \in BOOLEAN

LEMMA TypeOKIs == TypeOK <=> ClientTyped /\ ServerTyped /\ FlagsTyped
BY Zenon DEF TypeOK, ClientTyped, ServerTyped, FlagsTyped

LEMMA ClientTypedKept == ASSUME TypeOK, [Next]_vars PROVE ClientTyped'
<1>1. ClientTyped /\ NextNs \in Nat /\ LastNr \in Nat /\ SendQueue \subseteq Queued(ServerMessages)
  BY TypeOKIs DEF ServerTyped
<1> USE <1>1, L2TPAssumption
<1>2. ASSUME NEW m \in ClientMessages, ClientSend(m) PROVE ClientTyped'
  <2>1. /\ sent' \in Seq(ClientMessages) /\ Len(sent') <= MaxSent
        /\ acked' = acked /\ clientNr' = clientNr /\ got' = got /\ toClient' = toClient
    BY <1>2 DEF ClientSend, ClientTyped
  <2>2. toServer' = Transmit(toServer, Unanswered(sent', acked, clientNr))
    BY <1>2 DEF ClientSend
  <2>3. Unanswered(sent', acked, clientNr) \subseteq Packet(ClientMessages)
    BY <2>1, UnansweredType DEF ClientTyped
  <2>4. toServer' \subseteq Packet(ClientMessages)
    BY <2>2, <2>3 DEF Transmit, ClientTyped
  <2> QED BY <2>1, <2>4 DEF ClientTyped
<1>3. ASSUME NEW p \in toClient, ClientReceive(p) PROVE ClientTyped'
  <2>1. /\ acked' \in Nat /\ clientNr' \in Nat /\ got' \subseteq ServerMessages
        /\ toClient' = toClient /\ sent' = sent
    <3>1. p \in Packet(ServerMessages)
      BY DEF ClientTyped
    <3>2. p.nr \in Nat /\ acked \in Nat /\ (p.type # "ZLB" => p.type \in ServerMessages)
      BY <3>1 DEF ClientTyped
    <3>3. acked' \in Nat
      <4>1. acked' = IF p.nr - 1 > acked THEN p.nr - 1 ELSE acked
        BY <1>3 DEF ClientReceive
      <4> QED BY <3>2, <4>1
    <3>4. clientNr' \in Nat /\ got' \subseteq ServerMessages
      <4>1. CASE p.type # "ZLB" /\ p.ns = clientNr
        <5>1. clientNr' = clientNr + 1 /\ got' = got \cup {p.type}
          BY <1>3, <4>1 DEF ClientReceive
        <5>2. p.type \in ServerMessages
          BY <3>2, <4>1
        <5>3. got' \subseteq ServerMessages
          <6>1. SUFFICES ASSUME NEW g \in got' PROVE g \in ServerMessages
            OBVIOUS
          <6>2. g \in got \/ g = p.type
            BY <5>1
          <6>3. got \subseteq ServerMessages
            BY DEF ClientTyped
          <6>4. CASE g = p.type
            BY <5>2, <6>4
          <6>5. CASE g \in got
            BY <6>3, <6>5
          <6> QED BY <6>2, <6>4, <6>5
        <5>4. clientNr' \in Nat
          BY <5>1 DEF ClientTyped
        <5> QED BY <5>3, <5>4
      <4>2. CASE ~(p.type # "ZLB" /\ p.ns = clientNr)
        <5>1. clientNr' = clientNr /\ got' = got
          BY <1>3, <4>2 DEF ClientReceive
        <5> QED BY <5>1 DEF ClientTyped
      <4> QED BY <4>1, <4>2
    <3> QED BY <1>3, <3>3, <3>4 DEF ClientReceive
  <2> DEFINE again == Unanswered(sent, acked', clientNr')
             ack == {[ns |-> Len(sent) + 1, nr |-> clientNr', type |-> "ZLB"]}
  <2>2. ack \subseteq Packet(ClientMessages)
    BY <2>1 DEF ClientTyped
  <2>3. again \subseteq Packet(ClientMessages)
    BY <2>1, UnansweredType DEF ClientTyped
  <2>4. toServer' = Transmit(toServer, again \cup IF p.type = "ZLB" THEN {} ELSE ack)
    BY <1>3 DEF ClientReceive
  <2> HIDE DEF ack, again
  <2>5. again \cup (IF p.type = "ZLB" THEN {} ELSE ack) \subseteq Packet(ClientMessages)
    BY <2>2, <2>3
  <2>6. toServer' \subseteq Packet(ClientMessages)
    BY <2>4, <2>5 DEF Transmit, ClientTyped
  <2> QED BY <2>1, <2>6 DEF ClientTyped
<1>4. CASE NewL2TPTunnel
  <2>1. SendQueue' \subseteq Queued(ServerMessages)
    BY <1>4 DEF NewL2TPTunnel
  <2>2. toClient' = Transmit(toClient, Datagrams(SendQueue', LastNr))
    BY <1>4 DEF NewL2TPTunnel
  <2>3. UNCHANGED <<sent, acked, clientNr, got, toServer>>
    BY <1>4 DEF NewL2TPTunnel, ServerStep, clientVars
  <2>4. Datagrams(SendQueue', LastNr) \subseteq Packet(ServerMessages)
    BY <2>1, DatagramsType
  <2>5. toClient' \subseteq Packet(ServerMessages)
    BY <2>2, <2>4 DEF Transmit, ClientTyped
  <2> QED BY <2>3, <2>5 DEF ClientTyped
<1>5. ASSUME NEW p \in toServer, ProcControlPacket(p) PROVE ClientTyped'
  BY <1>5 DEF ProcControlPacket, ServerStep, clientVars, ClientTyped
<1>6. ASSUME NEW q \in RecvQueue, ReadHead(q) PROVE ClientTyped'
  <2>1. LastNr' \in Nat
    BY <1>6, TypeOKIs DEF ReadHead, Advance, ServerTyped
  <2>2. SendQueue' \ SendQueue \subseteq Queued(ServerMessages)
    BY <1>6 DEF ReadHead
  <2> DEFINE packets == Datagrams(SendQueue' \ SendQueue, LastNr')
  <2>3. toClient' = Transmit(toClient, packets)
    BY <1>6 DEF ReadHead
  <2>4. UNCHANGED <<sent, acked, clientNr, got, toServer>>
    BY <1>6 DEF ReadHead, ServerStep, clientVars
  <2>5. packets \subseteq Packet(ServerMessages)
    BY <2>1, <2>2, DatagramsType
  <2> HIDE DEF packets
  <2>6. toClient' \subseteq Packet(ServerMessages)
    BY <2>3, <2>5 DEF Transmit, ClientTyped
  <2> QED BY <2>4, <2>6 DEF ClientTyped
<1>7. CASE ProcDataPacket
  BY <1>7 DEF ProcDataPacket, ServerStep, clientVars, ClientTyped
<1>8. ASSUME NEW timers \in SUBSET Timers, L2TPProcessInterrupts(timers) PROVE ClientTyped'
  <2>1. Sends(timers) \subseteq Queued(ServerMessages)
    BY NewMessagesType DEF Sends
  <2>2. toClient' = Transmit(toClient, Datagrams(Sends(timers), LastNr))
    BY <1>8 DEF L2TPProcessInterrupts
  <2>3. UNCHANGED <<sent, acked, clientNr, got, toServer>>
    BY <1>8 DEF L2TPProcessInterrupts, clientVars
  <2>4. Datagrams(Sends(timers), LastNr) \subseteq Packet(ServerMessages)
    BY <2>1, DatagramsType
  <2>5. toClient' \subseteq Packet(ServerMessages)
    BY <2>2, <2>4 DEF Transmit, ClientTyped
  <2> QED BY <2>3, <2>5 DEF ClientTyped
<1>9. CASE InterruptsWithoutTunnel
  BY <1>9 DEF InterruptsWithoutTunnel, clientVars, ClientTyped
<1>10. CASE PppEnds \/ StopL2TPServer \/ StopThreadList
  <2>1. UNCHANGED <<clientVars, toServer, toClient>>
    BY <1>10 DEF PppEnds, StopL2TPServer, StopThreadList, Elsewhere
  <2> QED BY <2>1 DEF clientVars, ClientTyped
<1>11. CASE UNCHANGED vars
  BY <1>11 DEF vars, clientVars, ClientTyped
<1>12. ASSUME ClientNext PROVE ClientTyped'
  BY <1>2, <1>3, <1>12 DEF ClientNext
<1>13. ASSUME Interrupts PROVE ClientTyped'
  BY <1>8, <1>9, <1>13 DEF Interrupts
<1>14. ASSUME ServerNext PROVE ClientTyped'
  BY <1>4, <1>5, <1>6, <1>7, <1>10, <1>13, <1>14 DEF ServerNext
<1> QED BY <1>11, <1>12, <1>14 DEF Next

LEMMA ServerTypedKept == ASSUME TypeOK, [Next]_vars PROVE ServerTyped'
<1>1. ClientTyped /\ ServerTyped
  BY TypeOKIs
<1> USE <1>1, L2TPAssumption
<1>2. ASSUME ClientStep PROVE ServerTyped'
  BY <1>2 DEF ClientStep, channelVars, sessionVars, ServerTyped
<1>3. ASSUME NEW m \in ClientMessages, ClientSend(m) PROVE ServerTyped'
  BY <1>2, <1>3 DEF ClientSend
<1>4. ASSUME NEW p \in toClient, ClientReceive(p) PROVE ServerTyped'
  BY <1>2, <1>4 DEF ClientReceive
<1>5. CASE NewL2TPTunnel
  <2>1. NextNs' \in Nat /\ SendQueue' \subseteq Queued(ServerMessages) /\ tunnel' = "up"
    BY <1>5, SuccType DEF NewL2TPTunnel, ServerTyped
  <2>2. UNCHANGED <<LastNr, RecvQueue, tunnelFlags, session, sessionFlags, ppp, hellos, handled>>
    BY <1>5 DEF NewL2TPTunnel, ServerStep, sessionVars
  <2> QED BY <2>1, <2>2 DEF ServerTyped
<1>6. ASSUME NEW p \in toServer, ProcControlPacket(p) PROVE ServerTyped'
  <2>1. [ns |-> p.ns, type |-> p.type] \in Queued(ClientMessages)
    BY DEF ClientTyped
  <2>2. SendQueue' \subseteq SendQueue
    BY <1>6 DEF ProcControlPacket, Unacknowledged
  <2>3. RecvQueue' \subseteq RecvQueue \cup {[ns |-> p.ns, type |-> p.type]}
    BY <1>6 DEF ProcControlPacket
  <2>4. UNCHANGED <<tunnel, NextNs, LastNr, tunnelFlags, session, sessionFlags, ppp, hellos, handled>>
    BY <1>6 DEF ProcControlPacket, ServerStep, sessionVars
  <2> QED BY <2>1, <2>2, <2>3, <2>4 DEF ServerTyped
<1>7. ASSUME NEW q \in RecvQueue, ReadHead(q) PROVE ServerTyped'
  <2>1. q.ns \in Nat /\ q.type \in ClientMessages \cup {"ZLB"}
    BY DEF ServerTyped
  <2>2. LastNr' \in Nat
    BY <1>7, <2>1 DEF ReadHead, Advance, ServerTyped
  <2>3. NextNs' \in Nat
    BY <1>7, SuccType DEF ReadHead, ServerTyped
  <2>4. SendQueue' \subseteq Queued(ServerMessages) /\ RecvQueue' \subseteq Queued(ClientMessages)
    <3>1. SendQueue' \subseteq SendQueue \cup {[ns |-> NextNs, type |-> "ICRP"]}
      BY <1>7 DEF ReadHead
    <3>2. RecvQueue' = RecvQueue \ {q}
      BY <1>7 DEF ReadHead
    <3> QED BY <3>1, <3>2 DEF ServerTyped
  <2>5. handled' \in Seq(ClientMessages)
    BY <1>7, <2>1 DEF ReadHead, ServerTyped
  <2>6. tunnelFlags' \subseteq TunnelFlags
    BY <1>7 DEF ReadHead, Tunnel, ServerTyped
  <2>7. session' \in {"none", "up", "freed"}
    BY <1>7 DEF ReadHead, ServerTyped
  <2>8. sessionFlags' \subseteq TunnelFlags /\ ~({"Established", "Disconnecting"} \subseteq sessionFlags')
    <3>1. sessionFlags' = Session(q.type)
      BY <1>7 DEF ReadHead
    <3> QED BY <3>1 DEF Session, ToldToDisconnect, ServerTyped
  <2>9. /\ tunnel' \in {"none", "up", "freed"} /\ hellos' \in 0 .. MaxHello
        /\ ppp' \in {"none", "running", "ended", "stopped", "orphan"}
    <3>1. UNCHANGED <<tunnel, ppp, hellos>>
      BY <1>7 DEF ReadHead, ServerStep
    <3> QED BY <3>1 DEF ServerTyped
  <2> QED BY <2>2, <2>3, <2>4, <2>5, <2>6, <2>7, <2>8, <2>9, SMTT(30) DEF ServerTyped
<1>8. CASE ProcDataPacket
  BY <1>8 DEF ProcDataPacket, ServerStep, channelVars, ServerTyped
<1>9. ASSUME NEW timers \in SUBSET Timers, L2TPProcessInterrupts(timers) PROVE ServerTyped'
  <2>1. NextNs' \in Nat /\ SendQueue' \subseteq Queued(ServerMessages)
    BY <1>9, NewMessagesType DEF L2TPProcessInterrupts, ServerTyped
  <2>2. hellos' \in 0 .. MaxHello
    <3>1. hellos' \in {hellos, hellos + 1} /\ (hellos' # hellos => "hello" \in timers)
      BY <1>9 DEF L2TPProcessInterrupts
    <3>2. "hello" \in timers => hellos < MaxHello
      BY DEF Timers
    <3> QED BY <3>1, <3>2 DEF ServerTyped
  <2>3. sessionFlags' \subseteq TunnelFlags /\ ~({"Established", "Disconnecting"} \subseteq sessionFlags')
    <3>1. sessionFlags' \in {FlagsInTurn(timers), StartsToDisconnect(FlagsInTurn(timers))}
      BY <1>9 DEF L2TPProcessInterrupts
    <3> QED BY <3>1 DEF FlagsInTurn, ToldToDisconnect, StartsToDisconnect, ServerTyped
  <2>4. tunnelFlags' \subseteq TunnelFlags
    BY <1>9 DEF L2TPProcessInterrupts, ServerTyped
  <2>5. ppp' \in {"none", "running", "ended", "stopped", "orphan"}
    BY <1>9 DEF L2TPProcessInterrupts, StopL2TPThread, LoseThread, ServerTyped
  <2>6. tunnel' \in {"none", "up", "freed"} /\ session' \in {"none", "up", "freed"}
    BY <1>9 DEF L2TPProcessInterrupts, ServerTyped
  <2>7. UNCHANGED <<LastNr, RecvQueue, handled>>
    BY <1>9 DEF L2TPProcessInterrupts
  <2> QED BY <2>1, <2>2, <2>3, <2>4, <2>5, <2>6, <2>7 DEF ServerTyped
<1>10. CASE InterruptsWithoutTunnel
  BY <1>10 DEF InterruptsWithoutTunnel, channelVars, sessionVars, ServerTyped
<1>11. CASE PppEnds \/ StopL2TPServer \/ StopThreadList
  <2>1. Elsewhere /\ ppp' \in {ppp, "ended"}
    BY <1>11 DEF PppEnds, StopL2TPServer, StopThreadList
  <2> QED BY <2>1 DEF Elsewhere, channelVars, sessionVars, ServerTyped
<1>12. CASE UNCHANGED vars
  BY <1>12 DEF vars, channelVars, sessionVars, ServerTyped
<1>13. ASSUME ClientNext PROVE ServerTyped'
  BY <1>3, <1>4, <1>13 DEF ClientNext
<1>14. ASSUME Interrupts PROVE ServerTyped'
  BY <1>9, <1>10, <1>14 DEF Interrupts
<1>15. ASSUME ServerNext PROVE ServerTyped'
  BY <1>5, <1>6, <1>7, <1>8, <1>11, <1>14, <1>15 DEF ServerNext
<1> QED BY <1>12, <1>13, <1>15 DEF Next

LEMMA FlagsTypedKept == ASSUME TypeOK, [Next]_vars PROVE FlagsTyped'
<1>1. FlagsTyped
  BY TypeOKIs
<1> USE Zenon, <1>1 DEF FlagsTyped
<1>2. ASSUME ClientStep PROVE FlagsTyped'
  BY <1>2 DEF ClientStep, channelVars, sessionVars, serverVars
<1>3. ASSUME NEW m \in ClientMessages, ClientSend(m) PROVE FlagsTyped'
  BY <1>2, <1>3 DEF ClientSend
<1>4. ASSUME NEW p \in toClient, ClientReceive(p) PROVE FlagsTyped'
  BY <1>2, <1>4 DEF ClientReceive
<1>5. CASE NewL2TPTunnel
  BY <1>5 DEF NewL2TPTunnel, ServerStep, sessionVars
<1>6. ASSUME NEW p \in toServer, ProcControlPacket(p) PROVE FlagsTyped'
  BY <1>6 DEF ProcControlPacket, ServerStep, sessionVars
<1>7. ASSUME NEW q \in RecvQueue, ReadHead(q) PROVE FlagsTyped'
  BY <1>7 DEF ReadHead, ServerStep
<1>8. CASE ProcDataPacket
  BY <1>8 DEF ProcDataPacket, ServerStep, channelVars
<1>9. ASSUME NEW timers \in SUBSET Timers, L2TPProcessInterrupts(timers) PROVE FlagsTyped'
  <2>1. HasThread' \in BOOLEAN
    BY <1>9 DEF L2TPProcessInterrupts, StopL2TPThread, LoseThread
  <2> QED BY <1>9, <2>1 DEF L2TPProcessInterrupts
<1>10. CASE InterruptsWithoutTunnel
  BY <1>10 DEF InterruptsWithoutTunnel, channelVars, sessionVars
<1>11. CASE PppEnds \/ StopL2TPServer \/ StopThreadList
  BY <1>11 DEF PppEnds, StopL2TPServer, StopThreadList, Elsewhere, channelVars, sessionVars
<1>12. CASE UNCHANGED vars
  BY <1>12 DEF vars, channelVars, sessionVars, serverVars
<1>13. ASSUME ClientNext PROVE FlagsTyped'
  BY <1>3, <1>4, <1>13 DEF ClientNext
<1>14. ASSUME Interrupts PROVE FlagsTyped'
  BY <1>9, <1>10, <1>14 DEF Interrupts
<1>15. ASSUME ServerNext PROVE FlagsTyped'
  BY <1>5, <1>6, <1>7, <1>8, <1>11, <1>14, <1>15 DEF ServerNext
<1> QED BY <1>12, <1>13, <1>15 DEF Next

\* Every variable keeps its type, and a session that disconnects is not established.
THEOREM TypeCorrect == Spec => []TypeOK
<1>1. Init => TypeOK
  <2> SUFFICES ASSUME Init PROVE TypeOK
    OBVIOUS
  <2>1. ClientTyped /\ ServerTyped
    BY L2TPAssumption DEF Init, ClientTyped, ServerTyped
  <2>2. FlagsTyped
    BY Zenon DEF Init, FlagsTyped
  <2> QED BY <2>1, <2>2, TypeOKIs
<1>2. TypeOK /\ [Next]_vars => TypeOK'
  <2> SUFFICES ASSUME TypeOK, [Next]_vars PROVE TypeOK'
    OBVIOUS
  <2>1. ClientTyped' /\ ServerTyped' /\ FlagsTyped'
    BY ClientTypedKept, ServerTypedKept, FlagsTypedKept
  <2> QED BY <2>1, Zenon DEF TypeOK, ClientTyped, ServerTyped, FlagsTyped
<1> QED BY <1>1, <1>2, PTL DEF Spec

-----------------------------------------------------------------------------
(* The session and its thread *)

\* A session with a thread is established, and one that is established in a tunnel
\* that was told to disconnect was told as well, unless it came too late.
SessionToldWithTunnel ==
  /\ "Disconnecting" \in tunnelFlags => "WantToDisconnect" \in tunnelFlags
  /\ HasThread => session # "none"
  /\ session = "up" /\ HasThread => "Established" \in sessionFlags
  /\ session = "up" /\ "Established" \in sessionFlags /\ "WantToDisconnect" \in tunnelFlags
       => late \/ "WantToDisconnect" \in sessionFlags

\* A thread that runs belongs to a session; a server that halted has no tunnel.
ThreadOfSession ==
  /\ ppp = "running" => tunnel = "up" /\ session = "up" /\ HasThread
  /\ ppp = "orphan" => late
  /\ HaltCompleted => Halt /\ tunnel # "up"
  /\ stopped => HaltCompleted /\ ppp # "stopped"

Life == SessionToldWithTunnel /\ ThreadOfSession

lifeVars == <<tunnel, tunnelFlags, session, sessionFlags, HasThread, ppp, Halt, HaltCompleted,
              stopped, late>>

LEMMA LifeKept == ASSUME TypeOK, Life, [Next]_vars PROVE Life'
<1> USE DEF SessionToldWithTunnel, ThreadOfSession, Life
<1>1. /\ sessionFlags \subseteq TunnelFlags
      /\ ~("Established" \in sessionFlags /\ "Disconnecting" \in sessionFlags)
  BY TypeOKIs DEF ServerTyped
<1>2. ASSUME UNCHANGED lifeVars PROVE Life'
  BY <1>2 DEF lifeVars
<1>3. ASSUME ClientStep PROVE Life'
  BY <1>2, <1>3 DEF ClientStep, sessionVars, serverVars, lifeVars
<1>4. ASSUME NEW m \in ClientMessages, ClientSend(m) PROVE Life'
  BY <1>3, <1>4 DEF ClientSend
<1>5. ASSUME NEW p \in toClient, ClientReceive(p) PROVE Life'
  BY <1>3, <1>5 DEF ClientReceive
<1>6. CASE NewL2TPTunnel
  <2>1. tunnel = "none" /\ ~Halt
        /\ UNCHANGED <<tunnelFlags, session, sessionFlags, HasThread, ppp, Halt, HaltCompleted,
                      stopped, late>>
    BY <1>6 DEF NewL2TPTunnel, ServerStep, sessionVars
  <2> QED BY <2>1
<1>7. ASSUME NEW p \in toServer, ProcControlPacket(p) PROVE Life'
  BY <1>2, <1>7 DEF ProcControlPacket, ServerStep, sessionVars, lifeVars
<1>8. ASSUME NEW q \in RecvQueue, ReadHead(q) PROVE Life'
  <2>1. /\ tunnel = "up" /\ UNCHANGED <<tunnel, HasThread, ppp, Halt, HaltCompleted, stopped>>
        /\ session' = IF Creates(q.type) THEN "up" ELSE session
        /\ tunnelFlags' = Tunnel(q.type) /\ sessionFlags' = Session(q.type)
    BY <1>8 DEF ReadHead, ServerStep
  <2>2. late => late'
    BY <1>8 DEF ReadHead
  <2>3. "Established" \in sessionFlags' /\ "Established" \notin sessionFlags
        /\ "WantToDisconnect" \in tunnelFlags => late'
    BY <1>8 DEF ReadHead
  <2>4. ThreadOfSession'
    BY <2>1, <2>2 DEF Creates
  <2>5. "Disconnecting" \in tunnelFlags' => "WantToDisconnect" \in tunnelFlags'
    BY <2>1 DEF Tunnel
  <2>6. /\ HasThread' => session' # "none"
        /\ session' = "up" /\ HasThread' => "Established" \in sessionFlags'
    BY <2>1 DEF Session, ToldToDisconnect, Creates
  <2>7. ASSUME session' = "up", "Established" \in sessionFlags', "WantToDisconnect" \in tunnelFlags'
        PROVE  late' \/ "WantToDisconnect" \in sessionFlags'
    <3>1. CASE "WantToDisconnect" \in tunnelFlags
      <4>1. session = "up"
        BY <2>1, <2>7, <3>1 DEF Creates
      <4>2. "WantToDisconnect" \in sessionFlags => "WantToDisconnect" \in sessionFlags'
        BY <2>1 DEF Session, ToldToDisconnect
      <4> QED BY <2>2, <2>3, <2>7, <3>1, <4>1, <4>2
    <3>2. CASE "WantToDisconnect" \notin tunnelFlags
      <4>1. TellsSessions(q.type)
        BY <2>1, <2>7, <3>2 DEF Tunnel, TellsSessions
      <4>2. session = "up" /\ sessionFlags' = ToldToDisconnect(sessionFlags)
        BY <2>1, <2>7, <4>1 DEF TellsSessions, Creates, Session
      <4> QED BY <2>7, <4>2 DEF ToldToDisconnect
    <3> QED BY <3>1, <3>2
  <2> QED BY <2>4, <2>5, <2>6, <2>7
<1>9. CASE ProcDataPacket
  BY <1>9 DEF ProcDataPacket, ServerStep
<1>10. ASSUME NEW timers \in SUBSET Timers, L2TPProcessInterrupts(timers) PROVE Life'
  <2> DEFINE cdn == SendsCDN(timers)
             flags == FlagsInTurn(timers)
             free == session = "up" /\ (DeletesSession(timers) \/ DeletesTunnel(timers))
  <2>1. /\ tunnel = "up" /\ UNCHANGED <<late, Halt, stopped>>
        /\ sessionFlags' = IF cdn THEN StartsToDisconnect(flags) ELSE flags
        /\ tunnelFlags' = IF SendsSTOPCCN(timers) THEN {"WantToDisconnect", "Disconnecting"}
                          ELSE tunnelFlags
        /\ session' = IF free THEN "freed" ELSE session
        /\ tunnel' = IF DeletesTunnel(timers) THEN "freed" ELSE "up"
    BY <1>10 DEF L2TPProcessInterrupts
  <2>2. HaltCompleted' => Halt /\ DeletesTunnel(timers)
    BY <1>10 DEF L2TPProcessInterrupts
  <2>3. IF cdn THEN StopL2TPThread ELSE LoseThread(timers)
    BY <1>10 DEF L2TPProcessInterrupts
  <2>4. /\ "Established" \in flags <=> "Established" \in sessionFlags
        /\ "Disconnecting" \in flags <=> "Disconnecting" \in sessionFlags
        /\ "WantToDisconnect" \in sessionFlags => "WantToDisconnect" \in flags
    BY DEF FlagsInTurn, ToldToDisconnect
  <2>5. cdn <=> /\ session = "up" /\ "WantToDisconnect" \in flags
                /\ "Disconnecting" \notin sessionFlags
    BY DEF SendsCDN
  <2>6. "Disconnecting" \in tunnelFlags' => "WantToDisconnect" \in tunnelFlags'
    BY <2>1
  <2>7. HasThread' => session' # "none"
    BY <2>1, <2>3 DEF StopL2TPThread, LoseThread
  <2>8. session' = "up" /\ HasThread' => "Established" \in sessionFlags'
    <3>1. CASE cdn
      BY <2>3, <3>1 DEF StopL2TPThread
    <3>2. CASE ~cdn
      BY <2>1, <2>3, <2>4, <3>2 DEF LoseThread
    <3> QED BY <3>1, <3>2
  \* A session is not told only if the tunnel was told before, which made it late.
  <2>9. ASSUME session = "up", "Established" \in sessionFlags, ~cdn,
               "WantToDisconnect" \in tunnelFlags \/ Disconnects(timers)
        PROVE  late
    <3>1. "WantToDisconnect" \notin flags
      BY <1>1, <2>5, <2>9
    <3>2. ~Disconnects(timers)
      BY <2>9, <3>1 DEF FlagsInTurn, ToldToDisconnect
    <3> QED BY <2>4, <2>9, <3>1, <3>2
  <2>10. ASSUME session' = "up", "Established" \in sessionFlags', "WantToDisconnect" \in tunnelFlags'
         PROVE  late'
    <3>1. session = "up" /\ ~cdn /\ "Established" \in sessionFlags
      BY <2>1, <2>4, <2>10 DEF StartsToDisconnect
    <3>2. "WantToDisconnect" \in tunnelFlags \/ Disconnects(timers)
      BY <2>1, <2>10 DEF SendsSTOPCCN
    <3> QED BY <2>1, <2>9, <3>1, <3>2
  <2>11. ppp' = "running" => tunnel' = "up" /\ session' = "up" /\ HasThread'
    <3>1. CASE cdn
      BY <2>3, <3>1 DEF StopL2TPThread
    <3>2. CASE ~cdn
      <4>1. SUFFICES ASSUME ppp' = "running" PROVE tunnel' = "up" /\ session' = "up" /\ HasThread'
        OBVIOUS
      <4>2. ppp = "running" /\ ~DeletesTunnel(timers) /\ HasThread' = HasThread
        BY <2>3, <3>2, <4>1 DEF LoseThread
      <4>3. ~DeletesSession(timers)
        BY <1>1, <4>2 DEF DeletesSession
      <4> QED BY <2>1, <4>2, <4>3
    <3> QED BY <3>1, <3>2
  <2>12. ppp' = "orphan" => late'
    <3>1. CASE cdn \/ ppp = "orphan"
      BY <2>1, <2>3, <3>1 DEF StopL2TPThread
    <3>2. CASE ~cdn /\ ppp # "orphan"
      <4>1. SUFFICES ASSUME ppp' = "orphan" PROVE late'
        OBVIOUS
      <4>2. DeletesTunnel(timers) /\ session = "up" /\ HasThread
        BY <2>3, <3>2, <4>1 DEF LoseThread
      <4>3. "WantToDisconnect" \in tunnelFlags
        BY <4>2 DEF DeletesTunnel
      <4> QED BY <2>1, <2>9, <3>2, <4>2, <4>3
    <3> QED BY <3>1, <3>2
  <2>13. HaltCompleted' => Halt' /\ tunnel' # "up"
    BY <2>1, <2>2
  <2>14. ~stopped'
    BY <2>1
  <2> QED BY <2>6, <2>7, <2>8, <2>10, <2>11, <2>12, <2>13, <2>14
<1>11. CASE InterruptsWithoutTunnel
  BY <1>11 DEF InterruptsWithoutTunnel, sessionVars
<1>12. CASE PppEnds \/ StopL2TPServer \/ StopThreadList
  BY <1>12 DEF PppEnds, StopL2TPServer, StopThreadList, Elsewhere, sessionVars
<1>13. CASE UNCHANGED vars
  BY <1>2, <1>13 DEF vars, sessionVars, serverVars, lifeVars
<1>14. ASSUME ClientNext PROVE Life'
  BY <1>4, <1>5, <1>14 DEF ClientNext
<1>15. ASSUME Interrupts PROVE Life'
  BY <1>10, <1>11, <1>15 DEF Interrupts
<1>16. ASSUME ServerNext PROVE Life'
  BY <1>6, <1>7, <1>8, <1>9, <1>12, <1>15, <1>16 DEF ServerNext
<1> QED BY <1>13, <1>14, <1>16 DEF Next

-----------------------------------------------------------------------------
(* The numbers of the control channel *)

Count(flags, f) == IF f \in flags THEN 1 ELSE 0

\* The server sends a handful of messages.
Counted ==
  /\ tunnel = "none" => session = "none" /\ tunnelFlags = {} /\ hellos = 0
  /\ session = "none" => sessionFlags = {}
  /\ NextNs = Count({"up", "freed"}, tunnel) + Count({"up", "freed"}, session)
        + Count(sessionFlags, "Disconnecting") + Count(tunnelFlags, "Disconnecting") + hellos

\* Each side knows what the other has sent, and not more.
Known ==
  /\ clientNr <= NextNs /\ acked <= LastNr /\ LastNr <= Len(sent)
  /\ Len(sent) <= acked + ClientWindow

Carries(p) == p.type # "ZLB" => p.ns <= Len(sent) /\ p.type = sent[p.ns]

FromClient ==
  /\ \A p \in toServer :
       1 <= p.ns /\ p.ns <= Len(sent) + 1 /\ p.nr <= clientNr /\ Carries(p)
  /\ \A q \in RecvQueue : LastNr < q.ns /\ q.ns <= Len(sent) + 1 /\ Carries(q)
  /\ \A q, r \in RecvQueue : q.ns = r.ns => q = r

FromServer ==
  /\ \A p \in toClient : p.nr <= LastNr + 1 /\ (p.type # "ZLB" => p.ns < NextNs)
  /\ \A q \in SendQueue : q.ns < NextNs

HandledPrefix == Len(handled) = LastNr /\ \A i \in 1 .. LastNr : handled[i] = sent[i]

NumberBounds ==
  /\ NextNs \in Nat /\ LastNr \in Nat /\ clientNr \in Nat /\ acked \in Nat
  /\ NextNs + 4 < 32768 /\ LastNr + 1 < 32768 /\ Len(sent) + 1 < 32768 /\ clientNr < 32768

LEMMA CountType == ASSUME NEW flags, NEW f PROVE Count(flags, f) \in {0, 1}
BY DEF Count

LEMMA Bounds == ASSUME TypeOK, Counted, Known PROVE NumberBounds
<1>1. /\ NextNs \in Nat /\ LastNr \in Nat /\ hellos \in 0 .. MaxHello
      /\ Len(sent) \in Nat /\ Len(sent) <= MaxSent /\ clientNr \in Nat /\ acked \in Nat
  BY TypeOKIs DEF ClientTyped, ServerTyped
<1>2. MaxSent \in Nat /\ MaxHello \in Nat /\ MaxSent + MaxHello + 8 < 32768
  BY L2TPAssumption
<1>3. NextNs <= 4 + hellos
  BY <1>1, CountType DEF Counted
<1> QED BY <1>1, <1>2, <1>3 DEF NumberBounds, Known

\* An interrupt numbers its messages one after the other.
LEMMA NewNumbers ==
  ASSUME NEW timers, NumberBounds
  PROVE  /\ NsAfter(timers) = NextNs + Count(timers, "hello")
              + (IF SendsCDN(timers) THEN 1 ELSE 0) + (IF SendsSTOPCCN(timers) THEN 1 ELSE 0)
         /\ NsAfter(timers) >= NextNs
         /\ \A q \in NewMessages(timers) : NextNs <= q.ns /\ q.ns < NsAfter(timers)
         /\ \A n \in NextNs .. NsAfter(timers) - 1 : \E q \in NewMessages(timers) : q.ns = n
<1> USE DEF NumberBounds
<1>1. NsOfCDN(timers) = NextNs + Count(timers, "hello") /\ NsOfCDN(timers) \in NextNs .. NextNs + 1
  BY SuccIs DEF NsOfCDN, Count
<1>2. /\ NsOfSTOPCCN(timers) = NsOfCDN(timers) + (IF SendsCDN(timers) THEN 1 ELSE 0)
      /\ NsOfSTOPCCN(timers) \in NsOfCDN(timers) .. NextNs + 2
  <2>1. NsOfCDN(timers) \in Nat /\ NsOfCDN(timers) < 32768
    BY <1>1
  <2>2. Succ(NsOfCDN(timers)) = NsOfCDN(timers) + 1
    BY <2>1, SuccIs
  <2>3. CASE SendsCDN(timers)
    BY <1>1, <2>1, <2>2, <2>3 DEF NsOfSTOPCCN
  <2>4. CASE ~SendsCDN(timers)
    BY <1>1, <2>1, <2>4 DEF NsOfSTOPCCN
  <2> QED BY <2>3, <2>4
<1>3. /\ NsAfter(timers) = NsOfSTOPCCN(timers) + (IF SendsSTOPCCN(timers) THEN 1 ELSE 0)
      /\ NsAfter(timers) \in NsOfSTOPCCN(timers) .. NextNs + 3
  <2>1. NsOfSTOPCCN(timers) \in Nat /\ NsOfSTOPCCN(timers) < 32768
    BY <1>1, <1>2
  <2>2. Succ(NsOfSTOPCCN(timers)) = NsOfSTOPCCN(timers) + 1
    BY <2>1, SuccIs
  <2>3. CASE SendsSTOPCCN(timers)
    BY <1>1, <1>2, <2>1, <2>2, <2>3 DEF NsAfter
  <2>4. CASE ~SendsSTOPCCN(timers)
    BY <1>1, <1>2, <2>1, <2>4 DEF NsAfter
  <2> QED BY <2>3, <2>4
<1>4. \A q \in NewMessages(timers) : NextNs <= q.ns /\ q.ns < NsAfter(timers)
  BY <1>1, <1>2, <1>3 DEF NewMessages, Count
<1>5. ASSUME NEW n \in NextNs .. NsAfter(timers) - 1
      PROVE  \E q \in NewMessages(timers) : q.ns = n
  <2>1. CASE n < NsOfCDN(timers)
    <3>1. n = NextNs /\ "hello" \in timers
      BY <1>1, <2>1 DEF Count
    <3>2. [ns |-> NextNs, type |-> "HELLO"] \in NewMessages(timers)
      BY <3>1 DEF NewMessages
    <3> QED BY <3>1, <3>2
  <2>2. CASE NsOfCDN(timers) <= n /\ n < NsOfSTOPCCN(timers)
    <3>1. n = NsOfCDN(timers) /\ SendsCDN(timers)
      BY <1>1, <1>2, <2>2
    <3>2. [ns |-> NsOfCDN(timers), type |-> "CDN"] \in NewMessages(timers)
      BY <3>1 DEF NewMessages
    <3> QED BY <3>1, <3>2
  <2>3. CASE NsOfSTOPCCN(timers) <= n
    <3>1. n = NsOfSTOPCCN(timers) /\ SendsSTOPCCN(timers)
      BY <1>1, <1>2, <1>3, <2>3
    <3>2. [ns |-> NsOfSTOPCCN(timers), type |-> "STOPCCN"] \in NewMessages(timers)
      BY <3>1 DEF NewMessages
    <3> QED BY <3>1, <3>2
  <2> QED BY <1>1, <1>2, <2>1, <2>2, <2>3
<1> QED BY <1>1, <1>2, <1>3, <1>4, <1>5

countVars == <<tunnel, session, sessionFlags, tunnelFlags, hellos, NextNs>>

LEMMA CountedKept == ASSUME TypeOK, Counted, Known, [Next]_vars PROVE Counted'
<1>1. NumberBounds
  BY Bounds
<1>2. ServerTyped
  BY TypeOKIs
<1>3. ASSUME UNCHANGED countVars PROVE Counted'
  BY <1>3 DEF countVars, Counted
<1>4. ASSUME ClientStep PROVE Counted'
  BY <1>3, <1>4 DEF ClientStep, channelVars, sessionVars, countVars
<1>5. ASSUME NEW m \in ClientMessages, ClientSend(m) PROVE Counted'
  BY <1>4, <1>5 DEF ClientSend
<1>6. ASSUME NEW p \in toClient, ClientReceive(p) PROVE Counted'
  BY <1>4, <1>6 DEF ClientReceive
<1>7. CASE NewL2TPTunnel
  <2>1. tunnel = "none" /\ tunnel' = "up" /\ NextNs' = NextNs + 1
    BY <1>1, <1>7, SuccIs DEF NewL2TPTunnel, NumberBounds
  <2>2. UNCHANGED <<session, sessionFlags, tunnelFlags, hellos>>
    BY <1>7 DEF NewL2TPTunnel, ServerStep, sessionVars
  <2> QED BY <1>2, <2>1, <2>2 DEF Counted, Count, ServerTyped
<1>8. ASSUME NEW p \in toServer, ProcControlPacket(p) PROVE Counted'
  BY <1>3, <1>8 DEF ProcControlPacket, ServerStep, sessionVars, countVars
<1>9. ASSUME NEW q \in RecvQueue, ReadHead(q) PROVE Counted'
  <2>1. /\ tunnel = "up" /\ tunnel' = tunnel /\ hellos' = hellos
        /\ tunnelFlags' = Tunnel(q.type) /\ sessionFlags' = Session(q.type)
        /\ session' = IF Creates(q.type) THEN "up" ELSE session
    BY <1>9 DEF ReadHead, ServerStep
  <2>2. NextNs' = IF Creates(q.type) THEN NextNs + 1 ELSE NextNs
    BY <1>1, <1>9, SuccIs DEF ReadHead, NumberBounds
  <2>3. "Disconnecting" \in tunnelFlags' <=> "Disconnecting" \in tunnelFlags
    BY <2>1 DEF Tunnel
  <2>4. /\ "Disconnecting" \in sessionFlags' <=> "Disconnecting" \in sessionFlags
        /\ session = "none" => sessionFlags' = sessionFlags
    BY <2>1 DEF Session, ToldToDisconnect
  <2>5. Creates(q.type) => session = "none"
    BY DEF Creates
  <2>6. CASE Creates(q.type)
    BY <1>2, <2>1, <2>2, <2>3, <2>4, <2>5, <2>6 DEF Counted, Count, ServerTyped
  <2>7. CASE ~Creates(q.type)
    BY <1>2, <2>1, <2>2, <2>3, <2>4, <2>7 DEF Counted, Count, ServerTyped
  <2> QED BY <2>6, <2>7
<1>10. CASE ProcDataPacket
  BY <1>3, <1>10 DEF ProcDataPacket, ServerStep, channelVars, countVars
<1>11. ASSUME NEW timers \in SUBSET Timers, L2TPProcessInterrupts(timers) PROVE Counted'
  <2>1. /\ tunnel = "up" /\ tunnel' \in {"up", "freed"}
        /\ sessionFlags' = IF SendsCDN(timers) THEN StartsToDisconnect(FlagsInTurn(timers))
                           ELSE FlagsInTurn(timers)
        /\ tunnelFlags' = IF SendsSTOPCCN(timers) THEN {"WantToDisconnect", "Disconnecting"}
                          ELSE tunnelFlags
        /\ session' = session \/ (session = "up" /\ session' = "freed")
        /\ NextNs' = NsAfter(timers)
    <3>1. session' = session \/ (session = "up" /\ session' = "freed")
      BY <1>11 DEF L2TPProcessInterrupts
    <3> QED BY <1>11, <3>1 DEF L2TPProcessInterrupts
  <2>2. hellos' = hellos + Count(timers, "hello")
    BY <1>2, <1>11 DEF L2TPProcessInterrupts, Count, ServerTyped
  <2>3. Count(sessionFlags', "Disconnecting")
          = Count(sessionFlags, "Disconnecting") + (IF SendsCDN(timers) THEN 1 ELSE 0)
    BY <2>1 DEF Count, SendsCDN, FlagsInTurn, ToldToDisconnect, StartsToDisconnect
  <2>4. Count(tunnelFlags', "Disconnecting")
          = Count(tunnelFlags, "Disconnecting") + (IF SendsSTOPCCN(timers) THEN 1 ELSE 0)
    BY <2>1 DEF Count, SendsSTOPCCN
  <2>5. /\ Count({"up", "freed"}, tunnel') = Count({"up", "freed"}, tunnel)
        /\ Count({"up", "freed"}, session') = Count({"up", "freed"}, session)
    BY <2>1 DEF Count
  <2>6. session' = "none" => sessionFlags' = sessionFlags
    BY <2>1 DEF SendsCDN, FlagsInTurn
  <2>7. NsAfter(timers) = NextNs + Count(timers, "hello")
          + (IF SendsCDN(timers) THEN 1 ELSE 0) + (IF SendsSTOPCCN(timers) THEN 1 ELSE 0)
    BY <1>1, NewNumbers
  <2>8. NextNs' = Count({"up", "freed"}, tunnel') + Count({"up", "freed"}, session')
        + Count(sessionFlags', "Disconnecting") + Count(tunnelFlags', "Disconnecting") + hellos'
    <3> DEFINE h == Count(timers, "hello")
               c == IF SendsCDN(timers) THEN 1 ELSE 0
               s == IF SendsSTOPCCN(timers) THEN 1 ELSE 0
    <3>1. h \in Int /\ c \in Int /\ s \in Int /\ hellos \in Int
      BY <1>2, CountType DEF ServerTyped
    <3>2. NextNs' = NextNs + h + c + s
      BY <2>1, <2>7
    <3>3. Count(sessionFlags', "Disconnecting") = Count(sessionFlags, "Disconnecting") + c
      BY <2>3
    <3>4. Count(tunnelFlags', "Disconnecting") = Count(tunnelFlags, "Disconnecting") + s
      BY <2>4
    <3> HIDE DEF h, c, s
    <3>5. NextNs + h + c + s = Count({"up", "freed"}, tunnel) + Count({"up", "freed"}, session)
            + (Count(sessionFlags, "Disconnecting") + c)
            + (Count(tunnelFlags, "Disconnecting") + s) + (hellos + h)
      BY <3>1, CountType DEF Counted
    <3> QED BY <2>2, <2>5, <3>2, <3>3, <3>4, <3>5 DEF h
  <2> QED BY <2>1, <2>6, <2>8 DEF Counted
<1>12. CASE InterruptsWithoutTunnel
  BY <1>3, <1>12 DEF InterruptsWithoutTunnel, channelVars, sessionVars, countVars
<1>13. CASE PppEnds \/ StopL2TPServer \/ StopThreadList
  BY <1>3, <1>13 DEF PppEnds, StopL2TPServer, StopThreadList, Elsewhere, channelVars, sessionVars,
     countVars
<1>14. CASE UNCHANGED vars
  BY <1>3, <1>14 DEF vars, channelVars, sessionVars, countVars
<1>15. ASSUME ClientNext PROVE Counted'
  BY <1>5, <1>6, <1>15 DEF ClientNext
<1>16. ASSUME Interrupts PROVE Counted'
  BY <1>11, <1>12, <1>16 DEF Interrupts
<1>17. ASSUME ServerNext PROVE Counted'
  BY <1>7, <1>8, <1>9, <1>10, <1>13, <1>16, <1>17 DEF ServerNext
<1> QED BY <1>14, <1>15, <1>17 DEF Next

LEMMA TransmitOnly ==
  ASSUME NEW net, NEW packets, NEW p \in Transmit(net, packets)
  PROVE  p \in net \/ p \in packets
BY DEF Transmit

LEMMA DatagramsAre ==
  ASSUME NEW queue, NEW last, NEW p \in Datagrams(queue, last)
  PROVE  \E q \in queue : p.ns = q.ns /\ p.type = q.type /\ p.nr = Succ(last)
BY DEF Datagrams

Numbers == Known /\ FromClient /\ FromServer /\ HandledPrefix /\ KeptUntilReceived

LEMMA ClientSendNumbers ==
  ASSUME TypeOK, Counted, Numbers, NEW m \in ClientMessages, ClientSend(m)
  PROVE  Numbers'
<1>1. NumberBounds /\ sent \in Seq(ClientMessages) /\ ClientWindow \in Nat
  BY Bounds, TypeOKIs, L2TPAssumption DEF Numbers, ClientTyped
<1>2. /\ sent' = Append(sent, m) /\ Len(sent) - acked < ClientWindow
      /\ toServer' = Transmit(toServer, Unanswered(sent', acked, clientNr))
      /\ UNCHANGED <<acked, clientNr, toClient, tunnel, NextNs, LastNr, SendQueue, RecvQueue, handled>>
  BY DEF ClientSend, ClientStep, channelVars
<1>3. /\ Len(sent') = Len(sent) + 1 /\ Len(sent) \in Nat
      /\ \A i \in 1 .. Len(sent) : sent'[i] = sent[i]
  BY <1>1, <1>2
<1>4. Known'
  BY <1>1, <1>2, <1>3 DEF Numbers, Known, NumberBounds
<1>5. ASSUME NEW x, x.ns \in Nat, 1 <= x.ns, Carries(x) PROVE Carries(x)'
  BY <1>3, <1>5 DEF Carries
<1>6. ASSUME NEW p \in toServer'
      PROVE  1 <= p.ns /\ p.ns <= Len(sent') + 1 /\ p.nr <= clientNr' /\ Carries(p)'
  <2>1. CASE p \in toServer
    <3>1. p.ns \in Nat /\ 1 <= p.ns /\ p.ns <= Len(sent) + 1 /\ p.nr <= clientNr /\ Carries(p)
      BY <2>1, TypeOKIs DEF Numbers, FromClient, ClientTyped
    <3> QED BY <1>2, <1>3, <1>5, <3>1
  <2>2. CASE p \in Unanswered(sent', acked, clientNr)
    <3>1. PICK i \in acked + 1 .. Len(sent') : p = [ns |-> i, nr |-> clientNr, type |-> sent'[i]]
      BY <2>2 DEF Unanswered
    <3>2. i \in Nat /\ 1 <= i /\ i <= Len(sent) + 1
      BY <1>1, <1>3, <3>1 DEF NumberBounds
    <3> QED BY <1>1, <1>2, <1>3, <3>1, <3>2 DEF Carries, NumberBounds
  <2> QED BY <1>2, <2>1, <2>2, TransmitOnly
<1>7. ASSUME NEW q \in RecvQueue'
      PROVE  LastNr' < q.ns /\ q.ns <= Len(sent') + 1 /\ Carries(q)'
  <2>1. q.ns \in Nat /\ LastNr < q.ns /\ q.ns <= Len(sent) + 1 /\ Carries(q)
    BY <1>2, TypeOKIs DEF Numbers, FromClient, ServerTyped
  <2>2. 1 <= q.ns
    BY <1>1, <2>1 DEF NumberBounds
  <2> QED BY <1>2, <1>3, <1>5, <2>1, <2>2
<1>8. FromClient'
  BY <1>2, <1>6, <1>7 DEF Numbers, FromClient
<1>9. FromServer' /\ KeptUntilReceived'
  BY <1>2 DEF Numbers, FromServer, KeptUntilReceived
<1>10. HandledPrefix'
  <2>1. \A i \in 1 .. LastNr : i \in 1 .. Len(sent)
    BY <1>1, <1>3 DEF Numbers, Known, NumberBounds
  <2> QED BY <1>2, <1>3, <2>1 DEF Numbers, HandledPrefix
<1> QED BY <1>4, <1>8, <1>9, <1>10 DEF Numbers

LEMMA ClientReceiveNumbers ==
  ASSUME TypeOK, Counted, Numbers, NEW p \in toClient, ClientReceive(p)
  PROVE  Numbers'
<1>1. NumberBounds /\ sent \in Seq(ClientMessages) /\ ClientWindow \in Nat
  BY Bounds, TypeOKIs, L2TPAssumption DEF Numbers, ClientTyped
<1>2. p.ns \in Nat /\ p.nr \in Nat /\ p.nr <= LastNr + 1 /\ (p.type # "ZLB" => p.ns < NextNs)
  BY TypeOKIs DEF Numbers, FromServer, ClientTyped
<1> DEFINE a == IF p.nr - 1 > acked THEN p.nr - 1 ELSE acked
           c == IF p.type # "ZLB" /\ p.ns = clientNr THEN clientNr + 1 ELSE clientNr
           ack == {[ns |-> Len(sent) + 1, nr |-> clientNr', type |-> "ZLB"]}
<1>3. acked' = a /\ clientNr' = c
  BY DEF ClientReceive
<1>4. UNCHANGED <<sent, toClient, tunnel, NextNs, LastNr, SendQueue, RecvQueue, handled>>
  BY DEF ClientReceive, ClientStep, channelVars
<1>5. toServer' = Transmit(toServer, Unanswered(sent, acked', clientNr')
                             \cup IF p.type = "ZLB" THEN {} ELSE ack)
  BY DEF ClientReceive
<1>6. a \in Nat /\ acked <= a /\ a <= LastNr /\ Len(sent) \in Nat
  BY <1>1, <1>2 DEF Numbers, Known, NumberBounds
<1>7. c \in Nat /\ clientNr <= c /\ c <= NextNs
  BY <1>1, <1>2 DEF Numbers, Known, NumberBounds
<1> HIDE DEF a, c
<1>8. Known'
  BY <1>1, <1>3, <1>4, <1>6, <1>7 DEF Numbers, Known, NumberBounds
<1>9. ASSUME NEW x \in toServer'
      PROVE  1 <= x.ns /\ x.ns <= Len(sent') + 1 /\ x.nr <= clientNr' /\ Carries(x)'
  <2>1. CASE x \in toServer
    <3>1. x.nr \in Nat /\ 1 <= x.ns /\ x.ns <= Len(sent) + 1 /\ x.nr <= clientNr /\ Carries(x)
      BY <2>1, TypeOKIs DEF Numbers, FromClient, ClientTyped
    <3>2. x.nr <= c
      BY <1>1, <1>7, <3>1 DEF NumberBounds
    <3> QED BY <1>3, <1>4, <3>1, <3>2 DEF Carries
  <2>2. CASE x \in Unanswered(sent, acked', clientNr')
    <3>1. PICK i \in a + 1 .. Len(sent) : x = [ns |-> i, nr |-> c, type |-> sent[i]]
      BY <1>3, <2>2 DEF Unanswered
    <3>2. i \in Nat /\ 1 <= i /\ i <= Len(sent)
      BY <1>6, <3>1
    <3> QED BY <1>3, <1>4, <1>6, <1>7, <3>1, <3>2 DEF Carries
  <2>3. CASE x \in ack
    BY <1>3, <1>4, <1>6, <1>7, <2>3 DEF Carries
  <2>4. x \in toServer \/ x \in Unanswered(sent, acked', clientNr') \/ x \in ack
    BY <1>5, TransmitOnly
  <2> QED BY <2>1, <2>2, <2>3, <2>4
<1>10. FromClient'
  BY <1>4, <1>9 DEF Numbers, FromClient, Carries
<1>11. FromServer'
  BY <1>4 DEF Numbers, FromServer
<1>12. KeptUntilReceived'
  <2>1. \A n \in c .. NextNs - 1 : n \in clientNr .. NextNs - 1
    BY <1>1, <1>7 DEF NumberBounds
  <2> QED BY <1>3, <1>4, <2>1 DEF Numbers, KeptUntilReceived
<1>13. HandledPrefix'
  BY <1>4 DEF Numbers, HandledPrefix
<1> QED BY <1>8, <1>10, <1>11, <1>12, <1>13 DEF Numbers

LEMMA NewTunnelNumbers ==
  ASSUME TypeOK, Counted, Numbers, NewL2TPTunnel
  PROVE  Numbers'
<1>1. NumberBounds
  BY Bounds DEF Numbers
<1>2. /\ tunnel = "none" /\ NextNs' = NextNs + 1
      /\ SendQueue' = {[ns |-> NextNs, type |-> "SCCRP"]}
      /\ toClient' = Transmit(toClient, Datagrams(SendQueue', LastNr))
      /\ UNCHANGED <<sent, acked, clientNr, toServer, LastNr, RecvQueue, handled>>
  BY <1>1, SuccIs DEF NewL2TPTunnel, ServerStep, clientVars, NumberBounds
<1>3. NextNs = 0
  BY <1>2, TypeOKIs DEF Counted, Count, ServerTyped
<1>4. Known' /\ FromClient' /\ HandledPrefix'
  BY <1>1, <1>2 DEF Numbers, Known, FromClient, HandledPrefix, Carries, NumberBounds
<1>5. ASSUME NEW x \in toClient'
      PROVE  x.nr <= LastNr' + 1 /\ (x.type # "ZLB" => x.ns < NextNs')
  <2>1. CASE x \in toClient
    <3>1. x.ns \in Nat /\ x.nr <= LastNr + 1 /\ (x.type # "ZLB" => x.ns < NextNs)
      BY <2>1, TypeOKIs DEF Numbers, FromServer, ClientTyped
    <3> QED BY <1>1, <1>2, <3>1 DEF NumberBounds
  <2>2. CASE x \in Datagrams(SendQueue', LastNr)
    <3>1. Succ(LastNr) = LastNr + 1
      BY <1>1, SuccIs DEF NumberBounds
    <3>2. x.ns = NextNs /\ x.nr = Succ(LastNr)
      <4>1. PICK q \in SendQueue' : x.ns = q.ns /\ x.nr = Succ(LastNr)
        BY <2>2, DatagramsAre
      <4> QED BY <1>2, <4>1
    <3> QED BY <1>1, <1>2, <3>1, <3>2 DEF NumberBounds
  <2> QED BY <1>2, <2>1, <2>2, TransmitOnly
<1>6. FromServer'
  <2>1. \A q \in SendQueue' : q.ns = NextNs
    BY <1>2
  <2>2. NextNs < NextNs'
    BY <1>1, <1>2 DEF NumberBounds
  <2> QED BY <1>5, <2>1, <2>2 DEF FromServer
<1>7. KeptUntilReceived'
  <2>1. \A n \in clientNr .. (NextNs + 1) - 1 : n = NextNs
    BY <1>1, <1>3 DEF NumberBounds
  <2>2. \A n \in clientNr .. (NextNs + 1) - 1 : \E q \in SendQueue' : q.ns = n
    BY <1>2, <2>1
  <2>3. clientNr' = clientNr /\ NextNs' = NextNs + 1
    BY <1>2
  <2> DEFINE next == NextNs + 1
  <2>4. \A n \in clientNr .. next - 1 : \E q \in SendQueue' : q.ns = n
    BY <2>2
  <2> HIDE DEF next
  <2>5. clientNr' = clientNr /\ NextNs' = next
    BY <2>3 DEF next
  <2> QED BY <2>4, <2>5 DEF KeptUntilReceived
<1> QED BY <1>4, <1>6, <1>7 DEF Numbers

LEMMA ProcControlNumbers ==
  ASSUME TypeOK, Counted, Numbers, NEW p \in toServer, ProcControlPacket(p)
  PROVE  Numbers'
<1>1. NumberBounds
  BY Bounds DEF Numbers
<1>2. /\ tunnel' = tunnel /\ tunnel = "up" /\ SendQueue' = Unacknowledged(p.nr)
      /\ UNCHANGED <<sent, acked, clientNr, toServer, toClient, NextNs, LastNr, handled>>
  BY DEF ProcControlPacket, ServerStep, clientVars
<1>3. /\ p.ns \in Nat /\ p.nr \in Nat /\ p.ns <= Len(sent) + 1 /\ p.nr <= clientNr /\ Carries(p)
      /\ Len(sent) \in Nat
  BY TypeOKIs DEF Numbers, FromClient, ClientTyped
<1>4. p.ns < 32768 /\ p.nr < 32768
  BY <1>1, <1>3 DEF NumberBounds
<1>5. Known' /\ HandledPrefix'
  BY <1>2 DEF Numbers, Known, HandledPrefix
<1>6. FromServer'
  BY <1>2 DEF Numbers, FromServer, Unacknowledged
<1>7. KeptUntilReceived'
  <2>1. SUFFICES ASSUME NEW n \in clientNr .. NextNs - 1
                 PROVE  \E q \in SendQueue' : q.ns = n
    BY <1>2 DEF KeptUntilReceived
  <2>2. PICK q \in SendQueue : q.ns = n
    BY <1>2 DEF Numbers, KeptUntilReceived
  <2>3. n \in Nat /\ n < 32768 /\ ~(n < p.nr)
    BY <1>1, <1>3 DEF NumberBounds
  <2>4. ~SeqLT(q.ns, p.nr)
    BY <1>3, <1>4, <2>2, <2>3, SeqLTIs
  <2> QED BY <1>2, <2>2, <2>4 DEF Unacknowledged
<1>8. CASE RecvQueue' = RecvQueue
  <2>1. FromClient'
    BY <1>2, <1>8 DEF Numbers, FromClient, Carries
  <2> QED BY <1>5, <1>6, <1>7, <2>1 DEF Numbers
<1>9. CASE RecvQueue' # RecvQueue
  <2> DEFINE e == [ns |-> p.ns, type |-> p.type]
  <2>1. RecvQueue' = RecvQueue \cup {e} /\ Newer(p.ns) /\ \A q \in RecvQueue : q.ns # p.ns
    BY <1>9 DEF ProcControlPacket
  <2>2. LastNr < p.ns
    BY <1>1, <1>3, <1>4, <2>1, SeqLTIs DEF Newer, NumberBounds
  <2>3. LastNr < e.ns /\ e.ns <= Len(sent) + 1 /\ Carries(e)
    BY <1>3, <2>2 DEF Carries
  <2>4. \A q \in RecvQueue' : LastNr < q.ns /\ q.ns <= Len(sent) + 1 /\ Carries(q)
    BY <2>1, <2>3 DEF Numbers, FromClient
  <2>5. \A q, r \in RecvQueue' : q.ns = r.ns => q = r
    BY <2>1 DEF Numbers, FromClient
  <2>6. FromClient'
    BY <1>2, <2>4, <2>5 DEF Numbers, FromClient, Carries
  <2> QED BY <1>5, <1>6, <1>7, <2>6 DEF Numbers
<1> QED BY <1>8, <1>9

LEMMA ReadHeadNumbers ==
  ASSUME TypeOK, Counted, Numbers, NEW q \in RecvQueue, ReadHead(q)
  PROVE  Numbers'
<1>1. NumberBounds
  BY Bounds DEF Numbers
<1>2. /\ tunnel' = tunnel /\ tunnel = "up" /\ RecvQueue' = RecvQueue \ {q} /\ LastNr' = Advance(q)
      /\ handled' = IF q.type = "ZLB" THEN handled ELSE Append(handled, q.type)
      /\ toClient' = Transmit(toClient, Datagrams(SendQueue' \ SendQueue, LastNr'))
      /\ UNCHANGED <<sent, acked, clientNr, toServer>>
  BY DEF ReadHead, ServerStep, clientVars
<1>3. q.ns = LastNr + 1 /\ q.ns <= Len(sent) + 1 /\ Carries(q) /\ Len(sent) \in Nat
  <2>1. Succ(LastNr) = LastNr + 1
    BY <1>1, SuccIs DEF NumberBounds
  <2>2. q.ns = Succ(LastNr)
    BY DEF ReadHead, Ready
  <2>3. q.ns <= Len(sent) + 1 /\ Carries(q)
    BY DEF Numbers, FromClient
  <2>4. Len(sent) \in Nat
    BY TypeOKIs DEF ClientTyped
  <2> QED BY <2>1, <2>2, <2>3, <2>4
<1>4. \/ NextNs' = NextNs /\ SendQueue' = SendQueue
      \/ NextNs' = NextNs + 1 /\ SendQueue' = SendQueue \cup {[ns |-> NextNs, type |-> "ICRP"]}
  BY <1>1, SuccIs DEF ReadHead, NumberBounds
<1> DEFINE l == Advance(q)
<1>5. /\ l \in Nat /\ LastNr <= l /\ l <= LastNr + 1 /\ l <= Len(sent) /\ l < 32768
      /\ q.type = "ZLB" => l = LastNr
      /\ q.type # "ZLB" => l = LastNr + 1
  BY <1>1, <1>3 DEF Advance, NumberBounds, Carries, Numbers, Known
<1> HIDE DEF l
<1>6. LastNr' = l
  BY <1>2 DEF l
<1>7. Known'
  <2>1. NextNs' >= clientNr
    BY <1>1, <1>4 DEF NumberBounds, Numbers, Known
  <2> QED BY <1>1, <1>2, <1>5, <1>6, <2>1 DEF NumberBounds, Numbers, Known
<1>8. FromClient'
  <2>1. ASSUME NEW r \in RecvQueue' PROVE l < r.ns /\ r.ns <= Len(sent) + 1 /\ Carries(r)
    <3>1. r \in RecvQueue /\ r # q /\ r.ns \in Nat
      BY <1>2, TypeOKIs DEF ServerTyped
    <3>2. LastNr < r.ns /\ r.ns # q.ns /\ r.ns <= Len(sent) + 1 /\ Carries(r)
      BY <3>1 DEF Numbers, FromClient
    <3> QED BY <1>1, <1>3, <1>5, <3>1, <3>2 DEF NumberBounds
  <2> QED BY <1>2, <1>6, <2>1 DEF Numbers, FromClient, Carries
<1>9. ASSUME NEW x \in toClient'
      PROVE  x.nr <= l + 1 /\ (x.type # "ZLB" => x.ns < NextNs')
  <2>1. CASE x \in toClient
    <3>1. x.ns \in Nat /\ x.nr \in Nat /\ x.nr <= LastNr + 1 /\ (x.type # "ZLB" => x.ns < NextNs)
      BY <2>1, TypeOKIs DEF Numbers, FromServer, ClientTyped
    <3> QED BY <1>1, <1>4, <1>5, <3>1 DEF NumberBounds
  <2>2. CASE x \in Datagrams(SendQueue' \ SendQueue, LastNr')
    <3>1. x.ns = NextNs /\ NextNs' = NextNs + 1 /\ x.nr = l + 1
      BY <1>4, <1>5, <1>6, <2>2, DatagramsAre, SuccIs
    <3> QED BY <1>1, <1>5, <3>1 DEF NumberBounds
  <2> QED BY <1>2, <2>1, <2>2, TransmitOnly
<1>10. FromServer'
  <2>1. ASSUME NEW r \in SendQueue' PROVE r.ns < NextNs'
    <3>1. r \in SendQueue => r.ns \in Nat /\ r.ns < NextNs
      BY TypeOKIs DEF Numbers, FromServer, ServerTyped
    <3> QED BY <1>1, <1>4, <2>1, <3>1 DEF NumberBounds
  <2> QED BY <1>6, <1>9, <2>1 DEF FromServer
<1>11. KeptUntilReceived'
  <2>1. CASE NextNs' = NextNs /\ SendQueue' = SendQueue
    BY <1>2, <2>1 DEF Numbers, KeptUntilReceived
  <2>2. CASE NextNs' = NextNs + 1 /\ SendQueue' = SendQueue \cup {[ns |-> NextNs, type |-> "ICRP"]}
    <3>1. \A n \in clientNr .. (NextNs + 1) - 1 : n \in clientNr .. NextNs - 1 \/ n = NextNs
      BY <1>1 DEF NumberBounds
    <3>2. \A n \in clientNr .. (NextNs + 1) - 1 : \E r \in SendQueue' : r.ns = n
      <4>1. \E r \in SendQueue' : r.ns = NextNs
        <5>1. [ns |-> NextNs, type |-> "ICRP"] \in SendQueue'
          BY <2>2
        <5>2. [ns |-> NextNs, type |-> "ICRP"].ns = NextNs
          OBVIOUS
        <5> QED BY <5>1, <5>2
      <4>2. \A n \in clientNr .. NextNs - 1 : \E r \in SendQueue' : r.ns = n
        BY <1>2, <2>2 DEF Numbers, KeptUntilReceived
      <4> QED BY <3>1, <4>1, <4>2
    <3>3. clientNr' = clientNr /\ NextNs' = NextNs + 1
      BY <1>2, <2>2
    <3> DEFINE next == NextNs + 1
    <3>4. \A n \in clientNr .. next - 1 : \E r \in SendQueue' : r.ns = n
      BY <3>2
    <3> HIDE DEF next
    <3>5. clientNr' = clientNr /\ NextNs' = next
      BY <3>3 DEF next
    <3> QED BY <3>4, <3>5 DEF KeptUntilReceived
  <2> QED BY <1>4, <2>1, <2>2
<1>12. HandledPrefix'
  <2>1. CASE q.type = "ZLB"
    BY <1>2, <1>5, <1>6, <2>1 DEF Numbers, HandledPrefix
  <2>2. CASE q.type # "ZLB"
    <3>1. handled \in Seq(ClientMessages) /\ q.type = sent[LastNr + 1]
      BY <1>3, <2>2, TypeOKIs DEF Carries, ServerTyped
    <3>2. handled' = Append(handled, q.type) /\ l = LastNr + 1 /\ Len(handled) = LastNr
      BY <1>2, <1>5, <2>2 DEF Numbers, HandledPrefix
    <3>3. Len(handled') = LastNr + 1
      BY <3>1, <3>2
    <3>4. \A i \in 1 .. LastNr + 1 : handled'[i] = sent[i]
      BY <1>1, <3>1, <3>2 DEF Numbers, HandledPrefix, NumberBounds
    <3> QED BY <1>2, <1>6, <3>2, <3>3, <3>4 DEF HandledPrefix
  <2> QED BY <2>1, <2>2
<1> QED BY <1>7, <1>8, <1>10, <1>11, <1>12 DEF Numbers

LEMMA InterruptNumbers ==
  ASSUME TypeOK, Counted, Numbers, NEW timers \in SUBSET Timers, L2TPProcessInterrupts(timers)
  PROVE  Numbers'
<1>1. NumberBounds
  BY Bounds DEF Numbers
<1>2. /\ tunnel = "up" /\ NextNs' = NsAfter(timers)
      /\ SendQueue' = SendQueue \cup NewMessages(timers)
      /\ toClient' = Transmit(toClient, Datagrams(Sends(timers), LastNr))
      /\ UNCHANGED <<sent, acked, clientNr, toServer, LastNr, RecvQueue, handled>>
  BY DEF L2TPProcessInterrupts, clientVars
<1>3. /\ NsAfter(timers) \in Nat /\ NextNs <= NsAfter(timers)
      /\ \A q \in NewMessages(timers) : q.ns < NsAfter(timers)
      /\ \A n \in NextNs .. NsAfter(timers) - 1 : \E q \in NewMessages(timers) : q.ns = n
  BY <1>1, NewNumbers, NewMessagesType DEF NumberBounds
<1>4. Known' /\ FromClient' /\ HandledPrefix'
  BY <1>1, <1>2, <1>3 DEF Numbers, Known, FromClient, HandledPrefix, Carries, NumberBounds
<1>5. \A q \in SendQueue : q.ns < NsAfter(timers)
  <2>1. \A q \in SendQueue : q.ns \in Nat /\ q.ns < NextNs
    BY TypeOKIs DEF Numbers, FromServer, ServerTyped
  <2> QED BY <1>1, <1>3, <2>1 DEF NumberBounds
<1>6. ASSUME NEW x \in toClient'
      PROVE  x.nr <= LastNr + 1 /\ (x.type # "ZLB" => x.ns < NsAfter(timers))
  <2>1. CASE x \in toClient
    <3>1. x.ns \in Nat /\ x.nr <= LastNr + 1 /\ (x.type # "ZLB" => x.ns < NextNs)
      BY <2>1, TypeOKIs DEF Numbers, FromServer, ClientTyped
    <3> QED BY <1>1, <1>3, <3>1 DEF NumberBounds
  <2>2. CASE x \in Datagrams(Sends(timers), LastNr)
    <3>1. PICK q \in Sends(timers) : x.ns = q.ns /\ x.type = q.type /\ x.nr = Succ(LastNr)
      BY <2>2, DatagramsAre
    <3>2. x.nr = LastNr + 1
      BY <1>1, <3>1, SuccIs DEF NumberBounds
    <3>3. q \in NewMessages(timers) \/ q \in SendQueue \/ q.type = "ZLB"
      BY DEF Sends
    <3> QED BY <1>1, <1>3, <1>5, <3>1, <3>2, <3>3 DEF NumberBounds
  <2> QED BY <1>2, <2>1, <2>2, TransmitOnly
<1>7. FromServer'
  BY <1>2, <1>3, <1>5, <1>6 DEF FromServer
<1>8. KeptUntilReceived'
  <2>1. \A n \in clientNr .. NsAfter(timers) - 1 :
          n \in clientNr .. NextNs - 1 \/ n \in NextNs .. NsAfter(timers) - 1
    BY <1>1, <1>3 DEF NumberBounds
  <2>2. \A n \in clientNr .. NsAfter(timers) - 1 : \E q \in SendQueue' : q.ns = n
    BY <1>2, <1>3, <2>1 DEF Numbers, KeptUntilReceived
  <2> QED BY <1>2, <2>2 DEF KeptUntilReceived
<1> QED BY <1>4, <1>7, <1>8 DEF Numbers

LEMMA NumbersKept == ASSUME TypeOK, Counted, Numbers, [Next]_vars PROVE Numbers'
<1>1. ASSUME UNCHANGED <<clientVars, toServer, toClient, tunnel, channelVars, handled>>
      PROVE  Numbers'
  BY <1>1 DEF clientVars, channelVars, Numbers, Known, FromClient, FromServer, HandledPrefix,
     Carries, KeptUntilReceived
<1>2. CASE ProcDataPacket
  BY <1>1, <1>2 DEF ProcDataPacket, ServerStep
<1>3. CASE InterruptsWithoutTunnel
  BY <1>1, <1>3 DEF InterruptsWithoutTunnel
<1>4. CASE PppEnds \/ StopL2TPServer \/ StopThreadList
  BY <1>1, <1>4 DEF PppEnds, StopL2TPServer, StopThreadList, Elsewhere
<1>5. CASE UNCHANGED vars
  BY <1>1, <1>5 DEF vars
<1>6. ASSUME ClientNext PROVE Numbers'
  BY <1>6, ClientSendNumbers, ClientReceiveNumbers DEF ClientNext
<1>7. ASSUME Interrupts PROVE Numbers'
  BY <1>3, <1>7, InterruptNumbers DEF Interrupts
<1>8. ASSUME ServerNext PROVE Numbers'
  BY <1>2, <1>4, <1>7, <1>8, NewTunnelNumbers, ProcControlNumbers, ReadHeadNumbers DEF ServerNext
<1> QED BY <1>5, <1>6, <1>8 DEF Next

-----------------------------------------------------------------------------

IInv == TypeOK /\ Life /\ Counted /\ Numbers

\* The inductive invariant: types, the thread's dependence on its session, and numbers.
THEOREM Inductive == Spec => []IInv
<1>1. Init => Life /\ Counted /\ Numbers
  <2> SUFFICES ASSUME Init PROVE Life /\ Counted /\ Numbers
    OBVIOUS
  <2>1. Life
    BY DEF Init, Life, SessionToldWithTunnel, ThreadOfSession
  <2>2. Counted
    BY DEF Init, Counted, Count
  <2>3. Numbers
    BY L2TPAssumption DEF Init, Numbers, Known, FromClient, FromServer, HandledPrefix,
       KeptUntilReceived
  <2> QED BY <2>1, <2>2, <2>3
<1>2. TypeOK /\ TypeOK' /\ Life /\ Counted /\ Numbers /\ [Next]_vars => (Life /\ Counted /\ Numbers)'
  BY LifeKept, CountedKept, NumbersKept DEF Numbers
<1> QED BY <1>1, <1>2, TypeCorrect, PTL DEF Spec, IInv

\* A message stays in the retransmission queue until the client has received it.
THEOREM KeptCorrect == Spec => []KeptUntilReceived
<1>1. IInv => KeptUntilReceived
  BY DEF IInv, Numbers
<1> QED BY <1>1, Inductive, PTL

\* The packets that came early have different numbers behind the one that is due, up
\* to the number the client's next message will have.
THEOREM RoomCorrect == Spec => []RoomForNext
<1>1. IInv => RoomForNext
  <2> SUFFICES ASSUME IInv, ~Busy, LastNr < Len(sent), Len(sent) - LastNr < WindowSize
               PROVE  Cardinality(RecvQueue) < WindowSize
    BY DEF RoomForNext
  <2>1. NumberBounds /\ Len(sent) \in Nat /\ WindowSize \in Nat
    BY Bounds, TypeOKIs, L2TPAssumption DEF IInv, Numbers, ClientTyped
  <2> DEFINE early == LastNr + 2 .. Len(sent) + 1
             f == [q \in RecvQueue |-> q.ns]
  <2>2. ASSUME NEW q \in RecvQueue PROVE q.ns \in early
    <3>1. q.ns \in Nat /\ LastNr < q.ns /\ q.ns <= Len(sent) + 1
      BY TypeOKIs DEF IInv, Numbers, FromClient, ServerTyped
    <3>2. q.ns # LastNr + 1
      BY <2>1, SuccIs DEF Busy, Ready, NumberBounds
    <3> QED BY <2>1, <3>1, <3>2 DEF NumberBounds
  <2>3. f \in Injection(RecvQueue, early)
    <3>1. f \in [RecvQueue -> early]
      BY <2>2
    <3>2. \A q, r \in RecvQueue : f[q] = f[r] => q = r
      BY DEF IInv, Numbers, FromClient
    <3> QED BY <3>1, <3>2 DEF Injection, IsInjective
  <2>4. IsFiniteSet(early) /\ Cardinality(early) = Len(sent) - LastNr
    <3>1. LastNr + 2 \in Int /\ Len(sent) + 1 \in Int
      BY <2>1 DEF NumberBounds
    <3>2. IsFiniteSet(early) /\ Cardinality(early) =
            IF LastNr + 2 > Len(sent) + 1 THEN 0 ELSE (Len(sent) + 1) - (LastNr + 2) + 1
      BY <3>1, FS_Interval
    <3> QED BY <2>1, <3>2 DEF NumberBounds
  <2> HIDE DEF early, f
  <2>5. IsFiniteSet(RecvQueue) /\ Cardinality(RecvQueue) <= Cardinality(early)
    BY <2>3, <2>4, FS_Injection
  <2>6. Cardinality(RecvQueue) \in Nat /\ Cardinality(early) \in Nat
    BY <2>4, <2>5, FS_CardinalityType
  <2> QED BY <2>1, <2>4, <2>5, <2>6 DEF NumberBounds
<1> QED BY <1>1, Inductive, PTL

\* No PPP thread is left behind by its session or by the server, except a late one.
THEOREM NoOrphanCorrect == Spec => []NoOrphan
<1>1. IInv => NoOrphan
  <2> SUFFICES ASSUME IInv PROVE NoOrphan
    OBVIOUS
  <2>1. ppp \in {"none", "running", "ended", "stopped", "orphan"}
    BY TypeOKIs DEF IInv, ServerTyped
  <2> QED BY <2>1 DEF IInv, Life, ThreadOfSession, NoOrphan
<1> QED BY <1>1, Inductive, PTL

\* The channel implements a first-in first-out channel: messages are handled in the
\* order they were sent, once each.
THEOREM InOrderCorrect == Spec => InOrder
<1>1. Init => Channel!Init
  BY DEF Init, Channel!Init
<1>2. ASSUME IInv, [Next]_vars PROVE [Channel!Next]_<<sent, handled>>
  <2> USE DEF Channel!Next, Channel!Send, Channel!Handle
  <2>1. ASSUME NEW m \in ClientMessages, ClientSend(m) PROVE Channel!Next
    BY <2>1 DEF ClientSend, ClientStep
  <2>2. ASSUME NEW p \in toClient, ClientReceive(p) PROVE UNCHANGED <<sent, handled>>
    BY <2>2 DEF ClientReceive, ClientStep
  <2>3. ASSUME NEW q \in RecvQueue, ReadHead(q) PROVE [Channel!Next]_<<sent, handled>>
    <3>1. sent' = sent
      BY <2>3 DEF ReadHead, ServerStep, clientVars
    <3>2. CASE q.type = "ZLB"
      BY <2>3, <3>1, <3>2 DEF ReadHead
    <3>3. CASE q.type # "ZLB"
      <4>1. handled' = Append(handled, q.type)
        BY <2>3, <3>3 DEF ReadHead
      <4>2. q.ns = LastNr + 1 /\ q.ns <= Len(sent) /\ q.type = sent[q.ns] /\ Len(sent) \in Nat
        <5>1. LastNr \in Nat /\ LastNr < 32768 /\ Len(sent) \in Nat
          BY <1>2, Bounds, TypeOKIs DEF IInv, Numbers, NumberBounds, ClientTyped
        <5>2. q.ns = LastNr + 1
          BY <2>3, <5>1, SuccIs DEF ReadHead, Ready
        <5>3. Carries(q)
          BY <1>2 DEF IInv, Numbers, FromClient
        <5> QED BY <3>3, <5>1, <5>2, <5>3 DEF Carries
      <4>3. Len(handled) = LastNr /\ LastNr \in Nat
        <5>1. LastNr \in Nat
          BY <1>2, TypeOKIs DEF IInv, ServerTyped
        <5>2. Len(handled) = LastNr
          BY <1>2 DEF IInv, Numbers, HandledPrefix
        <5> QED BY <5>1, <5>2
      <4> QED BY <3>1, <4>1, <4>2, <4>3
    <3> QED BY <3>2, <3>3
  <2>4. NewL2TPTunnel => UNCHANGED <<sent, handled>>
    BY DEF NewL2TPTunnel, ServerStep, clientVars
  <2>5. \A p \in toServer : ProcControlPacket(p) => UNCHANGED <<sent, handled>>
    BY DEF ProcControlPacket, ServerStep, clientVars
  <2>6. ProcDataPacket => UNCHANGED <<sent, handled>>
    BY DEF ProcDataPacket, ServerStep, clientVars
  <2>7. Interrupts => UNCHANGED <<sent, handled>>
    BY DEF Interrupts, InterruptsWithoutTunnel, L2TPProcessInterrupts, clientVars
  <2>8. PppEnds \/ StopL2TPServer \/ StopThreadList => UNCHANGED <<sent, handled>>
    BY DEF PppEnds, StopL2TPServer, StopThreadList, Elsewhere, clientVars
  <2>9. CASE UNCHANGED vars
    BY <2>9 DEF vars, clientVars
  <2> HIDE DEF Channel!Next
  <2>10. ASSUME ClientNext PROVE [Channel!Next]_<<sent, handled>>
    BY <2>1, <2>2, <2>10 DEF ClientNext
  <2>11. ASSUME ServerNext PROVE [Channel!Next]_<<sent, handled>>
    BY <2>3, <2>4, <2>5, <2>6, <2>7, <2>8, <2>11 DEF ServerNext
  <2>12. Next \/ UNCHANGED vars
    BY <1>2
  <2>13. CASE Next
    BY <2>10, <2>11, <2>13 DEF Next
  <2> QED BY <2>9, <2>12, <2>13
<1> QED BY <1>1, <1>2, Inductive, PTL DEF Spec, InOrder, Channel!Spec
=============================================================================
