---------------------------- MODULE L2TPControl ----------------------------
(***************************************************************************)
(* An L2TP tunnel of the server (Cedar/Proto_L2TP.c): the control channel     *)
(* with its sequence numbers, retransmission and reordering over a network    *)
(* that loses, duplicates and reorders packets, and the life of the tunnel,   *)
(* its session and the PPP thread behind it, until the server is stopped.      *)
(*                                                                           *)
(* The client is external: it numbers its messages, retransmits what was not  *)
(* acknowledged, keeps at most ClientWindow messages under way and accepts     *)
(* the server's messages in order.  The thread of the server receives packets *)
(* (ProcL2TPPacketRecv) and runs L2TPProcessInterrupts by turns; another       *)
(* thread calls StopL2TPServer.                                               *)
(***************************************************************************)
EXTENDS Integers, FiniteSets, Sequences

CONSTANTS
  WindowSize,    \* L2TP_WINDOW_SIZE, 16
  ClientWindow,  \* messages a client has under way at a time
  MaxSent,       \* bound: messages of the client
  MaxHello       \* bound: Hello messages of the server

\* Numbers do not come close to wrapping.  A tunnel that lives for days would pass this,
\* by its Hello messages alone.
ASSUME L2TPAssumption ==
  /\ {WindowSize, ClientWindow, MaxSent, MaxHello} \subseteq Nat
  /\ MaxSent + MaxHello + 8 < 32768

ClientMessages == {"SCCCN", "ICRQ", "ICCN", "CDN", "STOPCCN"}
ServerMessages == {"SCCRP", "ICRP", "CDN", "STOPCCN", "HELLO"}
Packet(types) == [ns : Nat, nr : Nat, type : types \cup {"ZLB"}]
Queued(types) == [ns : Nat, type : types \cup {"ZLB"}]

VARIABLES
  sent, acked, clientNr, got,   \* client: messages sent, how many are acknowledged,
                                \* the Ns it expects next, the messages it received
  toServer, toClient,           \* packets under way
  tunnel,                       \* "none", "up" or "freed"
  NextNs, LastNr, SendQueue, RecvQueue, StateChanged,
  tunnelFlags,    \* Established, WantToDisconnect and Disconnecting of the tunnel
  session,        \* "none", "up" or "freed"
  sessionFlags,   \* Established, WantToDisconnect and Disconnecting of the session
  HasThread,      \* of the session
  ppp,            \* the PPP thread: "none", "running", "ended", in the list of "stopped"
                  \* threads, or running as an "orphan" of a session that was freed
  Halt, Halting, HaltCompleted, stopped,   \* the server; StopL2TPServer has returned
  hellos,
  handled,        \* history: what L2TPProcessRecvControlPacket was given
  late            \* history: the session was established in a tunnel told to disconnect

clientVars == <<sent, acked, clientNr, got>>
channelVars == <<NextNs, LastNr, SendQueue, RecvQueue, StateChanged>>
sessionVars == <<session, sessionFlags, HasThread>>
serverVars == <<Halt, Halting, HaltCompleted, stopped>>
vars == <<clientVars, toServer, toClient, tunnel, channelVars, tunnelFlags, sessionVars,
          ppp, serverVars, hellos, handled, late>>

Init ==
  /\ sent = <<>> /\ acked = 0 /\ clientNr = 0 /\ got = {}
  /\ toServer = {} /\ toClient = {} /\ tunnel = "none"
  /\ NextNs = 0 /\ LastNr = 0 /\ SendQueue = {} /\ RecvQueue = {} /\ StateChanged = FALSE
  /\ tunnelFlags = {} /\ session = "none" /\ sessionFlags = {} /\ HasThread = FALSE
  /\ ppp = "none"
  /\ Halt = FALSE /\ Halting = FALSE /\ HaltCompleted = FALSE /\ stopped = FALSE
  /\ hellos = 0 /\ handled = <<>> /\ late = FALSE

-----------------------------------------------------------------------------
(* Sequence numbers and the network *)

\* L2TP_SEQ_LT, and the addition of USHORTs
SeqLT(m, n) == (m - n) % 65536 >= 32768
Succ(n) == (n + 1) % 65536

\* A packet that was sent may arrive at any time, more than once, or never.  Of the
\* packets of one number and type, which differ in their Nr, the last is kept.
Transmit(net, packets) ==
  packets \cup {p \in net : \A q \in packets : <<q.ns, q.type>> # <<p.ns, p.type>>}

\* SendL2TPControlPacketMain: the Nr of a message is that of the moment it is sent.
Datagrams(queue, last) == {[ns |-> q.ns, nr |-> Succ(last), type |-> q.type] : q \in queue}
-----------------------------------------------------------------------------
(* The client *)

\* Nobody listens to it after the tunnel is freed.
ClientStep ==
  /\ tunnel # "freed"
  /\ UNCHANGED <<tunnel, channelVars, tunnelFlags, sessionVars, ppp, serverVars, hellos,
                 handled, late>>

Has(m) == \E i \in 1 .. Len(sent) : sent[i] = m

\* The order a client keeps to.
MaySend(m) ==
  /\ ~Has("STOPCCN")
  /\ m = "SCCCN" <=> sent = <<>>
  /\ m \in {"SCCCN", "ICRQ", "ICCN", "CDN"} => ~Has(m)
  /\ m = "SCCCN" => "SCCRP" \in got
  /\ m = "ICCN" => "ICRP" \in got
  /\ m = "CDN" => Has("ICCN")

\* What it sends, and sends again until it is acknowledged.
Unanswered(messages, first, nr) ==
  {[ns |-> i, nr |-> nr, type |-> messages[i]] : i \in first + 1 .. Len(messages)}

\* The client sends its next message.  Its first, SCCRQ with Ns = 0, made the tunnel.
ClientSend(m) ==
  /\ Len(sent) < MaxSent /\ Len(sent) - acked < ClientWindow /\ MaySend(m)
  /\ sent' = Append(sent, m)
  /\ UNCHANGED <<acked, clientNr, got, toClient>> /\ ClientStep
  /\ toServer' = Transmit(toServer, Unanswered(sent', acked, clientNr))

\* A packet of the server comes in: it acknowledges, and is taken if it is the next
\* one; what is no acknowledgement itself is acknowledged.
ClientReceive(p) ==
  /\ p \in toClient
  /\ acked' = IF p.nr - 1 > acked THEN p.nr - 1 ELSE acked
  /\ IF p.type # "ZLB" /\ p.ns = clientNr
     THEN clientNr' = clientNr + 1 /\ got' = got \cup {p.type}
     ELSE UNCHANGED <<clientNr, got>>
  /\ UNCHANGED <<sent, toClient>> /\ ClientStep
  /\ toServer' = Transmit(toServer, Unanswered(sent, acked', clientNr') \cup
       IF p.type = "ZLB" THEN {} ELSE {[ns |-> Len(sent) + 1, nr |-> clientNr', type |-> "ZLB"]})
-----------------------------------------------------------------------------
(* ProcL2TPPacketRecv *)

\* The head of the reception queue is the next message: it is read before anything
\* else is done.
Ready(q) == q \in RecvQueue /\ q.ns = Succ(LastNr)
Busy == \E q \in RecvQueue : Ready(q)

ServerStep == UNCHANGED <<clientVars, toServer, hellos, stopped, Halt>>

\* SCCRQ makes the tunnel, which answers SCCRP.  A tunnel that exists is not made again.
NewL2TPTunnel ==
  /\ tunnel = "none" /\ ~Halt /\ tunnel' = "up"
  /\ NextNs' = Succ(NextNs) /\ SendQueue' = {[ns |-> NextNs, type |-> "SCCRP"]}
  /\ UNCHANGED LastNr /\ toClient' = Transmit(toClient, Datagrams(SendQueue', LastNr))
  /\ UNCHANGED <<RecvQueue, StateChanged, tunnelFlags, sessionVars, ppp, Halting,
                 HaltCompleted, handled, late>>
  /\ ServerStep

\* Mutant: the next message counts as acknowledged as well.
UnacknowledgedButOne(nr) == {q \in SendQueue : SeqLT(nr, q.ns)}

\* What the client has not acknowledged with Nr.
Unacknowledged(nr) == {q \in SendQueue : ~SeqLT(q.ns, nr)}

\* Mutant: messages are queued under their numbers, whether they were read before or not.
NewerOrEqual(ns) == ~SeqLT(ns, LastNr)

Newer(ns) == ~SeqLT(ns, LastNr) /\ ns # LastNr

\* A control packet: acknowledged messages leave the retransmission queue; a newer
\* one is queued if there is room and its number is not queued yet; an older one is
\* acknowledged again.
ProcControlPacket(p) ==
  /\ tunnel = "up" /\ ~Busy /\ p \in toServer
  /\ SendQueue' = Unacknowledged(p.nr)
  /\ RecvQueue' =
       IF /\ Newer(p.ns) /\ Cardinality(RecvQueue) < WindowSize
          /\ \A q \in RecvQueue : q.ns # p.ns
       THEN RecvQueue \cup {[ns |-> p.ns, type |-> p.type]}
       ELSE RecvQueue
  /\ StateChanged' = (StateChanged \/ (~Newer(p.ns) /\ p.type # "ZLB"))
  /\ UNCHANGED <<tunnel, NextNs, LastNr, toClient, tunnelFlags, sessionVars, ppp, Halting,
                 HaltCompleted, handled, late>>
  /\ ServerStep

\* L2TPProcessRecvControlPacket: the flags a message sets.
Tunnel(type) ==
  IF type = "SCCCN" /\ ~Halt /\ "Disconnecting" \notin tunnelFlags
  THEN tunnelFlags \cup {"Established"}
  ELSE IF type = "STOPCCN" /\ "Established" \in tunnelFlags
          /\ "Disconnecting" \notin tunnelFlags
       THEN tunnelFlags \cup {"WantToDisconnect"}
       ELSE tunnelFlags

\* DisconnectL2TPSession, for a session that is established
ToldToDisconnect(flags) ==
  IF "Established" \in flags THEN flags \cup {"WantToDisconnect"} ELSE flags

Creates(type) ==
  /\ type = "ICRQ" /\ session = "none" /\ ~Halt
  /\ "Established" \in tunnelFlags /\ "WantToDisconnect" \notin tunnelFlags

\* DisconnectL2TPTunnel takes effect once.
TellsSessions(type) ==
  /\ type = "STOPCCN" /\ "Established" \in tunnelFlags
  /\ tunnelFlags \cap {"WantToDisconnect", "Disconnecting"} = {}

Session(type) ==
  IF session # "up" THEN sessionFlags
  ELSE IF type = "ICCN" /\ sessionFlags \cap {"Established", "Disconnecting"} = {}
       THEN sessionFlags \cup {"Established"}
       ELSE IF type = "CDN" \/ TellsSessions(type)
            THEN ToldToDisconnect(sessionFlags)
            ELSE sessionFlags

\* Mutant: an acknowledgement without a message counts as a message.
AdvanceAlways(q) == q.ns

Advance(q) == IF q.type = "ZLB" THEN LastNr ELSE q.ns

\* One turn of the loop that reads the queue to the end of what is complete.
ReadHead(q) ==
  /\ tunnel = "up" /\ Ready(q)
  /\ RecvQueue' = RecvQueue \ {q}
  /\ LET new == Creates(q.type)
     IN /\ LastNr' = Advance(q)
        /\ StateChanged' = (StateChanged \/ q.type # "ZLB")
        /\ handled' = IF q.type = "ZLB" THEN handled ELSE Append(handled, q.type)
        /\ tunnelFlags' = Tunnel(q.type)
        /\ sessionFlags' = Session(q.type)
        /\ session' = IF new THEN "up" ELSE session
        /\ late' = (late \/ ("Established" \in sessionFlags' \ sessionFlags
                             /\ "WantToDisconnect" \in tunnelFlags))
        /\ NextNs' = IF new THEN Succ(NextNs) ELSE NextNs
        /\ SendQueue' = IF new THEN SendQueue \cup {[ns |-> NextNs, type |-> "ICRP"]}
                        ELSE SendQueue
        /\ toClient' = Transmit(toClient, Datagrams(SendQueue' \ SendQueue, LastNr'))
  /\ UNCHANGED <<tunnel, HasThread, ppp, Halting, HaltCompleted>>
  /\ ServerStep

\* A data packet of an established session starts its PPP thread (StartL2TPThread).
ProcDataPacket ==
  /\ tunnel = "up" /\ ~Busy /\ Has("ICCN")
  /\ session = "up" /\ "Established" \in sessionFlags /\ ~HasThread
  /\ HasThread' = TRUE /\ ppp' = "running"
  /\ UNCHANGED <<tunnel, channelVars, tunnelFlags, session, sessionFlags, toClient, Halting,
                 HaltCompleted, handled, late>>
  /\ ServerStep
-----------------------------------------------------------------------------
(* L2TPProcessInterrupts *)

\* The 60 seconds without a packet, the interval of Hello, and the 3 seconds that a
\* session and a tunnel have to disconnect, where their passing matters.
Timers ==
  {t \in {"expired", "hello", "sessionLate", "tunnelLate"} :
     /\ t = "expired" => tunnelFlags \cap {"WantToDisconnect", "Disconnecting"} = {}
     /\ t = "hello" => "Established" \in tunnelFlags /\ hellos < MaxHello
     /\ t = "sessionLate" => "Disconnecting" \in sessionFlags
     /\ t = "tunnelLate" => "Disconnecting" \in tunnelFlags}

\* DisconnectL2TPTunnel, once, when the server stops or the time is over.
Disconnects(timers) ==
  /\ (Halt /\ ~Halting) \/ "expired" \in timers
  /\ tunnelFlags \cap {"WantToDisconnect", "Disconnecting"} = {}

\* The flags of the session when its turn comes.
FlagsInTurn(timers) ==
  IF session = "up" /\ (Disconnects(timers) \/ (HasThread /\ ppp = "ended"))
  THEN ToldToDisconnect(sessionFlags)
  ELSE sessionFlags

SendsCDN(timers) ==
  /\ session = "up"
  /\ "WantToDisconnect" \in FlagsInTurn(timers) /\ "Disconnecting" \notin sessionFlags
SendsSTOPCCN(timers) ==
  /\ "WantToDisconnect" \in tunnelFlags \/ Disconnects(timers)
  /\ "Disconnecting" \notin tunnelFlags

\* What an interrupt sends is numbered in this order: Hello, CDN, StopCCN.
NsOfCDN(timers) == IF "hello" \in timers THEN Succ(NextNs) ELSE NextNs
NsOfSTOPCCN(timers) == IF SendsCDN(timers) THEN Succ(NsOfCDN(timers)) ELSE NsOfCDN(timers)
NsAfter(timers) ==
  IF SendsSTOPCCN(timers) THEN Succ(NsOfSTOPCCN(timers)) ELSE NsOfSTOPCCN(timers)

NewMessages(timers) ==
  (IF "hello" \in timers THEN {[ns |-> NextNs, type |-> "HELLO"]} ELSE {})
  \cup (IF SendsCDN(timers) THEN {[ns |-> NsOfCDN(timers), type |-> "CDN"]} ELSE {})
  \cup (IF SendsSTOPCCN(timers) THEN {[ns |-> NsOfSTOPCCN(timers), type |-> "STOPCCN"]} ELSE {})

\* A session is deleted when the client has acknowledged everything, or is late ...
DeletesSession(timers) ==
  /\ session = "up" /\ "Disconnecting" \in sessionFlags
  /\ "sessionLate" \in timers \/ (SendQueue = {} /\ "hello" \notin timers)

\* Mutant: a tunnel waits for the client for ever.
DeletesTunnelInSync(timers) ==
  /\ "Disconnecting" \in tunnelFlags
  /\ SendQueue \cup NewMessages(timers) = {}
  /\ session # "up" \/ DeletesSession(timers)

\* ... and a tunnel likewise, without sessions unless the client is late.
DeletesTunnel(timers) ==
  /\ "Disconnecting" \in tunnelFlags
  /\ \/ /\ SendQueue \cup NewMessages(timers) = {}
        /\ session # "up" \/ DeletesSession(timers)
     \/ "tunnelLate" \in timers

\* What is sent for the first time, or again; or an acknowledgement.
Sends(timers) ==
  IF DeletesTunnel(timers) THEN NewMessages(timers)
  ELSE IF SendQueue \cup NewMessages(timers) = {} /\ StateChanged
       THEN {[ns |-> NextNs, type |-> "ZLB"]}
       ELSE SendQueue \cup NewMessages(timers)

\* Mutant: the thread of the session is left alone.
StopNoThread == UNCHANGED <<HasThread, ppp>>

\* StopL2TPThread: the thread is told to end and put in the list of threads.
StopL2TPThread ==
  /\ HasThread' = FALSE
  /\ ppp' = IF HasThread /\ ppp = "running" THEN "stopped" ELSE ppp

\* FreeL2TPTunnel and FreeL2TPSession free the memory and no more.
LoseThread(timers) ==
  /\ UNCHANGED HasThread
  /\ ppp' = IF DeletesTunnel(timers) /\ session = "up" /\ HasThread /\ ppp = "running"
            THEN "orphan" ELSE ppp

\* Mutant: a session that disconnects still counts as established.
StaysEstablished(flags) == flags \cup {"Disconnecting"}

StartsToDisconnect(flags) == (flags \ {"Established"}) \cup {"Disconnecting"}

L2TPProcessInterrupts(timers) ==
  LET cdn == SendsCDN(timers)
      stopccn == SendsSTOPCCN(timers)
      flags == FlagsInTurn(timers)
  IN /\ tunnel = "up" /\ ~Busy
     /\ Halting' = Halt
     /\ hellos' = IF "hello" \in timers THEN hellos + 1 ELSE hellos
     /\ sessionFlags' = IF cdn THEN StartsToDisconnect(flags) ELSE flags
     /\ tunnelFlags' = IF stopccn THEN {"WantToDisconnect", "Disconnecting"} ELSE tunnelFlags
     /\ NextNs' = NsAfter(timers)
     /\ SendQueue' = SendQueue \cup NewMessages(timers)
     /\ IF cdn THEN StopL2TPThread ELSE LoseThread(timers)
     /\ session' = IF session = "up" /\ (DeletesSession(timers) \/ DeletesTunnel(timers))
                   THEN "freed" ELSE session
     /\ tunnel' = IF DeletesTunnel(timers) THEN "freed" ELSE "up"
     /\ StateChanged' = FALSE
     /\ UNCHANGED <<LastNr, RecvQueue, handled, late>>
     /\ toClient' = Transmit(toClient, Datagrams(Sends(timers), LastNr))
     /\ HaltCompleted' = (Halt /\ DeletesTunnel(timers))
     /\ UNCHANGED <<clientVars, toServer, stopped, Halt>>

\* The same without a tunnel.
InterruptsWithoutTunnel ==
  /\ tunnel # "up" /\ Halt /\ ~HaltCompleted
  /\ Halting' = TRUE /\ HaltCompleted' = TRUE
  /\ UNCHANGED <<clientVars, toServer, toClient, tunnel, channelVars, tunnelFlags, sessionVars,
                 ppp, Halt, stopped, hellos, handled, late>>
-----------------------------------------------------------------------------
(* The PPP thread, and StopL2TPServer *)

Elsewhere ==
  UNCHANGED <<clientVars, toServer, toClient, tunnel, channelVars, tunnelFlags, sessionVars,
              Halting, HaltCompleted, hellos, handled, late>>

\* The user is refused or hangs up; or the thread was told to end.
PppEnds ==
  /\ ppp \in {"running", "stopped", "orphan"} /\ ppp' = "ended"
  /\ UNCHANGED <<Halt, stopped>> /\ Elsewhere

\* With no_wait = FALSE, as the server itself is stopped: it waits for the tunnels.
StopL2TPServer ==
  /\ ~Halt /\ Halt' = TRUE /\ UNCHANGED <<ppp, stopped>> /\ Elsewhere

\* It returns when all tunnels are gone and the listed threads have ended.
StopThreadList ==
  /\ HaltCompleted /\ ~stopped /\ ppp # "stopped"
  /\ stopped' = TRUE /\ UNCHANGED <<ppp, Halt>> /\ Elsewhere
-----------------------------------------------------------------------------

ClientNext ==
  \/ \E m \in ClientMessages : ClientSend(m)
  \/ \E p \in toClient : ClientReceive(p)

Interrupts == InterruptsWithoutTunnel \/ \E timers \in SUBSET Timers : L2TPProcessInterrupts(timers)

ServerNext ==
  \/ NewL2TPTunnel
  \/ \E p \in toServer : ProcControlPacket(p)
  \/ \E q \in RecvQueue : ReadHead(q)
  \/ ProcDataPacket \/ Interrupts
  \/ PppEnds \/ StopL2TPServer \/ StopThreadList

Next == ClientNext \/ ServerNext

Spec == Init /\ [][Next]_vars

\* The thread of the server runs and time passes; threads end when told to.
FairSpec ==
  /\ Spec
  /\ WF_vars(\E q \in RecvQueue : ReadHead(q))
  /\ WF_vars(InterruptsWithoutTunnel)
  /\ SF_vars(L2TPProcessInterrupts(Timers \cap {"sessionLate", "tunnelLate"}))
  /\ WF_vars(ppp = "stopped" /\ PppEnds) /\ WF_vars(StopThreadList)
-----------------------------------------------------------------------------
(* Properties *)

TunnelFlags == {"Established", "WantToDisconnect", "Disconnecting"}

\* Every variable has its type; a session that disconnects is not established.
TypeOK ==
  /\ sent \in Seq(ClientMessages) /\ Len(sent) <= MaxSent /\ acked \in Nat /\ clientNr \in Nat
  /\ got \subseteq ServerMessages
  /\ toServer \subseteq Packet(ClientMessages) /\ toClient \subseteq Packet(ServerMessages)
  /\ tunnel \in {"none", "up", "freed"} /\ NextNs \in Nat /\ LastNr \in Nat
  /\ SendQueue \subseteq Queued(ServerMessages) /\ RecvQueue \subseteq Queued(ClientMessages)
  /\ StateChanged \in BOOLEAN /\ tunnelFlags \subseteq TunnelFlags
  /\ session \in {"none", "up", "freed"} /\ sessionFlags \subseteq TunnelFlags
  /\ ~({"Established", "Disconnecting"} \subseteq sessionFlags)
  /\ HasThread \in BOOLEAN /\ ppp \in {"none", "running", "ended", "stopped", "orphan"}
  /\ Halt \in BOOLEAN /\ Halting \in BOOLEAN /\ HaltCompleted \in BOOLEAN
  /\ stopped \in BOOLEAN /\ late \in BOOLEAN
  /\ hellos \in 0 .. MaxHello /\ handled \in Seq(ClientMessages)

\* The server acts upon the client's messages in order and once each, whatever the
\* network does to the packets.
Channel == INSTANCE FifoChannel WITH Messages <- ClientMessages
InOrder == Channel!Spec

\* A message leaves the retransmission queue only when the client has received it: a
\* session or tunnel that is deleted because the queue is empty is one whose client
\* knows that it was disconnected.
KeptUntilReceived ==
  tunnel = "up" => \A n \in clientNr .. NextNs - 1 : \E q \in SendQueue : q.ns = n

\* The message that is due finds room in the reception queue, although packets that
\* came early, acknowledgements among them, occupy it: as long as the client has fewer
\* than WindowSize messages that were not read.  A client that uses the whole window,
\* which SCCRP tells it to have, can block the queue: its WindowSize - 1 messages
\* after the one that is due, and an acknowledgement numbered after them, fill it.
RoomForNext ==
  /\ tunnel = "up" /\ ~Busy /\ LastNr < Len(sent)
  /\ Len(sent) - LastNr < WindowSize
  => Cardinality(RecvQueue) < WindowSize

\* "Disconnect all sessions within the tunnel" (Proto_L2TP.c:1314) and "Stopping all
\* L2TP PPP Threads" (2568): no PPP thread outlives its session and the server unless
\* the client established the session in a tunnel that was told to disconnect.
NoOrphan ==
  /\ ppp = "orphan" => late
  /\ stopped => ppp \in {"none", "ended", "orphan"}

\* "Wait until complete stopping all tunnels" (Proto_L2TP.c:2545): StopL2TPServer
\* returns, whether the clients answer or not.
StopReturns == Halt ~> stopped
=============================================================================
