----------------------------- MODULE PortFabric -----------------------------
(***************************************************************************)
(* What a Virtual Hub promises to its ports, without its tables, locks and   *)
(* threads: each attached port has a bounded FIFO of packets, a packet goes   *)
(* to some of the other attached ports at a time, it is there until the port  *)
(* takes it or detaches, and nothing reaches a port that is not attached.     *)
(* HubSwitch implements this (property FabricSpec there).                     *)
(***************************************************************************)
EXTENDS Naturals, Sequences

CONSTANTS Ports, Hub, Packets, Capacity

VARIABLES attached, out

FInit == attached = {} /\ out = [p \in Ports |-> <<>>]

Attach(p) == p \notin attached /\ attached' = attached \cup {p} /\ UNCHANGED out

Detach(p) ==
  /\ p \in attached
  /\ attached' = attached \ {p}
  /\ out' = [out EXCEPT ![p] = <<>>]

Take(p) ==
  /\ p \in attached /\ out[p] # <<>>
  /\ out' = [out EXCEPT ![p] = Tail(@)]
  /\ UNCHANGED attached

\* A port never hears itself; a full port loses the packet, the others do not.
Listening(b) == {p \in attached \ {b.src} : Len(out[p]) < Capacity}

Deliver(b, D) ==
  /\ D \subseteq Listening(b)
  /\ out' = [p \in Ports |-> IF p \in D THEN Append(out[p], b) ELSE out[p]]
  /\ UNCHANGED attached

FNext ==
  \/ \E p \in Ports : Attach(p) \/ Detach(p) \/ Take(p)
  \/ \E b \in Packets : /\ b.src \in attached \cup {Hub}
                         /\ \E D \in SUBSET Listening(b) : Deliver(b, D)

FSpec == FInit /\ [][FNext]_<<attached, out>>
=============================================================================
