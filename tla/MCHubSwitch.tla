---------------------------- MODULE MCHubSwitch ----------------------------
(***************************************************************************)
(* Small hubs for TLC.  Each policy function and traffic set below is the    *)
(* value one of the configurations gives to a constant of HubSwitch.         *)
(***************************************************************************)
EXTENDS HubSwitch, TLC

CONSTANTS s1, s2, s3, m1, m2   \* model values: sessions and MAC addresses

Open ==
  [MonitorPort |-> FALSE, NoBridge |-> FALSE, MaxMac |-> 0, OpenVPNL3 |-> FALSE,
   CheckMac |-> FALSE, BridgeMode |-> FALSE, NoRouting |-> FALSE, MaxIP |-> 0,
   CheckIP |-> FALSE, DHCPForce |-> FALSE, NoRoutingV6 |-> FALSE, MaxIPv6 |-> 0,
   CheckIPv6 |-> FALSE, PrivacyFilter |-> FALSE, filter |-> {}, bcastFilter |-> {}]

Pkt(src, dst, kind, ip, client) ==
  [smac |-> src, dmac |-> dst, kind |-> kind, ip |-> ip, client |-> client]
Frame(src, dst) == Pkt(src, dst, "other", NoIp, m1)

\* Two ports in privacy filter mode, one of which refuses ARP, and a monitoring
\* port; an access list keeps what s2 sends from the latter, and s2 may have one
\* MAC address.
ForwardPolicy ==
  s1 :> [Open EXCEPT !.PrivacyFilter = TRUE, !.filter = {"arp"}]
  @@ s2 :> [Open EXCEPT !.PrivacyFilter = TRUE, !.MaxMac = 1]
  @@ s3 :> [Open EXCEPT !.MonitorPort = TRUE]
ForwardTraffic ==
  {Pkt(m1, Bcast, "dhcp", NoIp, m1), Frame(m2, m1), Pkt(m2, Bcast, "arp", NoIp, m2),
   Frame(m1, HubMac)}
OneDenied == {<<s2, s3>>}
ForwardRoom == s1 :> 0 @@ s2 :> 0 @@ s3 :> 1

\* Two sessions that compete for addresses: s1 is checked, s2 limited.
LearnPolicy ==
  s1 :> [Open EXCEPT !.CheckMac = TRUE, !.DHCPForce = TRUE, !.CheckIPv6 = TRUE]
  @@ s2 :> [Open EXCEPT !.MaxMac = 1, !.MaxIP = 1, !.NoRoutingV6 = TRUE, !.CheckIP = TRUE]
LearnTraffic ==
  {Pkt(m1, m2, "ip4", 1, m1), Pkt(m2, Bcast, "dhcpack", 1, m1), Pkt(m1, HubMac, "ip6", 2, m1),
   Frame(HubMac, m1)}

NoDenied == {}
NoRoom == [s \in Sessions |-> 0]
SameUser == [s \in Sessions |-> "user"]
=============================================================================
