\* Packets of two hosts while sessions come and go: copies for a monitoring port,
\* unicast and flood, privacy filters and the quota of flooded packets.
CONSTANTS
  s1 = s1  s2 = s2  s3 = s3  m1 = m1  m2 = m2
  Sessions = {s1, s2, s3}  Nobody = Nobody  Hub = Hub
  Macs = {m1, m2}  HubMac = HubMac  Bcast = Bcast
  Ips4 = {}  Ips6 = {}  NoIp = NoIp  ManagedIps = {}  DLinkMacs = {}
  Policy <- ForwardPolicy
  MacMinLimit = 1  IpMinLimit = 1  IpMinLimitV6 = 1  IpLimitNoRoutingV6 = 2
  MaxMacTables = 2  MaxIpTables = 1
  MacExclusiveTime = 1  MacExpireTime = 3  FlushInterval = 0
  IpExclusiveTime = 1  IpExpireTime = 2  IpExpireTimeDhcp = 3
  MaxStoredQueue = 1  Quota = 1  TcpSessions = {s1, s2, s3}  ConnectionRoom <- ForwardRoom
  User <- SameUser  Denied <- OneDenied
  DropBroadcastsInPrivacyFilterMode = FALSE
  DropArpInPrivacyFilterMode = TRUE
  AllowSameUserInPrivacyFilterMode = FALSE
  Traffic <- ForwardTraffic
  DelayedKinds = {}  MaxDelayed = 0  MaxTime = 1
SPECIFICATION Spec
INVARIANTS TypeOK NoDanglingPa NoBlockWithoutPa NoReflection Ownership
INVARIANTS PrivacyIsolation FloodAccounting FloodQuota
PROPERTIES FabricSpec MacLimitPassed
