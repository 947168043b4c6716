\* Two sessions compete for MAC and IP addresses as time passes.
CONSTANTS
  s1 = s1  s2 = s2  s3 = s3  m1 = m1  m2 = m2
  Sessions = {s1, s2}  Nobody = Nobody  Hub = Hub
  Macs = {m1, m2}  HubMac = HubMac  Bcast = Bcast
  Ips4 = {1}  Ips6 = {2}  NoIp = NoIp  ManagedIps = {1, 2}  DLinkMacs = {}
  Policy <- LearnPolicy
  MacMinLimit = 1  IpMinLimit = 1  IpMinLimitV6 = 1  IpLimitNoRoutingV6 = 2
  MaxMacTables = 1  MaxIpTables = 1
  MacExclusiveTime = 1  MacExpireTime = 3  FlushInterval = 0
  IpExclusiveTime = 1  IpExpireTime = 2  IpExpireTimeDhcp = 3
  MaxStoredQueue = 0  Quota = 0  TcpSessions = {}  ConnectionRoom <- NoRoom
  User <- SameUser  Denied <- NoDenied
  DropBroadcastsInPrivacyFilterMode = FALSE
  DropArpInPrivacyFilterMode = TRUE
  AllowSameUserInPrivacyFilterMode = FALSE
  Traffic <- LearnTraffic
  DelayedKinds = {"dhcpack"}  MaxDelayed = 1  MaxTime = 4
SPECIFICATION Spec
INVARIANTS NoDanglingPa WithinLimits DhcpForced NothingLeftBehind
PROPERTIES AddressTakeover
