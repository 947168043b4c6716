\* Whoever is connected when a hub goes offline is disconnected.
CONSTANTS
  s1 = s1  s2 = s2  s3 = s3  a1 = a1  a2 = a2
  Sessions = {s1, s2}  Admins = {a1, a2}  Nobody = Nobody
  User <- SameUser  AdminMode = {}
  MaxSession = 2  MaxServer = 2  MaxLogins = 1
  FarmController = FALSE  Dynamic = FALSE  EnableSecureNAT = TRUE
  Script <- OffOnAndStop
SPECIFICATION FairSpec
PROPERTIES DisconnectsAll
\* Every connection and every script comes to its end.
CHECK_DEADLOCK FALSE
