\* Sessions of a dynamic hub come and go while the hub is taken offline, online and halted.
CONSTANTS
  s1 = s1  s2 = s2  s3 = s3  a1 = a1  a2 = a2
  Sessions = {s1, s2, s3}  Admins = {a1, a2}  Nobody = Nobody
  User <- SameUser  AdminMode = {s3}
  MaxSession = 1  MaxServer = 2  MaxLogins = 2
  FarmController = TRUE  Dynamic = TRUE  EnableSecureNAT = TRUE
  Script <- OffOnAndStop
SPECIFICATION Spec
INVARIANTS TypeOK CountersBalanced SessionLimit RefsBalanced NatOnlyOnline
\* Every connection and every script comes to its end.
CHECK_DEADLOCK FALSE
