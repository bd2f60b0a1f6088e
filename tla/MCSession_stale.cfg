SPECIFICATION Spec
CONSTANTS
  Conns = {c1, c2}
  Users = {u1}
  Creds = {"good"}
  NoUser = NoUser
  NoConn = NoConn
  NoPlayer = NoPlayer
  NoRecord = NoRecord
  MaxVersion = 1
  MaxReqs = 1
  MaxDrops = 0
  SerialLogins = FALSE
  OrderlyStop = TRUE
PROPERTY LoginLoadsLatest
CHECK_DEADLOCK FALSE
