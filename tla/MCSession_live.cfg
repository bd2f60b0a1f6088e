SPECIFICATION FairSpec
CONSTANTS
  Conns = {c1, c2}
  Users = {u1}
  Creds = {"good", "bad", "empty"}
  NoUser = NoUser
  NoConn = NoConn
  NoPlayer = NoPlayer
  NoRecord = NoRecord
  MaxVersion = 1
  MaxReqs = 1
  MaxDrops = 1
  SerialLogins = FALSE
  OrderlyStop = FALSE
PROPERTIES ClosedConnLeaves SafeStopDrains
CHECK_DEADLOCK FALSE
