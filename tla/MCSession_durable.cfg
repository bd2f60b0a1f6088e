SPECIFICATION FairSpec
CONSTANTS
  Conns = {c1, c2}
  Users = {u1}
  Creds = {"good", "bad", "empty"}
  NoUser = NoUser
  NoConn = NoConn
  NoPlayer = NoPlayer
  NoRecord = NoRecord
  MaxVersion = 2
  MaxReqs = 2
  MaxDrops = 0
  SerialLogins = TRUE
  OrderlyStop = TRUE
PROPERTIES ImplementsDurable OkMeansPlayer SafeStopPersists
CHECK_DEADLOCK FALSE
