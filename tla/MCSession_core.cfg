SPECIFICATION Spec
CONSTANTS
  Conns = {c1, c2}
  Users = {u1, u2}
  Creds = {"good"}
  NoUser = NoUser
  NoConn = NoConn
  NoPlayer = NoPlayer
  NoRecord = NoRecord
  MaxVersion = 0
  MaxReqs = 2
  MaxDrops = 1
  SerialLogins = FALSE
  OrderlyStop = FALSE
SYMMETRY ConnSymmetry
INVARIANTS BindingOK ConnLife SafeStopKicksAll
PROPERTY ImplementsLock
CHECK_DEADLOCK FALSE
