SPECIFICATION Spec
CONSTANTS
  Users = {u1, u2}
  Maps = {1, 2}
  MapIds = {1, 2, 9}
  Width = 5
  BodyRadius = 1
  Center = 3
  CellSize = 2
  ViewRange = 1
  Unit = 4
  Dirs <- ThreeDirs
  MaxSpeed = 4
  Accel = 2
  SpeedRatio = 4
  DT_MS = 2
  MaxFrame = 3
  MaxGap = 4
  UINT32_MAX = 2
  Nil = Nil
SYMMETRY UserSymmetry
INVARIANTS MemberIffNow QueryExact InStep WithinLimits
PROPERTIES KeepsTime Headway
