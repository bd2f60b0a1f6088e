SPECIFICATION FairSpec
CONSTANTS
  Users = {"u1", "u2"}
  Maps = {1, 2}
  MapIds = {1, 2, 9}
  Beds = {"bed1", "bed2"}
  BedsOf <- TwoBedsInMap1
  MaxPos = 3
  BedPos <- BedPlaces
  Center = 1
  Ring = {2}
  CellSize = 2
  InteractRadius = 2
  MinDist = 1
  ViewRange = 1
  BulletIds = {1}
  MaxBullets = 1
  ShootDists = {1, 3}
  BulletStep = 2
  Nil = Nil
INVARIANTS MemberIffNow SleepsInOwnBed QueryExact CountIsExact
PROPERTY BulletsEnd
