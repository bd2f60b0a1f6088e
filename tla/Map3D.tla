------------------------------- MODULE Map3D -------------------------------
(***************************************************************************)
(* The 3D maps: who is in which map, where, in which bed, and in which     *)
(* node of the map's octree.                                               *)
(*                                                                         *)
(* A message handler is one step and so is a fixed update of a map: all of *)
(* them run in the one thread of the "other" VM.  Positions are points of  *)
(* a line.  What physics, walls and clamping make of a position is any     *)
(* point in reach; the octree is its deepest nodes, since a node that      *)
(* holds an object is split at once (MAX_OBJECTS is 0).                    *)
(***************************************************************************)
EXTENDS Integers, FiniteSets

CONSTANTS
  Users,
  Maps,        \* the map ids of the configuration
  MapIds,      \* the map ids a client may ask for
  Beds,        \* bed ids: every map numbers its own from 1
  BedsOf,      \* [Maps -> SUBSET Beds]
  MaxPos,      \* the last point of the line
  BedPos,      \* [Beds -> 0 .. MaxPos]
  Center,      \* where the first player of a map appears
  Ring,        \* where the others do
  CellSize,    \* extent of a deepest node
  InteractRadius, MinDist, ViewRange, \* distances: bed, two bodies, state sync
  BulletIds,   \* ids that are free again once the bullet is gone
  MaxBullets,  \* bullets a map may have
  ShootDists,  \* ranges a client may ask for
  BulletStep,  \* what a bullet flies in one fixed update
  Nil

NoMap == -1

Pos     == 0 .. MaxPos
Cell(p) == p \div CellSize
Cells   == {Cell(p) : p \in Pos}

(* map3DOctree is the player's pointer to the node that lists it.          *)
MapPlayer == [pos : Pos, sleepBedId : Beds \cup {Nil}, map3DOctree : Cells]
Item      == [userId : Users, node : Cells]

ASSUME Map3DAssumption ==
  /\ Maps \subseteq MapIds /\ MapIds \subseteq Nat \ {0}
  /\ MaxPos \in Nat /\ CellSize \in Nat \ {0}
  /\ BedsOf \in [Maps -> SUBSET Beds] /\ BedPos \in [Beds -> Pos]
  /\ Center \in Pos /\ Ring \subseteq Pos /\ Ring # {}
  /\ {InteractRadius, MinDist, ViewRange} \subseteq Nat
  /\ ShootDists \subseteq Nat \ {0} /\ BulletStep \in Nat \ {0}
  /\ IsFiniteSet(BulletIds) /\ MaxBullets \in 1 .. Cardinality(BulletIds)
  /\ Nil \notin Users \cup Beds \cup Nat \cup MapPlayer

VARIABLES
  online,      \* users with a Player (see Session)
  nowMapId,    \* PlayerCmptMap3D.nowMapId of each Player
  players,     \* Map3D.players of each map
  octree,      \* the lists of the octree's nodes, of each map
  sleeper,     \* bed.sleeper of each bed of each map
  bullets,     \* Map3D.bullets of each map, as the range they have left
  bulletCount  \* Map3D.bulletCount of each map

vars == <<online, nowMapId, players, octree, sleeper, bullets, bulletCount>>

TypeOK ==
  /\ online \subseteq Users
  /\ nowMapId \in [Users -> Maps \cup {NoMap}]
  /\ players \in [Maps -> [Users -> MapPlayer \cup {Nil}]]
  /\ octree \in [Maps -> SUBSET Item]
  /\ sleeper \in [Maps -> [Beds -> Users \cup {Nil}]]
  /\ bullets \in [Maps -> [BulletIds -> Nat \cup {Nil}]]
  /\ bulletCount \in [Maps -> Int]

Init ==
  /\ online = {}
  /\ nowMapId = [u \in Users |-> NoMap]
  /\ players = [m \in Maps |-> [u \in Users |-> Nil]]
  /\ octree = [m \in Maps |-> {}]
  /\ sleeper = [m \in Maps |-> [b \in Beds |-> Nil]]
  /\ bullets = [m \in Maps |-> [i \in BulletIds |-> Nil]]
  /\ bulletCount = [m \in Maps |-> 0]

Abs(n) == IF n < 0 THEN -n ELSE n

Near(p, q, d) == Abs(p - q) <= d

-----------------------------------------------------------------------------
(* The octree.                                                             *)

(* OcQuery: only nodes that touch the range are looked into, and there the  *)
(* objects' positions decide.                                              *)
OcHits(m, lo, hi) ==
  {i \in octree[m] :
     /\ i.node * CellSize <= hi /\ lo <= (i.node + 1) * CellSize
     /\ players[m][i.userId] # Nil
     /\ players[m][i.userId].pos \in lo .. hi - 1}

OcQuery(m, lo, hi) == {i.userId : i \in OcHits(m, lo, hi)}

(* RemoveItemFromList, OcInsert and the pointer, for the players "who" of a *)
(* map that has the players "pl" and the items "items".                    *)
Reinserted(pl, items, who) ==
  {i \in items : ~(i.userId \in who /\ i.node = pl[i.userId].map3DOctree)}
    \cup {[userId |-> u, node |-> Cell(pl[u].pos)] : u \in who}

Repointed(pl, who) ==
  [u \in Users |-> IF u \in who THEN [pl[u] EXCEPT !.map3DOctree = Cell(pl[u].pos)]
                                ELSE pl[u]]

-----------------------------------------------------------------------------
(* Entering and leaving.                                                   *)

(* The players and octrees once u has left its map, if it is in one.       *)
PlayersLeft(u) ==
  IF nowMapId[u] = NoMap THEN players
  ELSE [players EXCEPT ![nowMapId[u]][u] = Nil]

OctreeLeft(u) ==
  IF nowMapId[u] = NoMap THEN octree
  ELSE LET m == nowMapId[u] IN
       [octree EXCEPT ![m] = @ \ {[userId |-> u, node |-> players[m][u].map3DOctree]}]

(* A bed keeps its sleeper when the sleeper leaves the map.                *)
LeaveCurrMap(u) ==
  /\ players' = PlayersLeft(u)
  /\ octree' = OctreeLeft(u)
  /\ nowMapId' = [nowMapId EXCEPT ![u] = NoMap]
  /\ UNCHANGED <<sleeper, bullets, bulletCount>>

FindSpawnPoint(pl) == IF \A v \in Users : pl[v] = Nil THEN {Center} ELSE Ring

\* Mutant: the player is added to the new map while it is still in the old.
EntersWithoutLeaving(u, m) ==
  /\ u \in online
  /\ IF m \in Maps /\ players[m][u] = Nil
     THEN /\ \E p \in FindSpawnPoint(players[m]) :
               /\ players' = [players EXCEPT ![m][u] =
                    [pos |-> p, sleepBedId |-> Nil, map3DOctree |-> Cell(p)]]
               /\ octree' = [octree EXCEPT ![m] = @ \cup {[userId |-> u, node |-> Cell(p)]}]
          /\ nowMapId' = [nowMapId EXCEPT ![u] = m]
          /\ UNCHANGED <<sleeper, bullets, bulletCount>>
     ELSE LeaveCurrMap(u)
  /\ UNCHANGED online

(* The player leaves its map first, also for a map that does not exist.    *)
MapEnterReq(u, m) ==
  /\ u \in online
  /\ IF m \in Maps /\ PlayersLeft(u)[m][u] = Nil
     THEN /\ \E p \in FindSpawnPoint(PlayersLeft(u)[m]) :
               /\ players' = [PlayersLeft(u) EXCEPT ![m][u] =
                    [pos |-> p, sleepBedId |-> Nil, map3DOctree |-> Cell(p)]]
               /\ octree' = [OctreeLeft(u) EXCEPT ![m] =
                    @ \cup {[userId |-> u, node |-> Cell(p)]}]
          /\ nowMapId' = [nowMapId EXCEPT ![u] = m]
          /\ UNCHANGED <<sleeper, bullets, bulletCount>>
     ELSE LeaveCurrMap(u)
  /\ UNCHANGED online

MapLeaveReq(u) == u \in online /\ LeaveCurrMap(u) /\ UNCHANGED online

(* A login makes a new Player, in no map.                                  *)
Login(u) ==
  /\ u \notin online
  /\ online' = online \cup {u}
  /\ nowMapId' = [nowMapId EXCEPT ![u] = NoMap]
  /\ UNCHANGED <<players, octree, sleeper, bullets, bulletCount>>

Logout(u) == u \in online /\ online' = online \ {u} /\ LeaveCurrMap(u)

-----------------------------------------------------------------------------
(* Beds.                                                                   *)

(* WakePlayer: the beds and the players of map m once u got up.            *)
BedsWoken(m, u) ==
  [b \in Beds |-> IF b = players[m][u].sleepBedId /\ sleeper[m][b] = u
                  THEN Nil ELSE sleeper[m][b]]

PlayersWoken(m, u) == [players[m] EXCEPT ![u].sleepBedId = Nil]

\* Mutant: the check that the bed is free is forgotten.
SleepsInAnyBed(m, u, b) == Near(players[m][u].pos, BedPos[b], InteractRadius)

SleepAllowed(m, u, b) ==
  /\ BedsWoken(m, u)[b] = Nil
  /\ Near(players[m][u].pos, BedPos[b], InteractRadius)

(* ... and once it lies in bed b.                                          *)
PutToBed(m, u, b) ==
  [PlayersWoken(m, u) EXCEPT ![u] = [@ EXCEPT !.sleepBedId = b, !.pos = BedPos[b]]]

\* Mutant: the player is moved to the bed and stays in its octree node.
SleepUnindexed(m, u, b) ==
  /\ players' = [players EXCEPT ![m] = PutToBed(m, u, b)]
  /\ sleeper' = [sleeper EXCEPT ![m] = [BedsWoken(m, u) EXCEPT ![b] = u]]
  /\ UNCHANGED octree

SleepPlayer(m, u, b) ==
  LET pl == PutToBed(m, u, b) IN
    /\ players' = [players EXCEPT ![m] = Repointed(pl, {u})]
    /\ octree' = [octree EXCEPT ![m] = Reinserted(pl, @, {u})]
    /\ sleeper' = [sleeper EXCEPT ![m] = [BedsWoken(m, u) EXCEPT ![b] = u]]

WakePlayer(m, u) ==
  /\ players' = [players EXCEPT ![m] = PlayersWoken(m, u)]
  /\ sleeper' = [sleeper EXCEPT ![m] = BedsWoken(m, u)]
  /\ UNCHANGED octree

(* Who asks for a bed gets up from the one it is in, even if the answer for *)
(* the new one is no.                                                      *)
MapSleepReq(u, b) ==
  /\ u \in online
  /\ nowMapId[u] # NoMap
  /\ LET m == nowMapId[u] IN
       /\ b \in BedsOf[m]
       /\ IF SleepAllowed(m, u, b) THEN SleepPlayer(m, u, b) ELSE WakePlayer(m, u)
  /\ UNCHANGED <<online, nowMapId, bullets, bulletCount>>

(* WakePlayer returns at once for a player that is not asleep, whatever the *)
(* bed says.                                                               *)
MapWakeReq(u, b) ==
  /\ u \in online
  /\ nowMapId[u] # NoMap
  /\ LET m == nowMapId[u] IN
       /\ b \in BedsOf[m]
       /\ sleeper[m][b] = u
       /\ players[m][u].sleepBedId # Nil
       /\ WakePlayer(m, u)
  /\ UNCHANGED <<online, nowMapId, bullets, bulletCount>>

-----------------------------------------------------------------------------
(* Bullets.                                                                *)

(* A shot refused for its direction or for the cooldown changes nothing.   *)
PlayerShoot(u, dist) ==
  /\ u \in online
  /\ nowMapId[u] # NoMap
  /\ LET m == nowMapId[u] IN
       /\ bulletCount[m] < MaxBullets
       /\ \E i \in BulletIds :
            /\ bullets[m][i] = Nil
            /\ bullets' = [bullets EXCEPT ![m][i] = dist]
            /\ bulletCount' = [bulletCount EXCEPT ![m] = @ + 1]
  /\ UNCHANGED <<online, nowMapId, players, octree, sleeper>>

Flying(m) == {i \in BulletIds : bullets[m][i] # Nil}

(* The range a bullet has left once it flew its step.                      *)
Flown(r) == IF r <= BulletStep THEN 0 ELSE r - BulletStep

\* Mutants of the two removals: a bullet that has flown its range is only
\* removed if it hit something, or is also removed a second time if it did.
NeverSpent(m, hits, old) == {}
SpentTwice(m, hits, old) == {i \in Flying(m) \ old : Flown(bullets[m][i]) = 0}

(* The bullets that are removed for having flown their range.              *)
Spent(m, hits, old) == {i \in Flying(m) \ (hits \cup old) : Flown(bullets[m][i]) = 0}

(* "old" are past their life time and do not fly; "hits" hit a wall, the    *)
(* ground, the border or a player.  Each reason enters the bullet in the    *)
(* list toRemove, whose length is taken off the count.                     *)
UpdateBullets(m) ==
  \E old \in SUBSET Flying(m) : \E hits \in SUBSET (Flying(m) \ old) :
    LET spent == Spent(m, hits, old) IN
      /\ bullets' = [bullets EXCEPT ![m] = [i \in BulletIds |->
           IF i \in Flying(m) \ (old \cup hits \cup spent)
           THEN Flown(bullets[m][i]) ELSE Nil]]
      /\ bulletCount' = [bulletCount EXCEPT ![m] =
           @ - Cardinality(old) - Cardinality(hits) - Cardinality(spent)]

-----------------------------------------------------------------------------
(* Fixed update of a map.                                                  *)

Awake(m) == {u \in Users : players[m][u] # Nil /\ players[m][u].sleepBedId = Nil}

(* The players of a map, those of "who" moved by at most one point.        *)
Moved(pl, who) ==
  {[u \in Users |-> IF u \in who THEN [pl[u] EXCEPT !.pos = to[u]] ELSE pl[u]] :
     to \in {t \in [who -> Pos] : \A u \in who : Near(t[u], pl[u].pos, 1)}}

Crowded(pl, awake) ==
  {u \in awake : \E v \in awake \ {u} : Abs(pl[u].pos - pl[v].pos) < MinDist}

(* Who may be pushed aside: everybody who is too close to another one, and  *)
(* whom these are pushed against.                                          *)
Pushed(pl, awake) ==
  IF Crowded(pl, awake) = {} THEN {{}}
  ELSE {who \in SUBSET awake : Crowded(pl, awake) \subseteq who}

FixedUpdate(m) ==
  /\ \E walked \in Moved(players[m], Awake(m)) :
       LET pl    == Repointed(walked, Awake(m))
           items == Reinserted(walked, octree[m], Awake(m))
       IN \E who \in Pushed(pl, Awake(m)) :
            \E settled \in Moved(pl, who) :
              /\ players' = [players EXCEPT ![m] = Repointed(settled, who)]
              /\ octree' = [octree EXCEPT ![m] = Reinserted(settled, items, who)]
  /\ UpdateBullets(m)
  /\ UNCHANGED <<online, nowMapId, sleeper>>

-----------------------------------------------------------------------------
Next ==
  \/ \E u \in Users : Login(u) \/ Logout(u) \/ MapLeaveReq(u)
  \/ \E u \in Users, m \in MapIds : MapEnterReq(u, m)
  \/ \E u \in Users, b \in Beds : MapSleepReq(u, b) \/ MapWakeReq(u, b)
  \/ \E u \in Users, d \in ShootDists : PlayerShoot(u, d)
  \/ \E m \in Maps : FixedUpdate(m)

(* Every map is updated again and again, as long as the event loop ticks.  *)
Fairness == \A m \in Maps : WF_vars(FixedUpdate(m))

Spec     == Init /\ [][Next]_vars
FairSpec == Spec /\ Fairness
=============================================================================
