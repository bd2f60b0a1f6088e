----------------------------- MODULE Map3DProps -----------------------------
(***************************************************************************)
(* Correctness properties of the 3D maps.                                  *)
(***************************************************************************)
EXTENDS Map3D

InMap(m, u) == players[m][u] # Nil

(* A Player's nowMapId and the maps agree: a user that plays is in at most  *)
(* one map, the one its requests are sent to, and no character is left in   *)
(* a map by a user that switched maps, asked for one that does not exist,   *)
(* or logged out.                                                          *)
MemberIffNow ==
  \A u \in Users, m \in Maps :
    InMap(m, u) <=> u \in online /\ nowMapId[u] = m

(* A player that sleeps lies in its bed: nobody else is in that bed, and   *)
(* neither physics nor the pushing of others moves it ("frozen").          *)
SleepsInOwnBed ==
  \A m \in Maps, u \in Users :
    InMap(m, u) /\ players[m][u].sleepBedId # Nil =>
      /\ sleeper[m][players[m][u].sleepBedId] = u
      /\ players[m][u].pos = BedPos[players[m][u].sleepBedId]

(* A query of the octree finds exactly the players in its range, though    *)
(* players move, are pushed, put to bed and leave: each is listed once, in  *)
(* the node its position is in.  FixedUpdate looks each hit up among the    *)
(* players, and an item without a player would end the process.            *)
QueryExact ==
  \A m \in Maps :
    /\ \A i \in octree[m] : InMap(m, i.userId)
    /\ \A i, j \in octree[m] : i.userId = j.userId => i = j
    /\ \A p \in Pos :
         OcQuery(m, p - ViewRange, p + ViewRange) =
           {u \in Users : /\ InMap(m, u)
                          /\ players[m][u].pos \in p - ViewRange .. (p + ViewRange) - 1}

(* What QueryExact rests on: the octree has one item for each player of its *)
(* map, in the node the player points to, which is the one it stands in.    *)
Listed(pl) == {[userId |-> u, node |-> pl[u].map3DOctree] : u \in {v \in Users : pl[v] # Nil}}

Indexed ==
  \A m \in Maps :
    /\ octree[m] = Listed(players[m])
    /\ \A u \in Users :
         InMap(m, u) => players[m][u].map3DOctree = Cell(players[m][u].pos)

(* The counter that limits the bullets of a map is their number, although   *)
(* a bullet may meet several of the conditions that remove it at once.     *)
CountIsExact == \A m \in Maps : bulletCount[m] = Cardinality(Flying(m))

(* No bullet flies for ever, or lies about when its range is used up,       *)
(* whoever leaves while it does: its id is free again and again.           *)
BulletsEnd ==
  \A m \in Maps : \A i \in BulletIds : []<>(bullets[m][i] = Nil)
=============================================================================
