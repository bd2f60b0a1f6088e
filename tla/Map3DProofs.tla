---------------------------- MODULE Map3DProofs ----------------------------
(***************************************************************************)
(* Proofs about Map3D for every set of users, maps, beds and bullets and   *)
(* every geometry of the line: type correctness, membership, the sleepers, *)
(* the octree and the count of bullets.                                    *)
(***************************************************************************)
EXTENDS Map3DProps, FiniteSetTheorems, TLAPS

PlayersOf == [Users -> MapPlayer \cup {Nil}]

(* Nobody enters or leaves, gets into a bed or out of it.                  *)
SamePlayers(pl, ql) ==
  \A u \in Users :
    /\ pl[u] = Nil <=> ql[u] = Nil
    /\ ql[u] # Nil => ql[u].sleepBedId = pl[u].sleepBedId

(* The node of a position is a node of the tree.                           *)
LEMMA CellType == \A p \in Pos : Cell(p) \in Cells
BY DEF Cells

-----------------------------------------------------------------------------
(* Physics and the pushing of others change positions only.                *)
LEMMA MovedPlayers ==
  ASSUME NEW pl \in PlayersOf, NEW who \in SUBSET Users,
         \A u \in who : pl[u] # Nil, NEW ql \in Moved(pl, who)
  PROVE  /\ ql \in PlayersOf
         /\ SamePlayers(pl, ql)
         /\ \A u \in Users : ql[u] # Nil => ql[u].map3DOctree = pl[u].map3DOctree
         /\ \A u \in Users \ who : ql[u] = pl[u]
<1>1. PICK to \in [who -> Pos] :
        ql = [u \in Users |-> IF u \in who THEN [pl[u] EXCEPT !.pos = to[u]] ELSE pl[u]]
  BY DEF Moved
<1>2. \A u \in who : /\ [pl[u] EXCEPT !.pos = to[u]] \in MapPlayer
                     /\ [pl[u] EXCEPT !.pos = to[u]].sleepBedId = pl[u].sleepBedId
                     /\ [pl[u] EXCEPT !.pos = to[u]].map3DOctree = pl[u].map3DOctree
  BY DEF PlayersOf, MapPlayer
<1>3. Nil \notin MapPlayer  BY Map3DAssumption
<1> QED  BY <1>1, <1>2, <1>3 DEF PlayersOf, SamePlayers

(* The pointers that an insertion sets are those of the nodes the players   *)
(* stand in.                                                               *)
LEMMA RepointedPlayers ==
  ASSUME NEW pl \in PlayersOf, NEW who \in SUBSET Users, \A u \in who : pl[u] # Nil
  PROVE  /\ Repointed(pl, who) \in PlayersOf
         /\ SamePlayers(pl, Repointed(pl, who))
         /\ \A u \in Users : pl[u] # Nil => Repointed(pl, who)[u].pos = pl[u].pos
         /\ \A u \in who : Repointed(pl, who)[u].map3DOctree = Cell(pl[u].pos)
         /\ \A u \in Users \ who : Repointed(pl, who)[u] = pl[u]
<1>1. \A u \in who : /\ pl[u] \in MapPlayer
                     /\ Cell(pl[u].pos) \in Cells
  BY CellType DEF PlayersOf, MapPlayer
<1>2. \A u \in who :
        LET q == [pl[u] EXCEPT !.map3DOctree = Cell(pl[u].pos)] IN
          q \in MapPlayer /\ q.sleepBedId = pl[u].sleepBedId /\ q.pos = pl[u].pos
                          /\ q.map3DOctree = Cell(pl[u].pos)
  BY <1>1 DEF MapPlayer
<1>3. Nil \notin MapPlayer  BY Map3DAssumption
<1> QED  BY <1>2, <1>3 DEF PlayersOf, SamePlayers, Repointed

(* Reinserting players that were listed leaves every player listed once, in *)
(* the node its new pointer names.                                         *)
LEMMA ReinsertedListed ==
  ASSUME NEW pl \in PlayersOf, NEW who \in SUBSET Users, \A u \in who : pl[u] # Nil
  PROVE  Reinserted(pl, Listed(pl), who) = Listed(Repointed(pl, who))
<1> DEFINE ql == Repointed(pl, who)
           new(u) == [userId |-> u, node |-> Cell(pl[u].pos)]
           old(u) == [userId |-> u, node |-> pl[u].map3DOctree]
<1>1. \A u \in Users : pl[u] # Nil <=> ql[u] # Nil
  BY RepointedPlayers DEF SamePlayers
<1>2. Listed(ql) = {[userId |-> u, node |-> ql[u].map3DOctree] : u \in {v \in Users : pl[v] # Nil}}
  BY <1>1 DEF Listed
<1>3. \A u \in who : ql[u].map3DOctree = Cell(pl[u].pos)
  BY RepointedPlayers
<1>4. \A u \in Users \ who : ql[u].map3DOctree = pl[u].map3DOctree
  BY RepointedPlayers
<1>5. Listed(ql) = {old(u) : u \in {v \in Users \ who : pl[v] # Nil}} \cup {new(u) : u \in who}
  BY <1>2, <1>3, <1>4
<1>6. {i \in Listed(pl) : ~(i.userId \in who /\ i.node = pl[i.userId].map3DOctree)}
        = {old(u) : u \in {v \in Users \ who : pl[v] # Nil}}
  BY DEF Listed
<1> QED  BY <1>5, <1>6 DEF Reinserted

LEMMA ReinsertedType ==
  ASSUME NEW pl \in PlayersOf, NEW who \in SUBSET Users, \A u \in who : pl[u] # Nil,
         NEW items \in SUBSET Item
  PROVE  Reinserted(pl, items, who) \in SUBSET Item
<1>1. \A u \in who : Cell(pl[u].pos) \in Cells
  BY CellType DEF PlayersOf, MapPlayer
<1> QED  BY <1>1 DEF Reinserted, Item

-----------------------------------------------------------------------------
(* What a fixed update does to the players of its map: all stay, those     *)
(* asleep are not moved, and the octree follows the others.                *)
Settled(pl, ql) ==
  /\ SamePlayers(pl, ql)
  /\ \A u \in Users : pl[u] # Nil /\ pl[u].sleepBedId # Nil => ql[u] = pl[u]
  /\ (\A u \in Users : pl[u] # Nil => pl[u].map3DOctree = Cell(pl[u].pos))
       => \A u \in Users : ql[u] # Nil => ql[u].map3DOctree = Cell(ql[u].pos)

LEMMA FixedPlayers ==
  ASSUME TypeOK, NEW m \in Maps, FixedUpdate(m)
  PROVE  \E ql \in PlayersOf, items \in SUBSET Item :
           /\ players' = [players EXCEPT ![m] = ql]
           /\ octree' = [octree EXCEPT ![m] = items]
           /\ Settled(players[m], ql)
           /\ octree[m] = Listed(players[m]) => items = Listed(ql)
<1> DEFINE pl == players[m]
           awake == Awake(m)
<1>1. pl \in PlayersOf /\ octree[m] \in SUBSET Item
  BY DEF TypeOK, PlayersOf
<1>2. awake \in SUBSET Users /\ \A u \in awake : pl[u] # Nil /\ pl[u].sleepBedId = Nil
  BY DEF Awake
<1>3. PICK walked \in Moved(pl, awake) :
        LET p1 == Repointed(walked, awake)
            i1 == Reinserted(walked, octree[m], awake)
        IN \E who \in Pushed(p1, awake) : \E settled \in Moved(p1, who) :
             /\ players' = [players EXCEPT ![m] = Repointed(settled, who)]
             /\ octree' = [octree EXCEPT ![m] = Reinserted(settled, i1, who)]
  BY DEF FixedUpdate
<1> DEFINE p1 == Repointed(walked, awake)
           i1 == Reinserted(walked, octree[m], awake)
<1>4. PICK who \in Pushed(p1, awake) : \E settled \in Moved(p1, who) :
        /\ players' = [players EXCEPT ![m] = Repointed(settled, who)]
        /\ octree' = [octree EXCEPT ![m] = Reinserted(settled, i1, who)]
  BY <1>3
<1>5. who \in SUBSET awake  BY <1>4 DEF Pushed
<1>6. PICK settled \in Moved(p1, who) :
        /\ players' = [players EXCEPT ![m] = Repointed(settled, who)]
        /\ octree' = [octree EXCEPT ![m] = Reinserted(settled, i1, who)]
  BY <1>4
<1> DEFINE p2 == Repointed(settled, who)
           i2 == Reinserted(settled, i1, who)
<1>7. /\ walked \in PlayersOf
      /\ SamePlayers(pl, walked)
      /\ \A u \in Users : walked[u] # Nil => walked[u].map3DOctree = pl[u].map3DOctree
      /\ \A u \in Users \ awake : walked[u] = pl[u]
  BY <1>1, <1>2, <1>3, MovedPlayers
<1>8. \A u \in awake : walked[u] # Nil
  BY <1>2, <1>7 DEF SamePlayers
<1>9. /\ p1 \in PlayersOf
      /\ SamePlayers(walked, p1)
      /\ \A u \in Users : walked[u] # Nil => p1[u].pos = walked[u].pos
      /\ \A u \in awake : p1[u].map3DOctree = Cell(walked[u].pos)
      /\ \A u \in Users \ awake : p1[u] = walked[u]
  BY <1>2, <1>7, <1>8, RepointedPlayers
<1>10. who \in SUBSET Users /\ \A u \in who : p1[u] # Nil
  BY <1>2, <1>5, <1>8, <1>9 DEF SamePlayers
<1>11. /\ settled \in PlayersOf
       /\ SamePlayers(p1, settled)
       /\ \A u \in Users : settled[u] # Nil => settled[u].map3DOctree = p1[u].map3DOctree
       /\ \A u \in Users \ who : settled[u] = p1[u]
  BY <1>9, <1>10, <1>6, MovedPlayers
<1>12. \A u \in who : settled[u] # Nil
  BY <1>10, <1>11 DEF SamePlayers
<1>13. /\ p2 \in PlayersOf
       /\ SamePlayers(settled, p2)
       /\ \A u \in Users : settled[u] # Nil => p2[u].pos = settled[u].pos
       /\ \A u \in who : p2[u].map3DOctree = Cell(settled[u].pos)
       /\ \A u \in Users \ who : p2[u] = settled[u]
  BY <1>10, <1>11, <1>12, RepointedPlayers
<1>14. i1 \in SUBSET Item  BY <1>1, <1>2, <1>7, <1>8, ReinsertedType
<1>15. i2 \in SUBSET Item  BY <1>10, <1>11, <1>12, <1>14, ReinsertedType
<1>16. Settled(pl, p2)
  <2> HIDE DEF p1, p2, pl, awake
  <2>1. SamePlayers(pl, p2)
    BY <1>7, <1>9, <1>11, <1>13 DEF SamePlayers
  <2>2. ASSUME NEW u \in Users, pl[u] # Nil, pl[u].sleepBedId # Nil PROVE p2[u] = pl[u]
    BY <2>2, <1>2, <1>5, <1>7, <1>9, <1>11, <1>13
  <2>3. ASSUME \A v \in Users : pl[v] # Nil => pl[v].map3DOctree = Cell(pl[v].pos),
               NEW u \in Users, p2[u] # Nil
        PROVE  p2[u].map3DOctree = Cell(p2[u].pos)
    <3>1. pl[u] # Nil /\ walked[u] # Nil /\ p1[u] # Nil /\ settled[u] # Nil
      BY <2>3, <1>7, <1>9, <1>11, <1>13 DEF SamePlayers
    <3>2. p1[u].map3DOctree = Cell(p1[u].pos)
      BY <2>3, <3>1, <1>7, <1>9
    <3> QED  BY <3>1, <3>2, <1>11, <1>13
  <2> QED  BY <2>1, <2>2, <2>3 DEF Settled
<1>17. ASSUME octree[m] = Listed(pl) PROVE i2 = Listed(p2)
  <2>1. Listed(walked) = Listed(pl)
    BY <1>7 DEF Listed, SamePlayers
  <2>2. i1 = Listed(p1)
    BY <1>17, <2>1, <1>2, <1>7, <1>8, ReinsertedListed
  <2>3. Listed(settled) = Listed(p1)
    <3> HIDE DEF p1
    <3> QED BY <1>11 DEF Listed, SamePlayers
  <2> QED  BY <2>2, <2>3, <1>10, <1>11, <1>12, ReinsertedListed
<1> QED  BY <1>6, <1>13, <1>15, <1>16, <1>17

-----------------------------------------------------------------------------
(* The size of what is left of a finite set without some of its members.    *)
LEMMA WithoutSome ==
  ASSUME NEW S, IsFiniteSet(S), NEW T \in SUBSET S
  PROVE  IsFiniteSet(S \ T) /\ Cardinality(S \ T) = Cardinality(S) - Cardinality(T)
<1>1. S \cap T = T  OBVIOUS
<1>2. /\ IsFiniteSet(S \ T)
      /\ Cardinality(S \ T) = Cardinality(S) - Cardinality(S \cap T)
  BY FS_Difference
<1> QED  BY <1>1, <1>2

(* What an update of the bullets removes is what it takes off the count,    *)
(* for no bullet is removed for two reasons.                               *)
LEMMA BulletsUpdated ==
  ASSUME TypeOK, NEW m \in Maps, UpdateBullets(m)
  PROVE  /\ bullets' \in [Maps -> [BulletIds -> Nat \cup {Nil}]]
         /\ bulletCount' \in [Maps -> Int]
         /\ CountIsExact => CountIsExact'
<1>0. PICK old \in SUBSET Flying(m) : \E hits \in SUBSET (Flying(m) \ old) :
        LET spent == Spent(m, hits, old) IN
          /\ bullets' = [bullets EXCEPT ![m] = [i \in BulletIds |->
               IF i \in Flying(m) \ (old \cup hits \cup spent)
               THEN Flown(bullets[m][i]) ELSE Nil]]
          /\ bulletCount' = [bulletCount EXCEPT ![m] =
               @ - Cardinality(old) - Cardinality(hits) - Cardinality(spent)]
  BY DEF UpdateBullets
<1>1. PICK hits \in SUBSET (Flying(m) \ old) :
        LET spent == Spent(m, hits, old) IN
          /\ bullets' = [bullets EXCEPT ![m] = [i \in BulletIds |->
               IF i \in Flying(m) \ (old \cup hits \cup spent)
               THEN Flown(bullets[m][i]) ELSE Nil]]
          /\ bulletCount' = [bulletCount EXCEPT ![m] =
               @ - Cardinality(old) - Cardinality(hits) - Cardinality(spent)]
  BY <1>0
<1> DEFINE spent == Spent(m, hits, old)
           rest == Flying(m) \ (old \cup hits \cup spent)
<1>2. Flying(m) \subseteq BulletIds /\ IsFiniteSet(Flying(m))
  BY Map3DAssumption, FS_Subset DEF Flying
<1>3. \A i \in Flying(m) : bullets[m][i] \in Nat /\ Flown(bullets[m][i]) \in Nat
  BY Map3DAssumption DEF TypeOK, Flying, Flown
<1>4. bullets' \in [Maps -> [BulletIds -> Nat \cup {Nil}]]
  BY <1>1, <1>3 DEF TypeOK
<1>5. spent \subseteq Flying(m) \ (old \cup hits)  BY DEF Spent
<1>6. /\ IsFiniteSet(old) /\ Cardinality(old) \in Nat
      /\ IsFiniteSet(hits) /\ Cardinality(hits) \in Nat
      /\ IsFiniteSet(spent) /\ Cardinality(spent) \in Nat
      /\ Cardinality(Flying(m)) \in Nat
  <2>1. old \in SUBSET Flying(m) /\ hits \in SUBSET Flying(m) /\ spent \in SUBSET Flying(m)
    BY <1>5
  <2> QED  BY <1>2, <2>1, FS_Subset, FS_CardinalityType
<1>7. bulletCount' \in [Maps -> Int]  BY <1>1, <1>6 DEF TypeOK
<1>8. ASSUME CountIsExact PROVE CountIsExact'
  <2>1. Cardinality(rest) = Cardinality(Flying(m)) - Cardinality(old)
                              - Cardinality(hits) - Cardinality(spent)
    <3>1. /\ spent \in SUBSET ((Flying(m) \ old) \ hits)
          /\ ((Flying(m) \ old) \ hits) \ spent = rest
      BY <1>5
    <3> HIDE DEF spent, rest
    <3>2. /\ IsFiniteSet(Flying(m) \ old)
          /\ Cardinality(Flying(m) \ old) = Cardinality(Flying(m)) - Cardinality(old)
      BY <1>2, WithoutSome
    <3>3. /\ IsFiniteSet((Flying(m) \ old) \ hits)
          /\ Cardinality((Flying(m) \ old) \ hits) =
               Cardinality(Flying(m) \ old) - Cardinality(hits)
      BY <3>2, WithoutSome
    <3>4. Cardinality(((Flying(m) \ old) \ hits) \ spent) =
            Cardinality((Flying(m) \ old) \ hits) - Cardinality(spent)
      BY <3>1, <3>3, WithoutSome
    <3> QED  BY <3>1, <3>2, <3>3, <3>4
  <2>2. Flying(m)' = rest
    BY <1>1, <1>3, Map3DAssumption DEF Flying, TypeOK
  <2>3. \A n \in Maps \ {m} : Flying(n)' = Flying(n) /\ bulletCount'[n] = bulletCount[n]
    BY <1>1 DEF Flying, TypeOK
  <2>4. bulletCount'[m] = bulletCount[m] - Cardinality(old) - Cardinality(hits)
                            - Cardinality(spent)
    BY <1>1 DEF TypeOK
  <2>5. CountIsExact' = \A n \in Maps : bulletCount'[n] = Cardinality(Flying(n)')
    BY DEF CountIsExact, Flying
  <2> HIDE DEF spent, rest
  <2> QED  BY <1>8, <2>1, <2>2, <2>3, <2>4, <2>5 DEF CountIsExact
<1> QED  BY <1>4, <1>7, <1>8

-----------------------------------------------------------------------------
LEMMA LeftTypes ==
  ASSUME TypeOK, NEW u \in Users
  PROVE  /\ PlayersLeft(u) \in [Maps -> PlayersOf]
         /\ OctreeLeft(u) \in [Maps -> SUBSET Item]
BY DEF TypeOK, PlayersOf, PlayersLeft, OctreeLeft

LEMMA LeaveType ==
  ASSUME TypeOK, NEW u \in Users, LeaveCurrMap(u), online' \in SUBSET Users
  PROVE  TypeOK'
BY LeftTypes DEF LeaveCurrMap, TypeOK, PlayersOf

LEMMA WokenTypes ==
  ASSUME TypeOK, NEW m \in Maps, NEW u \in Users, players[m][u] # Nil
  PROVE  /\ PlayersWoken(m, u) \in PlayersOf
         /\ BedsWoken(m, u) \in [Beds -> Users \cup {Nil}]
         /\ PlayersWoken(m, u)[u] \in MapPlayer
         /\ PlayersWoken(m, u)[u].sleepBedId = Nil
         /\ PlayersWoken(m, u)[u].pos = players[m][u].pos
         /\ PlayersWoken(m, u)[u].map3DOctree = players[m][u].map3DOctree
         /\ \A v \in Users \ {u} : PlayersWoken(m, u)[v] = players[m][v]
<1>1. players[m] \in PlayersOf /\ players[m][u] \in MapPlayer
  BY DEF TypeOK, PlayersOf
<1>2. [players[m][u] EXCEPT !.sleepBedId = Nil] \in MapPlayer
  BY <1>1 DEF MapPlayer
<1> QED  BY <1>1, <1>2 DEF TypeOK, PlayersOf, MapPlayer, PlayersWoken, BedsWoken

(* Who is put to bed is moved there, and its octree item with it.          *)
LEMMA PutToBedPlayers ==
  ASSUME TypeOK, NEW m \in Maps, NEW u \in Users, NEW b \in Beds, players[m][u] # Nil
  PROVE  /\ PutToBed(m, u, b) \in PlayersOf
         /\ PutToBed(m, u, b)[u] \in MapPlayer
         /\ PutToBed(m, u, b)[u].sleepBedId = b
         /\ PutToBed(m, u, b)[u].pos = BedPos[b]
         /\ PutToBed(m, u, b)[u].map3DOctree = players[m][u].map3DOctree
         /\ \A v \in Users \ {u} : PutToBed(m, u, b)[v] = players[m][v]
<1> DEFINE w == PlayersWoken(m, u)
           q == [w[u] EXCEPT !.sleepBedId = b, !.pos = BedPos[b]]
<1>1. w \in PlayersOf /\ w[u] \in MapPlayer  BY WokenTypes
<1>2. /\ q \in MapPlayer /\ q.sleepBedId = b /\ q.pos = BedPos[b]
      /\ q.map3DOctree = w[u].map3DOctree
  BY <1>1, Map3DAssumption DEF MapPlayer
<1>3. PutToBed(m, u, b) = [w EXCEPT ![u] = q]
  BY DEF PutToBed
<1> HIDE DEF w, q
<1>4. /\ w[u].map3DOctree = players[m][u].map3DOctree
      /\ \A v \in Users \ {u} : w[v] = players[m][v]
  BY WokenTypes DEF w
<1> QED  BY <1>1, <1>2, <1>3, <1>4 DEF PlayersOf

(* A character that appears does so on the line, awake, in its node.        *)
Character(p) == [pos |-> p, sleepBedId |-> Nil, map3DOctree |-> Cell(p)]

LEMMA SpawnedType ==
  ASSUME NEW pl, NEW p \in FindSpawnPoint(pl)
  PROVE  Character(p) \in MapPlayer /\ Cell(p) \in Cells
<1>1. p \in Pos  BY Map3DAssumption DEF FindSpawnPoint
<1> QED  BY <1>1, CellType DEF Character, MapPlayer

(* An entry that succeeds: the new map is a map, and the player has left.   *)
Entered(u, m, p) ==
  /\ PlayersLeft(u)[m][u] = Nil
  /\ players' = [PlayersLeft(u) EXCEPT ![m][u] = Character(p)]
  /\ octree' = [OctreeLeft(u) EXCEPT ![m] = @ \cup {[userId |-> u, node |-> Cell(p)]}]
  /\ nowMapId' = [nowMapId EXCEPT ![u] = m]
  /\ UNCHANGED <<online, sleeper, bullets, bulletCount>>

LEMMA EnterCases ==
  ASSUME NEW u \in Users, NEW m, MapEnterReq(u, m)
  PROVE  \/ LeaveCurrMap(u) /\ UNCHANGED online
         \/ /\ m \in Maps /\ u \in online
            /\ \E p \in FindSpawnPoint(PlayersLeft(u)[m]) : Entered(u, m, p)
BY DEF MapEnterReq, Entered, Character

(* The request for a bed puts the player to bed or gets it up, in its map.  *)
LEMMA SleepCases ==
  ASSUME TypeOK, NEW u \in Users, NEW b \in Beds, MapSleepReq(u, b) \/ MapWakeReq(u, b)
  PROVE  LET m == nowMapId[u] IN
           /\ m \in Maps /\ u \in online
           /\ (SleepAllowed(m, u, b) /\ SleepPlayer(m, u, b)) \/ WakePlayer(m, u)
           /\ UNCHANGED <<online, nowMapId, bullets, bulletCount>>
BY DEF TypeOK, MapSleepReq, MapWakeReq

(* Members have a character, which the requests above rely on.             *)
LEMMA MemberIn ==
  ASSUME TypeOK, MemberIffNow, NEW u \in online, nowMapId[u] \in Maps
  PROVE  players[nowMapId[u]][u] # Nil
BY DEF MemberIffNow, InMap, TypeOK

(* TypeOK and membership are inductive together: a request is sent to the   *)
(* map in nowMapId, and only membership says that the player is there.      *)
LEMMA MapTypeStep == TypeOK /\ MemberIffNow /\ [Next]_vars => TypeOK'
<1> SUFFICES ASSUME TypeOK, MemberIffNow, [Next]_vars PROVE TypeOK'
  OBVIOUS
<1>1. ASSUME NEW u \in Users, Login(u) PROVE TypeOK'
  BY <1>1 DEF Login, TypeOK
<1>2. ASSUME NEW u \in Users, LeaveCurrMap(u), online' \in SUBSET Users PROVE TypeOK'
  BY <1>2, LeaveType
<1>3. ASSUME NEW u \in Users, Logout(u) PROVE TypeOK'
  BY <1>2, <1>3 DEF Logout, TypeOK
<1>4. ASSUME NEW u \in Users, MapLeaveReq(u) PROVE TypeOK'
  BY <1>2, <1>4 DEF MapLeaveReq, TypeOK
<1>5. ASSUME NEW u \in Users, NEW m \in MapIds, MapEnterReq(u, m) PROVE TypeOK'
  <2>1. CASE LeaveCurrMap(u) /\ UNCHANGED online
    BY <1>2, <2>1 DEF TypeOK
  <2>2. ASSUME m \in Maps, NEW p \in FindSpawnPoint(PlayersLeft(u)[m]), Entered(u, m, p)
        PROVE  TypeOK'
    <3>1. Character(p) \in MapPlayer /\ [userId |-> u, node |-> Cell(p)] \in Item
      BY SpawnedType DEF Item
    <3>2. players' \in [Maps -> PlayersOf] /\ octree' \in [Maps -> SUBSET Item]
      BY <2>2, <3>1, LeftTypes DEF Entered, PlayersOf
    <3> QED  BY <2>2, <3>2 DEF Entered, TypeOK, PlayersOf
  <2> QED  BY <1>5, <2>1, <2>2, EnterCases
<1>6. ASSUME NEW u \in Users, NEW b \in Beds, MapSleepReq(u, b) \/ MapWakeReq(u, b)
      PROVE  TypeOK'
  <2> DEFINE m == nowMapId[u]
             pl == PutToBed(m, u, b)
  <2>1. /\ m \in Maps /\ u \in online /\ players[m][u] # Nil
        /\ SleepPlayer(m, u, b) \/ WakePlayer(m, u)
        /\ UNCHANGED <<online, nowMapId, bullets, bulletCount>>
    BY <1>6, SleepCases, MemberIn
  <2>2. CASE WakePlayer(m, u)
    <3>1. PlayersWoken(m, u) \in PlayersOf /\ BedsWoken(m, u) \in [Beds -> Users \cup {Nil}]
      BY <2>1, WokenTypes
    <3> QED  BY <2>1, <2>2, <3>1 DEF WakePlayer, TypeOK, PlayersOf
  <2>3. CASE SleepPlayer(m, u, b)
    <3>1. pl \in PlayersOf /\ \A v \in {u} : pl[v] # Nil
      BY <2>1, PutToBedPlayers, Map3DAssumption
    <3>2. /\ Repointed(pl, {u}) \in PlayersOf
          /\ Reinserted(pl, octree[m], {u}) \in SUBSET Item
      <4> HIDE DEF pl
      <4> QED  BY <2>1, <3>1, RepointedPlayers, ReinsertedType DEF TypeOK
    <3>3. BedsWoken(m, u) \in [Beds -> Users \cup {Nil}]
      BY <2>1, WokenTypes
    <3> QED  BY <2>1, <2>3, <3>2, <3>3 DEF SleepPlayer, TypeOK, PlayersOf
  <2> QED  BY <2>1, <2>2, <2>3
<1>7. ASSUME NEW u \in Users, NEW d \in ShootDists, PlayerShoot(u, d) PROVE TypeOK'
  <2>1. nowMapId[u] \in Maps  BY <1>7 DEF PlayerShoot, TypeOK
  <2> DEFINE m == nowMapId[u]
  <2>2. PICK i \in BulletIds :
          /\ bullets' = [bullets EXCEPT ![m][i] = d]
          /\ bulletCount' = [bulletCount EXCEPT ![m] = @ + 1]
    BY <1>7 DEF PlayerShoot
  <2>3. d \in Nat  BY Map3DAssumption
  <2>4. bulletCount' \in [Maps -> Int]  BY <2>1, <2>2 DEF TypeOK
  <2>5. bullets' \in [Maps -> [BulletIds -> Nat \cup {Nil}]]
    BY <2>1, <2>2, <2>3 DEF TypeOK
  <2> QED  BY <1>7, <2>4, <2>5 DEF PlayerShoot, TypeOK
<1>8. ASSUME NEW m \in Maps, FixedUpdate(m) PROVE TypeOK'
  <2>1. UpdateBullets(m) /\ UNCHANGED <<online, nowMapId, sleeper>>
    BY <1>8 DEF FixedUpdate
  <2>2. /\ bullets' \in [Maps -> [BulletIds -> Nat \cup {Nil}]]
        /\ bulletCount' \in [Maps -> Int]
    BY <2>1, BulletsUpdated
  <2>3. players' \in [Maps -> PlayersOf] /\ octree' \in [Maps -> SUBSET Item]
    BY <1>8, FixedPlayers DEF TypeOK, PlayersOf
  <2> QED  BY <2>1, <2>2, <2>3 DEF TypeOK, PlayersOf
<1>9. CASE UNCHANGED vars
  BY <1>9 DEF vars, TypeOK
<1> QED  BY <1>1, <1>3, <1>4, <1>5, <1>6, <1>7, <1>8, <1>9 DEF Next

-----------------------------------------------------------------------------
LEMMA SameMembers ==
  ASSUME MemberIffNow, UNCHANGED <<online, nowMapId>>,
         \A m \in Maps, u \in Users : players[m][u] = Nil <=> players'[m][u] = Nil
  PROVE  MemberIffNow'
BY DEF MemberIffNow, InMap

(* Membership: whatever is asked for, the two records of where a user plays *)
(* change together.                                                        *)
LEMMA MemberStep == TypeOK /\ MemberIffNow /\ [Next]_vars => MemberIffNow'
<1> SUFFICES ASSUME TypeOK, MemberIffNow, [Next]_vars PROVE MemberIffNow'
  OBVIOUS
<1>1. NoMap \notin Maps /\ Nil \notin MapPlayer
  BY Map3DAssumption DEF NoMap
<1>2. ASSUME NEW u \in Users, Login(u) PROVE MemberIffNow'
  BY <1>1, <1>2 DEF Login, TypeOK, MemberIffNow, InMap
<1>3. ASSUME NEW u \in Users PROVE
        \A m \in Maps : /\ PlayersLeft(u)[m][u] = Nil
                        /\ \A v \in Users \ {u} : PlayersLeft(u)[m][v] = players[m][v]
  <2>1. \A m \in Maps : nowMapId[u] # m => players[m][u] = Nil
    BY DEF MemberIffNow, InMap
  <2>2. CASE nowMapId[u] = NoMap
    BY <1>1, <2>1, <2>2 DEF PlayersLeft
  <2>3. CASE nowMapId[u] # NoMap
    <3>1. nowMapId[u] \in Maps  BY <2>3 DEF TypeOK
    <3> QED  BY <2>1, <2>3, <3>1 DEF PlayersLeft, TypeOK
  <2> QED  BY <2>2, <2>3
<1>4. ASSUME NEW u \in Users, LeaveCurrMap(u), online' = online \/ online' = online \ {u}
      PROVE  MemberIffNow'
  BY <1>1, <1>3, <1>4 DEF LeaveCurrMap, TypeOK, MemberIffNow, InMap
<1>5. ASSUME NEW u \in Users, Logout(u) \/ MapLeaveReq(u) PROVE MemberIffNow'
  BY <1>4, <1>5 DEF Logout, MapLeaveReq
<1>6. ASSUME NEW u \in Users, NEW m \in MapIds, MapEnterReq(u, m) PROVE MemberIffNow'
  <2>1. CASE LeaveCurrMap(u) /\ UNCHANGED online
    BY <1>4, <2>1
  <2>2. ASSUME m \in Maps, u \in online,
               NEW p \in FindSpawnPoint(PlayersLeft(u)[m]), Entered(u, m, p)
        PROVE  MemberIffNow'
    <3>1. Character(p) # Nil  BY <1>1, SpawnedType
    <3>2. PlayersLeft(u) \in [Maps -> PlayersOf]  BY LeftTypes
    <3>3. \A n \in Maps, v \in Users : players'[n][v] =
            IF v = u THEN IF n = m THEN Character(p) ELSE Nil ELSE players[n][v]
      BY <1>3, <2>2, <3>2 DEF Entered, PlayersOf
    <3>4. \A v \in Users : nowMapId'[v] = IF v = u THEN m ELSE nowMapId[v]
      BY <2>2 DEF Entered, TypeOK
    <3> QED  BY <2>2, <3>1, <3>3, <3>4 DEF Entered, MemberIffNow, InMap
  <2> QED  BY <1>6, <2>1, <2>2, EnterCases
<1>7. ASSUME NEW u \in Users, NEW b \in Beds, MapSleepReq(u, b) \/ MapWakeReq(u, b)
      PROVE  MemberIffNow'
  <2> DEFINE m == nowMapId[u]
             pl == PutToBed(m, u, b)
  <2>1. /\ m \in Maps /\ players[m][u] # Nil
        /\ SleepPlayer(m, u, b) \/ WakePlayer(m, u)
        /\ UNCHANGED <<online, nowMapId>>
    BY <1>7, SleepCases, MemberIn
  <2>2. CASE WakePlayer(m, u)
    <3>1. \A v \in Users : players[m][v] = Nil <=> PlayersWoken(m, u)[v] = Nil
      BY <1>1, <2>1, WokenTypes
    <3> HIDE DEF m
    <3> QED  BY <2>1, <2>2, <3>1, SameMembers DEF WakePlayer, TypeOK
  <2>3. CASE SleepPlayer(m, u, b)
    <3>1. /\ pl \in PlayersOf
          /\ \A v \in Users : players[m][v] = Nil <=> pl[v] = Nil
      BY <1>1, <2>1, PutToBedPlayers
    <3>2. \A v \in Users : players[m][v] = Nil <=> Repointed(pl, {u})[v] = Nil
      <4>1. u \in Users /\ pl[u] # Nil  BY <2>1, <3>1
      <4> HIDE DEF pl, m
      <4> QED  BY <3>1, <4>1, RepointedPlayers DEF SamePlayers
    <3> HIDE DEF m, pl
    <3>3. players' = [players EXCEPT ![m] = Repointed(pl, {u})]
      BY <2>3 DEF SleepPlayer, pl
    <3> QED  BY <2>1, <3>2, <3>3, SameMembers DEF TypeOK
  <2> QED  BY <2>1, <2>2, <2>3
<1>8. ASSUME NEW u \in Users, NEW d \in ShootDists, PlayerShoot(u, d) PROVE MemberIffNow'
  BY <1>8, SameMembers DEF PlayerShoot
<1>9. ASSUME NEW m \in Maps, FixedUpdate(m) PROVE MemberIffNow'
  <2>1. PICK ql \in PlayersOf : players' = [players EXCEPT ![m] = ql] /\ SamePlayers(players[m], ql)
    BY <1>9, FixedPlayers DEF Settled
  <2> QED  BY <1>9, <2>1, SameMembers DEF FixedUpdate, SamePlayers, TypeOK
<1>10. CASE UNCHANGED vars
  BY <1>10, SameMembers DEF vars
<1> QED  BY <1>2, <1>5, <1>6, <1>7, <1>8, <1>9, <1>10 DEF Next

LEMMA MapInit == Init => TypeOK /\ MemberIffNow
<1>1. NoMap \notin Maps  BY Map3DAssumption DEF NoMap
<1> QED  BY <1>1 DEF Init, TypeOK, MemberIffNow, InMap

(* Every variable of the maps keeps its type: what Map3D's handlers store,  *)
(* including the count of bullets, is never anything else.                 *)
THEOREM MapTypeCorrect == Spec => []TypeOK
<1>1. TypeOK /\ MemberIffNow /\ [Next]_vars => (TypeOK /\ MemberIffNow)'
  BY MapTypeStep, MemberStep
<1> QED  BY <1>1, MapInit, PTL DEF Spec

(* A character is in a map exactly if its user is online and plays there,   *)
(* for any number of users, maps and switches between them.                *)
THEOREM Membership == Spec => []MemberIffNow
<1>1. TypeOK /\ MemberIffNow /\ [Next]_vars => (TypeOK /\ MemberIffNow)'
  BY MapTypeStep, MemberStep
<1> QED  BY <1>1, MapInit, PTL DEF Spec

-----------------------------------------------------------------------------
LEMMA SameSleepers ==
  ASSUME SleepsInOwnBed, UNCHANGED sleeper,
         \A m \in Maps, u \in Users :
           players'[m][u] # Nil /\ players'[m][u].sleepBedId # Nil
             => players'[m][u] = players[m][u]
  PROVE  SleepsInOwnBed'
BY DEF SleepsInOwnBed, InMap

(* A sleeper keeps its bed and its place: a bed is given only to the one    *)
(* that asks, who gets up from its own first, and nobody is moved asleep.   *)
LEMMA SleepStep == TypeOK /\ MemberIffNow /\ SleepsInOwnBed /\ [Next]_vars => SleepsInOwnBed'
<1> SUFFICES ASSUME TypeOK, MemberIffNow, SleepsInOwnBed, [Next]_vars
             PROVE  SleepsInOwnBed'
  OBVIOUS
<1>1. Nil \notin MapPlayer /\ Nil \notin Users /\ Nil \notin Beds  BY Map3DAssumption
<1>2. ASSUME NEW u \in Users, Login(u) PROVE SleepsInOwnBed'
  BY <1>2, SameSleepers DEF Login
<1>3. ASSUME NEW u \in Users PROVE
        \A m \in Maps, v \in Users : PlayersLeft(u)[m][v] \in {Nil, players[m][v]}
  BY DEF PlayersLeft, TypeOK
<1>4. ASSUME NEW u \in Users, LeaveCurrMap(u) PROVE SleepsInOwnBed'
  BY <1>3, <1>4, SameSleepers DEF LeaveCurrMap
<1>5. ASSUME NEW u \in Users, Logout(u) \/ MapLeaveReq(u) PROVE SleepsInOwnBed'
  BY <1>4, <1>5 DEF Logout, MapLeaveReq
<1>6. ASSUME NEW u \in Users, NEW m \in MapIds, MapEnterReq(u, m) PROVE SleepsInOwnBed'
  <2>1. ASSUME m \in Maps, NEW p \in FindSpawnPoint(PlayersLeft(u)[m]), Entered(u, m, p)
        PROVE  SleepsInOwnBed'
    <3>1. PlayersLeft(u) \in [Maps -> PlayersOf]  BY LeftTypes
    <3>2. \A n \in Maps, v \in Users :
            players'[n][v] \in {Character(p), PlayersLeft(u)[n][v]}
      BY <2>1, <3>1 DEF Entered, PlayersOf
    <3>3. Character(p).sleepBedId = Nil  BY DEF Character
    <3> QED  BY <1>3, <2>1, <3>2, <3>3, SameSleepers DEF Entered
  <2> QED  BY <1>4, <1>6, <2>1, EnterCases
<1>7. ASSUME NEW u \in Users, NEW b \in Beds, MapSleepReq(u, b) \/ MapWakeReq(u, b)
      PROVE  SleepsInOwnBed'
  <2> DEFINE m == nowMapId[u]
             pl == PutToBed(m, u, b)
             asleep(v) == players[m][v] # Nil /\ players[m][v].sleepBedId # Nil
  <2>1. /\ m \in Maps /\ players[m][u] # Nil
        /\ (SleepAllowed(m, u, b) /\ SleepPlayer(m, u, b)) \/ WakePlayer(m, u)
    BY <1>7, SleepCases, MemberIn
  <2>2. \A v \in Users \ {u} : asleep(v) =>
          /\ players[m][v].sleepBedId \in Beds
          /\ BedsWoken(m, u)[players[m][v].sleepBedId] = v
          /\ players[m][v].pos = BedPos[players[m][v].sleepBedId]
    BY <1>1, <2>1 DEF SleepsInOwnBed, InMap, BedsWoken, TypeOK, MapPlayer
  <2>3. CASE WakePlayer(m, u)
    <3>1. /\ PlayersWoken(m, u)[u].sleepBedId = Nil
          /\ \A v \in Users \ {u} : PlayersWoken(m, u)[v] = players[m][v]
      BY <2>1, WokenTypes
    <3>2. /\ players' = [players EXCEPT ![m] = PlayersWoken(m, u)]
          /\ sleeper' = [sleeper EXCEPT ![m] = BedsWoken(m, u)]
      BY <2>3 DEF WakePlayer
    <3> HIDE DEF m
    <3> QED  BY <2>1, <2>2, <3>1, <3>2 DEF SleepsInOwnBed, InMap, TypeOK
  <2>4. CASE SleepAllowed(m, u, b) /\ SleepPlayer(m, u, b)
    <3> DEFINE ql == Repointed(pl, {u})
               beds == [BedsWoken(m, u) EXCEPT ![b] = u]
    <3>1. /\ pl \in PlayersOf /\ pl[u] # Nil
          /\ pl[u].sleepBedId = b /\ pl[u].pos = BedPos[b]
          /\ \A v \in Users \ {u} : pl[v] = players[m][v]
      BY <1>1, <2>1, PutToBedPlayers
    <3>2. /\ ql[u].sleepBedId = b /\ ql[u].pos = BedPos[b]
          /\ \A v \in Users \ {u} : ql[v] = players[m][v]
      <4> HIDE DEF pl, m
      <4>1. /\ SamePlayers(pl, Repointed(pl, {u}))
            /\ \A v \in Users : pl[v] # Nil => Repointed(pl, {u})[v].pos = pl[v].pos
            /\ \A v \in Users \ {u} : Repointed(pl, {u})[v] = pl[v]
        BY <3>1, RepointedPlayers
      <4> QED  BY <3>1, <4>1 DEF SamePlayers
    <3>3. BedsWoken(m, u) \in [Beds -> Users \cup {Nil}] /\ BedsWoken(m, u)[b] = Nil
      BY <2>1, <2>4, WokenTypes DEF SleepAllowed
    <3>4. /\ beds[b] = u
          /\ \A v \in Users \ {u} : asleep(v) => beds[players[m][v].sleepBedId] = v
      BY <1>1, <2>2, <3>3
    <3>5. /\ players' = [players EXCEPT ![m] = ql]
          /\ sleeper' = [sleeper EXCEPT ![m] = beds]
      BY <2>4 DEF SleepPlayer
    <3> HIDE DEF m, ql, beds
    <3>6. ASSUME NEW v \in Users, ql[v] # Nil, ql[v].sleepBedId # Nil
          PROVE  beds[ql[v].sleepBedId] = v /\ ql[v].pos = BedPos[ql[v].sleepBedId]
      <4>1. CASE v = u  BY <4>1, <3>2, <3>4
      <4>2. CASE v # u  BY <4>2, <3>2, <3>4, <3>6, <2>2
      <4> QED  BY <4>1, <4>2
    <3>7. /\ players'[m] = ql /\ sleeper'[m] = beds
          /\ \A n \in Maps \ {m} : players'[n] = players[n] /\ sleeper'[n] = sleeper[n]
      BY <2>1, <3>5 DEF TypeOK
    <3> QED  BY <3>6, <3>7 DEF SleepsInOwnBed, InMap
  <2> QED  BY <2>1, <2>3, <2>4
<1>8. ASSUME NEW u \in Users, NEW d \in ShootDists, PlayerShoot(u, d) PROVE SleepsInOwnBed'
  BY <1>8, SameSleepers DEF PlayerShoot
<1>9. ASSUME NEW m \in Maps, FixedUpdate(m) PROVE SleepsInOwnBed'
  <2>1. PICK ql \in PlayersOf : players' = [players EXCEPT ![m] = ql] /\ Settled(players[m], ql)
    BY <1>9, FixedPlayers
  <2>2. \A u \in Users : ql[u] # Nil /\ ql[u].sleepBedId # Nil => ql[u] = players[m][u]
    BY <2>1 DEF Settled, SamePlayers
  <2> QED  BY <1>9, <2>1, <2>2, SameSleepers DEF FixedUpdate, TypeOK
<1>10. CASE UNCHANGED vars
  BY <1>10, SameSleepers DEF vars
<1> QED  BY <1>2, <1>5, <1>6, <1>7, <1>8, <1>9, <1>10 DEF Next

(* Whoever sleeps does so alone and unmoved in its bed, however many want   *)
(* the same bed and wherever the others walk.                              *)
THEOREM Sleepers == Spec => []SleepsInOwnBed
<1>1. Init => SleepsInOwnBed  BY DEF Init, SleepsInOwnBed, InMap
<1> QED  BY <1>1, SleepStep, MapTypeCorrect, Membership, PTL DEF Spec

-----------------------------------------------------------------------------
LEMMA SameCounts ==
  ASSUME CountIsExact, UNCHANGED <<bullets, bulletCount>>
  PROVE  CountIsExact'
BY DEF CountIsExact, Flying

(* The counter follows every shot and every removal.                       *)
LEMMA CountStep == TypeOK /\ CountIsExact /\ [Next]_vars => CountIsExact'
<1> SUFFICES ASSUME TypeOK, CountIsExact, [Next]_vars PROVE CountIsExact'
  OBVIOUS
<1>1. ASSUME NEW u \in Users, Login(u) \/ Logout(u) \/ MapLeaveReq(u) PROVE CountIsExact'
  BY <1>1, SameCounts DEF Login, Logout, MapLeaveReq, LeaveCurrMap
<1>2. ASSUME NEW u \in Users, NEW m \in MapIds, MapEnterReq(u, m) PROVE CountIsExact'
  BY <1>2, SameCounts DEF MapEnterReq, LeaveCurrMap
<1>3. ASSUME NEW u \in Users, NEW b \in Beds, MapSleepReq(u, b) \/ MapWakeReq(u, b)
      PROVE  CountIsExact'
  BY <1>3, SameCounts DEF MapSleepReq, MapWakeReq
<1>4. ASSUME NEW u \in Users, NEW d \in ShootDists, PlayerShoot(u, d) PROVE CountIsExact'
  <2>1. PICK m \in Maps : m = nowMapId[u]  BY <1>4 DEF PlayerShoot, TypeOK
  <2>2. PICK i \in BulletIds :
          /\ bullets[m][i] = Nil
          /\ bullets' = [bullets EXCEPT ![m][i] = d]
          /\ bulletCount' = [bulletCount EXCEPT ![m] = @ + 1]
    BY <1>4, <2>1 DEF PlayerShoot
  <2>3. d # Nil  BY Map3DAssumption
  <2>4. Flying(m)' = Flying(m) \cup {i} /\ i \notin Flying(m)
    BY <2>1, <2>2, <2>3 DEF Flying, TypeOK
  <2>5. IsFiniteSet(Flying(m))
    BY Map3DAssumption, FS_Subset DEF Flying
  <2>6. Cardinality(Flying(m) \cup {i}) = Cardinality(Flying(m)) + 1
    BY <2>4, <2>5, FS_AddElement
  <2>7. \A n \in Maps \ {m} : Flying(n)' = Flying(n) /\ bulletCount'[n] = bulletCount[n]
    BY <2>2 DEF Flying, TypeOK
  <2>8. bulletCount'[m] = bulletCount[m] + 1  BY <2>1, <2>2 DEF TypeOK
  <2>9. CountIsExact' = \A n \in Maps : bulletCount'[n] = Cardinality(Flying(n)')
    BY DEF CountIsExact, Flying
  <2> QED  BY <2>1, <2>4, <2>6, <2>7, <2>8, <2>9 DEF CountIsExact
<1>5. ASSUME NEW m \in Maps, FixedUpdate(m) PROVE CountIsExact'
  BY <1>5, BulletsUpdated DEF FixedUpdate
<1>6. CASE UNCHANGED vars
  BY <1>6, SameCounts DEF vars
<1> QED  BY <1>1, <1>2, <1>3, <1>4, <1>5, <1>6 DEF Next

(* The limit of bullets counts the bullets there are, for every limit and   *)
(* every number of reasons to remove some of them in one update.           *)
THEOREM Counting == Spec => []CountIsExact
<1>1. Init => CountIsExact
  <2>1. Init => \A m \in Maps : Flying(m) = {} /\ bulletCount[m] = 0
    BY DEF Init, Flying
  <2> QED  BY <2>1, FS_EmptySet DEF CountIsExact
<1> QED  BY <1>1, CountStep, MapTypeCorrect, PTL DEF Spec

-----------------------------------------------------------------------------
(* What Indexed says of one map.                                           *)
IndexedBy(pl, items) ==
  /\ items = Listed(pl)
  /\ \A u \in Users : pl[u] # Nil => pl[u].map3DOctree = Cell(pl[u].pos)

LEMMA IndexedIs == Indexed <=> \A m \in Maps : IndexedBy(players[m], octree[m])
BY DEF Indexed, IndexedBy, InMap

LEMMA SameIndex ==
  ASSUME Indexed, UNCHANGED <<players, octree>>
  PROVE  Indexed'
BY DEF Indexed, InMap

(* One map changes, and stays indexed.                                     *)
LEMMA OneIndexed ==
  ASSUME TypeOK, Indexed, NEW m \in Maps, NEW pl, NEW items, IndexedBy(pl, items),
         players' = [players EXCEPT ![m] = pl], octree' = [octree EXCEPT ![m] = items]
  PROVE  Indexed'
<1>1. \A n \in Maps : IndexedBy(players[n], octree[n])  BY IndexedIs
<1>2. \A n \in Maps :
        players'[n] = (IF n = m THEN pl ELSE players[n])
          /\ octree'[n] = (IF n = m THEN items ELSE octree[n])
  BY DEF TypeOK
<1> QED  BY <1>1, <1>2 DEF Indexed, IndexedBy, InMap

(* A character that goes takes its item with it, and one that appears gets  *)
(* one.                                                                    *)
LEMMA GoneIndexed ==
  ASSUME NEW pl \in PlayersOf, NEW u \in Users, pl[u] # Nil, NEW items, IndexedBy(pl, items)
  PROVE  IndexedBy([pl EXCEPT ![u] = Nil],
                   items \ {[userId |-> u, node |-> pl[u].map3DOctree]})
<1> DEFINE ql == [pl EXCEPT ![u] = Nil]
<1>1. ql[u] = Nil /\ \A v \in Users \ {u} : ql[v] = pl[v]  BY DEF PlayersOf
<1>2. Listed(ql) = {[userId |-> v, node |-> pl[v].map3DOctree] : v \in {w \in Users \ {u} : pl[w] # Nil}}
  BY <1>1 DEF Listed
<1>3. Listed(pl) \ {[userId |-> u, node |-> pl[u].map3DOctree]}
        = {[userId |-> v, node |-> pl[v].map3DOctree] : v \in {w \in Users \ {u} : pl[w] # Nil}}
  BY DEF Listed
<1> QED  BY <1>1, <1>2, <1>3 DEF IndexedBy

LEMMA SpawnedIndexed ==
  ASSUME NEW pl \in PlayersOf, NEW u \in Users, pl[u] = Nil, NEW items, IndexedBy(pl, items),
         NEW p, Character(p) # Nil
  PROVE  IndexedBy([pl EXCEPT ![u] = Character(p)],
                   items \cup {[userId |-> u, node |-> Cell(p)]})
<1> DEFINE ql == [pl EXCEPT ![u] = Character(p)]
<1>1. ql[u] = Character(p) /\ \A v \in Users \ {u} : ql[v] = pl[v]  BY DEF PlayersOf
<1>2. Character(p).map3DOctree = Cell(p) /\ Character(p).pos = p  BY DEF Character
<1> HIDE DEF ql
<1>3. Listed(ql) = {[userId |-> v, node |-> ql[v].map3DOctree] :
                      v \in {w \in Users : pl[w] # Nil} \cup {u}}
  BY <1>1 DEF Listed
<1>4. Listed(ql) = Listed(pl) \cup {[userId |-> u, node |-> Cell(p)]}
  BY <1>1, <1>2, <1>3 DEF Listed
<1>5. \A v \in Users : ql[v] # Nil => ql[v].map3DOctree = Cell(ql[v].pos)
  BY <1>1, <1>2 DEF IndexedBy
<1> QED  BY <1>4, <1>5 DEF IndexedBy, ql

(* Every way in which a player moves, appears or goes changes its item in   *)
(* the octree as well.                                                     *)
LEMMA IndexStep == TypeOK /\ MemberIffNow /\ Indexed /\ [Next]_vars => Indexed'
<1> SUFFICES ASSUME TypeOK, MemberIffNow, Indexed, [Next]_vars PROVE Indexed'
  OBVIOUS
<1>1. Nil \notin MapPlayer /\ NoMap \notin Maps  BY Map3DAssumption DEF NoMap
<1>2. \A m \in Maps : IndexedBy(players[m], octree[m]) /\ players[m] \in PlayersOf
  BY IndexedIs DEF TypeOK, PlayersOf
<1>3. ASSUME NEW u \in Users, nowMapId[u] \in Maps, u \in online PROVE
        LET m == nowMapId[u] IN
          /\ PlayersLeft(u) = [players EXCEPT ![m] = [players[m] EXCEPT ![u] = Nil]]
          /\ OctreeLeft(u) = [octree EXCEPT ![m] =
               octree[m] \ {[userId |-> u, node |-> players[m][u].map3DOctree]}]
          /\ players[m][u] # Nil
  BY <1>1, <1>3, MemberIn DEF PlayersLeft, OctreeLeft
<1>4. ASSUME NEW u \in online PROVE
        \A m \in Maps : IndexedBy(PlayersLeft(u)[m], OctreeLeft(u)[m])
  <2>1. CASE nowMapId[u] = NoMap
    BY <2>1, <1>2 DEF PlayersLeft, OctreeLeft
  <2>2. CASE nowMapId[u] # NoMap
    <3>1. u \in Users /\ nowMapId[u] \in Maps  BY <2>2 DEF TypeOK
    <3>2. PICK m \in Maps : m = nowMapId[u]  BY <3>1
    <3>3. IndexedBy([players[m] EXCEPT ![u] = Nil],
                    octree[m] \ {[userId |-> u, node |-> players[m][u].map3DOctree]})
      BY <1>2, <1>3, <3>1, <3>2, GoneIndexed
    <3>4. /\ PlayersLeft(u)[m] = [players[m] EXCEPT ![u] = Nil]
          /\ OctreeLeft(u)[m] = octree[m] \ {[userId |-> u, node |-> players[m][u].map3DOctree]}
          /\ \A n \in Maps \ {m} :
               PlayersLeft(u)[n] = players[n] /\ OctreeLeft(u)[n] = octree[n]
      BY <1>3, <3>1, <3>2 DEF TypeOK
    <3> QED  BY <1>2, <3>3, <3>4
  <2> QED  BY <2>1, <2>2
<1>5. ASSUME NEW u \in online, LeaveCurrMap(u) PROVE Indexed'
  <2>1. players' = PlayersLeft(u) /\ octree' = OctreeLeft(u)  BY <1>5 DEF LeaveCurrMap
  <2> QED  BY <1>4, <2>1 DEF Indexed, IndexedBy, InMap
<1>6. ASSUME NEW u \in Users, Login(u) PROVE Indexed'
  BY <1>6, SameIndex DEF Login
<1>7. ASSUME NEW u \in Users, Logout(u) \/ MapLeaveReq(u) PROVE Indexed'
  BY <1>5, <1>7 DEF Logout, MapLeaveReq
<1>8. ASSUME NEW u \in Users, NEW m \in MapIds, MapEnterReq(u, m) PROVE Indexed'
  <2>1. ASSUME m \in Maps, u \in online,
               NEW p \in FindSpawnPoint(PlayersLeft(u)[m]), Entered(u, m, p)
        PROVE  Indexed'
    <3> DEFINE pl == PlayersLeft(u)
               oc == OctreeLeft(u)
    <3>1. pl \in [Maps -> PlayersOf] /\ oc \in [Maps -> SUBSET Item]  BY LeftTypes
    <3>2. \A n \in Maps : IndexedBy(pl[n], oc[n])  BY <1>4, <2>1
    <3>3. Character(p) # Nil  BY <1>1, SpawnedType
    <3>4. pl[m][u] = Nil
            /\ players' = [pl EXCEPT ![m] = [pl[m] EXCEPT ![u] = Character(p)]]
            /\ octree' = [oc EXCEPT ![m] = oc[m] \cup {[userId |-> u, node |-> Cell(p)]}]
      BY <2>1 DEF Entered
    <3> HIDE DEF pl, oc
    <3>5. IndexedBy([pl[m] EXCEPT ![u] = Character(p)],
                    oc[m] \cup {[userId |-> u, node |-> Cell(p)]})
      BY <2>1, <3>1, <3>2, <3>3, <3>4, SpawnedIndexed
    <3>6. \A n \in Maps : IndexedBy(players'[n], octree'[n])
      BY <3>1, <3>2, <3>4, <3>5
    <3> QED  BY <3>6 DEF Indexed, IndexedBy, InMap
  <2>2. u \in online  BY <1>8 DEF MapEnterReq
  <2> QED  BY <1>5, <1>8, <2>1, <2>2, EnterCases
<1>9. ASSUME NEW u \in Users, NEW b \in Beds, MapSleepReq(u, b) \/ MapWakeReq(u, b)
      PROVE  Indexed'
  <2>1. PICK m \in Maps : m = nowMapId[u]  BY <1>9, SleepCases
  <2>2. /\ players[m][u] # Nil
        /\ SleepPlayer(m, u, b) \/ WakePlayer(m, u)
    BY <1>9, <2>1, SleepCases, MemberIn
  <2>3. CASE WakePlayer(m, u)
    <3> DEFINE wl == PlayersWoken(m, u)
    <3>1. /\ wl[u] # Nil /\ wl[u].pos = players[m][u].pos
          /\ wl[u].map3DOctree = players[m][u].map3DOctree
          /\ \A v \in Users \ {u} : wl[v] = players[m][v]
      BY <1>1, <2>2, WokenTypes
    <3>2. players' = [players EXCEPT ![m] = wl] /\ UNCHANGED octree
      BY <2>3 DEF WakePlayer
    <3> HIDE DEF wl
    <3>3. Listed(wl) = Listed(players[m])
      BY <2>2, <3>1 DEF Listed
    <3>4. IndexedBy(wl, octree[m])
      BY <1>2, <2>2, <3>1, <3>3 DEF IndexedBy
    <3>5. octree' = [octree EXCEPT ![m] = octree[m]]  BY <3>2 DEF TypeOK
    <3> QED  BY <3>2, <3>4, <3>5, OneIndexed
  <2>4. CASE SleepPlayer(m, u, b)
    <3> DEFINE pl == PutToBed(m, u, b)
               ql == Repointed(pl, {u})
    <3>1. /\ pl \in PlayersOf /\ pl[u] # Nil
          /\ pl[u].map3DOctree = players[m][u].map3DOctree
          /\ \A v \in Users \ {u} : pl[v] = players[m][v]
      BY <1>1, <2>2, PutToBedPlayers
    <3>2. /\ players' = [players EXCEPT ![m] = ql]
          /\ octree' = [octree EXCEPT ![m] = Reinserted(pl, octree[m], {u})]
      BY <2>4 DEF SleepPlayer
    <3> HIDE DEF pl
    <3>3. Listed(pl) = octree[m]
      <4>1. Listed(pl) = Listed(players[m])  BY <2>2, <3>1 DEF Listed
      <4> QED  BY <4>1, <1>2 DEF IndexedBy
    <3>4. /\ Reinserted(pl, octree[m], {u}) = Listed(ql)
          /\ ql[u].pos = pl[u].pos /\ ql[u].map3DOctree = Cell(pl[u].pos)
          /\ \A v \in Users \ {u} : ql[v] = pl[v]
      BY <3>1, <3>3, ReinsertedListed, RepointedPlayers
    <3> HIDE DEF ql
    <3>5. IndexedBy(ql, Listed(ql))
      BY <1>2, <3>1, <3>4 DEF IndexedBy
    <3> QED  BY <3>2, <3>4, <3>5, OneIndexed
  <2> QED  BY <2>2, <2>3, <2>4
<1>10. ASSUME NEW u \in Users, NEW d \in ShootDists, PlayerShoot(u, d) PROVE Indexed'
  BY <1>10, SameIndex DEF PlayerShoot
<1>11. ASSUME NEW m \in Maps, FixedUpdate(m) PROVE Indexed'
  <2>1. PICK ql \in PlayersOf, items \in SUBSET Item :
          /\ players' = [players EXCEPT ![m] = ql]
          /\ octree' = [octree EXCEPT ![m] = items]
          /\ Settled(players[m], ql)
          /\ octree[m] = Listed(players[m]) => items = Listed(ql)
    BY <1>11, FixedPlayers
  <2>2. IndexedBy(ql, items)
    BY <1>2, <2>1 DEF IndexedBy, Settled
  <2> QED  BY <2>1, <2>2, OneIndexed
<1>12. CASE UNCHANGED vars
  BY <1>12, SameIndex DEF vars
<1> QED  BY <1>6, <1>7, <1>8, <1>9, <1>10, <1>11, <1>12 DEF Next

(* The node of a position contains it.                                     *)
LEMMA CellContains ==
  \A p \in Pos : /\ Cell(p) \in Nat
                 /\ Cell(p) * CellSize <= p
                 /\ p < (Cell(p) + 1) * CellSize
BY Map3DAssumption DEF Pos, Cell

(* An indexed octree answers every query exactly: a node that is not looked *)
(* into has nobody in the range.                                           *)
LEMMA IndexedQueries == TypeOK /\ Indexed => QueryExact
<1> SUFFICES ASSUME TypeOK, Indexed, NEW m \in Maps
             PROVE  /\ \A i \in octree[m] : InMap(m, i.userId)
                    /\ \A i, j \in octree[m] : i.userId = j.userId => i = j
                    /\ \A p \in Pos :
                         OcQuery(m, p - ViewRange, p + ViewRange) =
                           {u \in Users : /\ InMap(m, u)
                                          /\ players[m][u].pos \in p - ViewRange .. (p + ViewRange) - 1}
  BY DEF QueryExact
<1>1. octree[m] = Listed(players[m])  BY DEF Indexed
<1>2. \A i \in octree[m] : InMap(m, i.userId)  BY <1>1 DEF Listed, InMap
<1>3. \A i, j \in octree[m] : i.userId = j.userId => i = j  BY <1>1 DEF Listed
<1>4. ASSUME NEW p \in Pos, NEW u \in Users, InMap(m, u),
             players[m][u].pos \in p - ViewRange .. (p + ViewRange) - 1
      PROVE  u \in OcQuery(m, p - ViewRange, p + ViewRange)
  <2> DEFINE q == players[m][u].pos
             i == [userId |-> u, node |-> Cell(q)]
  <2>1. q \in Pos  BY <1>4 DEF TypeOK, MapPlayer, InMap
  <2>2. i \in octree[m]  BY <1>1, <1>4 DEF Listed, Indexed, InMap
  <2>3. p \in Int /\ q \in Int /\ ViewRange \in Nat /\ CellSize \in Nat
    BY <2>1, Map3DAssumption DEF Pos
  <2>4. p - ViewRange <= q /\ q <= p + ViewRange  BY <1>4, <2>3
  <2>5. Cell(q) * CellSize <= q /\ q < (Cell(q) + 1) * CellSize /\ Cell(q) \in Nat
    BY <2>1, CellContains
  <2>6. Cell(q) * CellSize \in Int /\ (Cell(q) + 1) * CellSize \in Int  BY <2>3, <2>5
  <2>7. Cell(q) * CellSize <= p + ViewRange /\ p - ViewRange <= (Cell(q) + 1) * CellSize
    <3> DEFINE x == Cell(q) * CellSize
               y == (Cell(q) + 1) * CellSize
    <3> HIDE DEF x, y, q
    <3>1. x \in Int /\ y \in Int /\ x <= q /\ q < y  BY <2>5, <2>6 DEF x, y
    <3>2. x <= p + ViewRange /\ p - ViewRange <= y  BY <2>3, <2>4, <3>1
    <3> QED  BY <3>2 DEF x, y
  <2>8. players[m][i.userId] # Nil /\ players[m][i.userId].pos \in p - ViewRange .. (p + ViewRange) - 1
    BY <1>4 DEF InMap
  <2>9. i.userId = u /\ i.node = Cell(q)  OBVIOUS
  <2> DEFINE lo == p - ViewRange
             hi == p + ViewRange
  <2> HIDE DEF i, q, lo, hi
  <2>10. i \in OcHits(m, lo, hi)
    <3>1. i.node * CellSize <= hi /\ lo <= (i.node + 1) * CellSize
      BY <2>7, <2>9 DEF lo, hi
    <3>2. players[m][i.userId] # Nil /\ players[m][i.userId].pos \in lo .. hi - 1
      BY <2>8 DEF lo, hi
    <3> QED  BY <2>2, <3>1, <3>2, Zenon DEF OcHits
  <2>11. u \in OcQuery(m, lo, hi)  BY <2>9, <2>10 DEF OcQuery
  <2> QED  BY <2>11 DEF lo, hi
<1>5. ASSUME NEW p \in Pos, NEW u \in OcQuery(m, p - ViewRange, p + ViewRange)
      PROVE  /\ u \in Users /\ InMap(m, u)
             /\ players[m][u].pos \in p - ViewRange .. (p + ViewRange) - 1
  <2>1. PICK i \in octree[m] :
          /\ u = i.userId
          /\ players[m][i.userId] # Nil
          /\ players[m][i.userId].pos \in p - ViewRange .. (p + ViewRange) - 1
    <3>1. PICK i \in OcHits(m, p - ViewRange, p + ViewRange) : u = i.userId  BY DEF OcQuery
    <3> QED  BY <3>1, Zenon DEF OcHits
  <2>2. i.userId \in Users  BY <1>1 DEF Listed
  <2> QED  BY <2>1, <2>2 DEF InMap
<1> QED  BY <1>2, <1>3, <1>4, <1>5

(* The state sync, the shots and the separation of bodies see exactly the   *)
(* players in their range, for every size of the nodes, of the range and of *)
(* the map.                                                                *)
THEOREM QueriesAreExact == Spec => []QueryExact
<1>1. Init => Indexed
  BY DEF Init, Indexed, Listed, InMap
<1> QED  BY <1>1, IndexStep, IndexedQueries, MapTypeCorrect, Membership, PTL DEF Spec
=============================================================================
