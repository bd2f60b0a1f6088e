---------------------------- MODULE Map2DProofs ----------------------------
(***************************************************************************)
(* Proofs about Map2D for every set of users and maps, every geometry and  *)
(* every choice of speeds, steps and tick rhythms: type correctness,       *)
(* membership, the input numbers, the limits of position and speed, the    *)
(* clock, the quadtree, and the progress of who heads for a border.        *)
(***************************************************************************)
EXTENDS Map2DProps, TLAPS

PlayersOf == [Users -> MapPlayer \cup {Nil}]

LEMMA Parameters ==
  /\ Width \in Nat /\ BodyRadius \in Nat /\ Center \in Int
  /\ MaxSpeed \in Nat /\ Accel \in Nat /\ ViewRange \in Nat /\ MaxGap \in Nat
  /\ CellSize \in Nat /\ CellSize > 0 /\ Unit \in Nat /\ Unit > 0
  /\ SpeedRatio \in Nat /\ SpeedRatio > 0 /\ DT_MS \in Nat /\ DT_MS > 0
  /\ UINT32_MAX \in Nat /\ UINT32_MAX > 0
  /\ Left \in 0 .. Width /\ Right \in 0 .. Width /\ Left <= Right
  /\ Center \in Left .. Right
  /\ \A d \in Dirs : d \in Int /\ -Unit <= d /\ d <= Unit
  /\ NoMap \notin Maps /\ Nil \notin MapPlayer /\ Nil \notin Nat
BY Map2DAssumption DEF Left, Right, NoMap

LEMMA CellType == \A p \in 0 .. Width : Cell(p) \in Cells
BY DEF Cells

-----------------------------------------------------------------------------
(* Physics.                                                                *)
LEMMA ClampedInside ==
  ASSUME NEW x \in Int
  PROVE  Clamped(x) \in Left .. Right /\ Clamped(x) \in 0 .. Width
BY Parameters DEF Clamped

LEMMA AbsSign ==
  ASSUME NEW n \in Int
  PROVE  /\ Abs(n) \in Nat /\ Sign(n) \in {-1, 0, 1}
         /\ n >= 0 => Abs(n) = n
         /\ n < 0 => Abs(n) = -n
         /\ n > 0 => Sign(n) = 1
         /\ n < 0 => Sign(n) = -1
BY DEF Abs, Sign

(* The direction's own speed is within the maximum, rounded down or not.    *)
LEMMA TargetInside ==
  ASSUME NEW d \in Dirs
  PROVE  (d * MaxSpeed) \div Unit \in -MaxSpeed .. MaxSpeed
<1>1. d \in Int /\ -Unit <= d /\ d <= Unit /\ MaxSpeed \in Nat /\ Unit \in Nat /\ Unit > 0
  BY Parameters
<1> DEFINE a == d * MaxSpeed
           q == a \div Unit
<1>2. a \in Int  BY <1>1
<1> HIDE DEF a
<1>3. q \in Int /\ Unit * q <= a /\ a < Unit * (q + 1)  BY <1>1, <1>2
<1>4. -(Unit * MaxSpeed) <= a /\ a <= Unit * MaxSpeed
  BY <1>1, SMTT(30) DEF a
<1> HIDE DEF q
<1>5. q <= MaxSpeed
  <2> SUFFICES ASSUME q >= MaxSpeed + 1 PROVE FALSE  BY <1>1, <1>3
  <2>1. Unit * q >= Unit * (MaxSpeed + 1)  BY <1>1, <1>3, SMTT(30)
  <2>2. Unit * (MaxSpeed + 1) = Unit * MaxSpeed + Unit  BY <1>1
  <2>3. Unit * q \in Int /\ Unit * MaxSpeed \in Int  BY <1>1, <1>3
  <2> QED  BY <1>1, <1>2, <1>3, <1>4, <2>1, <2>2, <2>3
<1>6. -MaxSpeed <= q
  <2> SUFFICES ASSUME q + 1 <= -MaxSpeed PROVE FALSE  BY <1>1, <1>3
  <2>1. Unit * (q + 1) <= Unit * (-MaxSpeed)  BY <1>1, <1>3, SMTT(30)
  <2>2. Unit * (-MaxSpeed) = -(Unit * MaxSpeed)  BY <1>1
  <2>3. Unit * (q + 1) \in Int /\ Unit * MaxSpeed \in Int  BY <1>1, <1>3
  <2> QED  BY <1>1, <1>2, <1>3, <1>4, <2>1, <2>2, <2>3
<1> QED  BY <1>1, <1>3, <1>5, <1>6 DEF q, a

(* The new speed lies between the old one and the direction's own.          *)
LEMMA AcceleratedInside ==
  ASSUME NEW v \in Int, NEW d \in Dirs
  PROVE  /\ Accelerated(v, d) \in Int
         /\ v \in -MaxSpeed .. MaxSpeed => Accelerated(v, d) \in -MaxSpeed .. MaxSpeed
<1> DEFINE target == (d * MaxSpeed) \div Unit
           most == Abs((Accel * d) \div Unit)
<1>1. target \in -MaxSpeed .. MaxSpeed /\ MaxSpeed \in Nat
  BY TargetInside, Parameters
<1>2. most \in Nat
  <2>1. (Accel * d) \div Unit \in Int  BY Parameters
  <2> QED  BY <2>1, AbsSign
<1>3. Accelerated(v, d) = IF most # 0 /\ Abs(target - v) > most
                          THEN v + Sign(target - v) * most ELSE target
  BY DEF Accelerated
<1> HIDE DEF target, most
<1>4. target - v \in Int  BY <1>1
<1>5. CASE Accelerated(v, d) = target  BY <1>1, <1>5
<1>6. CASE Abs(target - v) > most /\ Accelerated(v, d) = v + Sign(target - v) * most
  <2>1. CASE target - v > 0
    BY <1>1, <1>2, <1>4, <1>6, <2>1, AbsSign
  <2>2. CASE target - v < 0
    BY <1>1, <1>2, <1>4, <1>6, <2>2, AbsSign
  <2>3. CASE target - v = 0
    BY <1>1, <1>2, <1>4, <1>6, <2>3, AbsSign
  <2> QED  BY <1>4, <2>1, <2>2, <2>3
<1> QED  BY <1>3, <1>5, <1>6

(* A player that moves stays a player of the map, in the node it points to. *)
LEMMA MovedPlayer ==
  ASSUME NEW pl \in MapPlayer
  PROVE  LET ql == PlayerPhysicsMove(pl) IN
           /\ ql \in MapPlayer
           /\ ql.lastSeq = pl.lastSeq
           /\ ql.x \in Left .. Right
           /\ ql.mapQuadTree = Cell(ql.x)
           /\ pl.vX \in -MaxSpeed .. MaxSpeed => ql.vX \in -MaxSpeed .. MaxSpeed
<1> DEFINE v == Accelerated(pl.vX, pl.dirX)
           x == Clamped(pl.x + (v * DT_MS) \div SpeedRatio)
<1>1. pl.x \in Int /\ pl.vX \in Int /\ pl.dirX \in Dirs
  BY Parameters DEF MapPlayer
<1>2. v \in Int /\ (pl.vX \in -MaxSpeed .. MaxSpeed => v \in -MaxSpeed .. MaxSpeed)
  BY <1>1, AcceleratedInside
<1> HIDE DEF v
<1>3. pl.x + (v * DT_MS) \div SpeedRatio \in Int
  BY <1>1, <1>2, Parameters
<1>4. x \in Left .. Right /\ x \in 0 .. Width  BY <1>3, ClampedInside
<1> HIDE DEF x
<1>5. Cell(x) \in Cells  BY <1>4, CellType
<1>6. PlayerPhysicsMove(pl) = [pl EXCEPT !.vX = v, !.x = x, !.mapQuadTree = Cell(x)]
  BY DEF PlayerPhysicsMove, v, x
<1> QED  BY <1>2, <1>4, <1>5, <1>6 DEF MapPlayer

(* What a fixed update makes of the players of its map: all stay.           *)
MovedAll(m) == [u \in Users |-> IF InMap(m, u) THEN PlayerPhysicsMove(players[m][u]) ELSE Nil]
Who(m) == {u \in Users : InMap(m, u)}

LEMMA FixedPlayers ==
  ASSUME TypeOK, NEW m \in Maps
  PROVE  /\ MovedAll(m) \in PlayersOf
         /\ \A u \in Users : MovedAll(m)[u] = Nil <=> players[m][u] = Nil
         /\ \A u \in Who(m) : /\ players[m][u] \in MapPlayer
                              /\ MovedAll(m)[u] = PlayerPhysicsMove(players[m][u])
<1>1. \A u \in Who(m) : players[m][u] \in MapPlayer
  BY DEF TypeOK, Who, InMap
<1>2. \A u \in Who(m) : PlayerPhysicsMove(players[m][u]) \in MapPlayer
  BY <1>1, MovedPlayer
<1>3. Nil \notin MapPlayer  BY Parameters
<1> QED  BY <1>1, <1>2, <1>3 DEF MovedAll, PlayersOf, Who, InMap

LEMMA FixedCases ==
  ASSUME NEW m \in Maps, FixedUpdate(m)
  PROVE  /\ players' = [players EXCEPT ![m] = MovedAll(m)]
         /\ quadTree' = [quadTree EXCEPT ![m] =
              {i \in @ : ~(i.userId \in Who(m) /\ i.node = players[m][i.userId].mapQuadTree)}
                \cup {[userId |-> u, node |-> MovedAll(m)[u].mapQuadTree] : u \in Who(m)}]
BY DEF FixedUpdate, MovedAll, Who

-----------------------------------------------------------------------------
(* Entering and leaving.                                                   *)
LEMMA LeftTypes ==
  ASSUME TypeOK, NEW u \in Users
  PROVE  /\ PlayersLeft(u) \in [Maps -> PlayersOf]
         /\ QuadTreeLeft(u) \in [Maps -> SUBSET Item]
BY DEF TypeOK, PlayersOf, PlayersLeft, QuadTreeLeft

LEMMA NewPlayerType == NewMapPlayer \in MapPlayer /\ Cell(Center) \in Cells
<1>1. Center \in 0 .. Width  BY Parameters
<1>2. Cell(Center) \in Cells /\ 0 \in Dirs /\ 0 \in Seqs
  BY <1>1, CellType, Map2DAssumption, Parameters DEF Seqs
<1> QED  BY <1>1, <1>2 DEF NewMapPlayer, MapPlayer

(* An entry that succeeds: the new map is a map, and the player has left.   *)
Entered(u, m) ==
  /\ PlayersLeft(u)[m][u] = Nil
  /\ players' = [PlayersLeft(u) EXCEPT ![m][u] = NewMapPlayer]
  /\ quadTree' = [QuadTreeLeft(u) EXCEPT ![m] = @ \cup {[userId |-> u, node |-> Cell(Center)]}]
  /\ nowMapId' = [nowMapId EXCEPT ![u] = m]

LEMMA EnterCases ==
  ASSUME NEW u \in Users, NEW m, MapEnterReq(u, m)
  PROVE  /\ u \in online
         /\ UNCHANGED <<online, sinceTick, durationAccumulator>>
         /\ clientSeq' = [clientSeq EXCEPT ![u] = 0]
         /\ LeaveCurrMap(u) \/ (m \in Maps /\ Entered(u, m))
BY DEF MapEnterReq, Entered, clockVars

(* Members have a character, which the requests below rely on.             *)
LEMMA MemberIn ==
  ASSUME TypeOK, MemberIffNow, NEW u \in online, nowMapId[u] # NoMap
  PROVE  nowMapId[u] \in Maps /\ players[nowMapId[u]][u] \in MapPlayer
BY DEF MemberIffNow, InMap, TypeOK

(* An input changes its player's direction and number, and nothing else.    *)
LEMMA InputPlayer ==
  ASSUME NEW pl \in MapPlayer, NEW d \in Dirs, NEW s \in Seqs
  PROVE  LET ql == MapPlayerInput(pl, d, s) IN
           /\ ql \in MapPlayer
           /\ ql.x = pl.x /\ ql.vX = pl.vX /\ ql.mapQuadTree = pl.mapQuadTree
           /\ ql.lastSeq = IF s = Wrapped(pl.lastSeq) + 1 THEN s ELSE Wrapped(pl.lastSeq)
<1>1. Wrapped(pl.lastSeq) \in Seqs  BY Parameters DEF MapPlayer, Wrapped, Seqs
<1> QED  BY <1>1 DEF MapPlayer, MapPlayerInput

LEMMA InputCases ==
  ASSUME TypeOK, MemberIffNow, NEW u \in Users, NEW d \in Dirs, NEW s \in Seqs,
         MapInputReq(u, d, s)
  PROVE  LET m == nowMapId[u] IN
           /\ m \in Maps /\ u \in online /\ players[m][u] \in MapPlayer
           /\ MapPlayerInput(players[m][u], d, s) \in MapPlayer
           /\ players' = [players EXCEPT ![m][u] = MapPlayerInput(players[m][u], d, s)]
           /\ UNCHANGED <<online, nowMapId, quadTree, sinceTick, durationAccumulator>>
<1>1. u \in online /\ nowMapId[u] # NoMap  BY DEF MapInputReq
<1>2. nowMapId[u] \in Maps /\ players[nowMapId[u]][u] \in MapPlayer
  BY <1>1, MemberIn
<1>3. MapPlayerInput(players[nowMapId[u]][u], d, s) \in MapPlayer
  BY <1>2, InputPlayer
<1> QED  BY <1>1, <1>2, <1>3 DEF MapInputReq, clockVars

-----------------------------------------------------------------------------
(* TypeOK and membership are inductive together: an input is given to the   *)
(* map in nowMapId, and only membership says that the player is there.      *)
LEMMA TypeStep == TypeOK /\ MemberIffNow /\ [Next]_vars => TypeOK'
<1> SUFFICES ASSUME TypeOK, MemberIffNow, [Next]_vars PROVE TypeOK'
  OBVIOUS
<1>1. ASSUME NEW u \in Users, Login(u) PROVE TypeOK'
  BY <1>1 DEF Login, TypeOK, clockVars
<1>2. ASSUME NEW u \in Users, LeaveCurrMap(u), online' \in SUBSET Users,
             UNCHANGED clockVars, clientSeq' \in [Users -> Seqs]
      PROVE  TypeOK'
  BY <1>2, LeftTypes DEF LeaveCurrMap, TypeOK, PlayersOf, clockVars
<1>3. ASSUME NEW u \in Users, Logout(u) \/ MapLeaveReq(u) PROVE TypeOK'
  BY <1>2, <1>3 DEF Logout, MapLeaveReq, TypeOK
<1>4. ASSUME NEW u \in Users, NEW m \in MapIds, MapEnterReq(u, m) PROVE TypeOK'
  <2>1. clientSeq' \in [Users -> Seqs]
    BY <1>4, EnterCases, Parameters DEF TypeOK, Seqs
  <2>2. CASE LeaveCurrMap(u)
    BY <1>2, <1>4, <2>1, <2>2, EnterCases DEF TypeOK, clockVars
  <2>3. CASE m \in Maps /\ Entered(u, m)
    <3>1. NewMapPlayer \in MapPlayer /\ [userId |-> u, node |-> Cell(Center)] \in Item
      BY NewPlayerType DEF Item
    <3>2. players' \in [Maps -> PlayersOf] /\ quadTree' \in [Maps -> SUBSET Item]
      BY <2>3, <3>1, LeftTypes DEF Entered, PlayersOf
    <3> QED  BY <1>4, <2>1, <2>3, <3>2, EnterCases DEF Entered, TypeOK, PlayersOf
  <2> QED  BY <1>4, <2>2, <2>3, EnterCases
<1>5. ASSUME NEW u \in Users, NEW d \in Dirs, NEW s \in Seqs, MapInputReq(u, d, s)
      PROVE  TypeOK'
  <2>1. clientSeq' \in [Users -> Seqs]  BY <1>5 DEF MapInputReq, TypeOK
  <2>2. PICK m \in Maps, ql \in MapPlayer : players' = [players EXCEPT ![m][u] = ql]
    BY <1>5, InputCases
  <2>3. players' \in [Maps -> [Users -> MapPlayer \cup {Nil}]]
    BY <2>2 DEF TypeOK
  <2> QED  BY <1>5, <2>1, <2>3, InputCases DEF TypeOK
<1>6. ASSUME NEW m \in Maps, FixedUpdate(m) PROVE TypeOK'
  <2>1. \A u \in Who(m) : [userId |-> u, node |-> MovedAll(m)[u].mapQuadTree] \in Item
    <3>1. \A u \in Who(m) : u \in Users /\ MovedAll(m)[u] \in MapPlayer
      BY FixedPlayers, Parameters DEF PlayersOf, Who, InMap
    <3> QED  BY <3>1 DEF MapPlayer, Item
  <2>2. quadTree' \in [Maps -> SUBSET Item]
    BY <1>6, <2>1, FixedCases DEF TypeOK
  <2>3. players' \in [Maps -> PlayersOf]
    BY <1>6, FixedCases, FixedPlayers DEF TypeOK, PlayersOf
  <2>4. durationAccumulator' \in [Maps -> Nat]
    BY <1>6, Parameters DEF FixedUpdate, TypeOK
  <2> QED  BY <1>6, <2>2, <2>3, <2>4 DEF FixedUpdate, TypeOK, PlayersOf
<1>7. CASE TimePasses
  <2>1. sinceTick' \in [Maps -> 0 .. MaxGap \cup {Nil}]
    BY <1>7, Parameters DEF TimePasses, TypeOK
  <2> QED  BY <1>7, <2>1 DEF TimePasses, TypeOK
<1>8. CASE OnTick
  <2>1. sinceTick' \in [Maps -> 0 .. MaxGap \cup {Nil}]  BY <1>8, Parameters DEF OnTick
  <2>2. \A m \in Maps : FrameTime(m) \in Nat
    BY Map2DAssumption DEF FrameTime, TypeOK
  <2>3. durationAccumulator' \in [Maps -> Nat]
    BY <1>8, <2>2 DEF OnTick, TypeOK
  <2> QED  BY <1>8, <2>1, <2>3 DEF OnTick, TypeOK
<1>9. CASE UNCHANGED vars
  BY <1>9 DEF vars, TypeOK
<1> QED  BY <1>1, <1>3, <1>4, <1>5, <1>6, <1>7, <1>8, <1>9 DEF Next

(* Who has left is in no map any more.                                     *)
LEMMA LeftMaps ==
  ASSUME TypeOK, MemberIffNow, NEW u \in Users
  PROVE  \A m \in Maps : /\ PlayersLeft(u)[m][u] = Nil
                         /\ \A v \in Users \ {u} : PlayersLeft(u)[m][v] = players[m][v]
<1>1. \A m \in Maps : nowMapId[u] # m => players[m][u] = Nil
  BY DEF MemberIffNow, InMap
<1>2. CASE nowMapId[u] = NoMap
  BY <1>1, <1>2, Parameters DEF PlayersLeft
<1>3. CASE nowMapId[u] # NoMap
  <2>1. nowMapId[u] \in Maps  BY <1>3 DEF TypeOK
  <2> QED  BY <1>1, <1>3, <2>1 DEF PlayersLeft, TypeOK
<1> QED  BY <1>2, <1>3

(* The players after an entry that succeeds.                               *)
LEMMA EnteredPlayers ==
  ASSUME TypeOK, MemberIffNow, NEW u \in Users, NEW m \in Maps, Entered(u, m)
  PROVE  \A n \in Maps, v \in Users :
           players'[n][v] = IF v = u THEN IF n = m THEN NewMapPlayer ELSE Nil
                            ELSE players[n][v]
<1>1. PlayersLeft(u) \in [Maps -> PlayersOf]  BY LeftTypes
<1> QED  BY <1>1, LeftMaps DEF Entered, PlayersOf

(* Membership: whatever is asked for, the two records of where a user plays *)
(* change together.                                                        *)
LEMMA MemberStep == TypeOK /\ MemberIffNow /\ [Next]_vars => MemberIffNow'
<1> SUFFICES ASSUME TypeOK, MemberIffNow, [Next]_vars PROVE MemberIffNow'
  OBVIOUS
<1>0. ASSUME UNCHANGED <<online, nowMapId>>,
             \A m \in Maps, u \in Users : players[m][u] = Nil <=> players'[m][u] = Nil
      PROVE  MemberIffNow'
  BY <1>0 DEF MemberIffNow, InMap
<1>1. ASSUME NEW u \in Users, Login(u) PROVE MemberIffNow'
  BY <1>1, Parameters DEF Login, TypeOK, MemberIffNow, InMap
<1>2. ASSUME NEW u \in Users, LeaveCurrMap(u), online' = online \/ online' = online \ {u}
      PROVE  MemberIffNow'
  BY <1>2, LeftMaps, Parameters DEF LeaveCurrMap, TypeOK, MemberIffNow, InMap
<1>3. ASSUME NEW u \in Users, Logout(u) \/ MapLeaveReq(u) PROVE MemberIffNow'
  BY <1>2, <1>3 DEF Logout, MapLeaveReq
<1>4. ASSUME NEW u \in Users, NEW m \in MapIds, MapEnterReq(u, m) PROVE MemberIffNow'
  <2>1. u \in online /\ online' = online  BY <1>4, EnterCases
  <2>2. CASE LeaveCurrMap(u)
    BY <1>2, <2>1, <2>2
  <2>3. CASE m \in Maps /\ Entered(u, m)
    <3>1. NewMapPlayer # Nil  BY NewPlayerType, Parameters
    <3>2. \A v \in Users : nowMapId'[v] = IF v = u THEN m ELSE nowMapId[v]
      BY <2>3 DEF Entered, TypeOK
    <3>3. \A n \in Maps, v \in Users :
            players'[n][v] = IF v = u THEN IF n = m THEN NewMapPlayer ELSE Nil
                             ELSE players[n][v]
      BY <2>3, EnteredPlayers
    <3> QED  BY <2>1, <3>1, <3>2, <3>3 DEF MemberIffNow, InMap
  <2> QED  BY <1>4, <2>2, <2>3, EnterCases
<1>5. ASSUME NEW u \in Users, NEW d \in Dirs, NEW s \in Seqs, MapInputReq(u, d, s)
      PROVE  MemberIffNow'
  <2>1. \A m \in Maps, v \in Users : players[m][v] = Nil <=> players'[m][v] = Nil
    BY <1>5, InputCases, Parameters DEF TypeOK
  <2> QED  BY <1>0, <1>5, <2>1, InputCases
<1>6. ASSUME NEW m \in Maps, FixedUpdate(m) PROVE MemberIffNow'
  <2>1. \A n \in Maps, v \in Users : players[n][v] = Nil <=> players'[n][v] = Nil
    BY <1>6, FixedCases, FixedPlayers DEF TypeOK
  <2> QED  BY <1>0, <1>6, <2>1 DEF FixedUpdate
<1>7. CASE TimePasses \/ OnTick \/ UNCHANGED vars
  BY <1>0, <1>7 DEF TimePasses, OnTick, vars
<1> QED  BY <1>1, <1>3, <1>4, <1>5, <1>6, <1>7 DEF Next

(* The types, and with them that the players of a map stay in it with a     *)
(* number, a direction and a node.                                         *)
THEOREM TypeCorrect == Spec => []TypeOK
<1>1. Init => TypeOK
  BY Parameters DEF Init, TypeOK, Seqs, NoMap
<1>2. Init => MemberIffNow
  BY DEF Init, MemberIffNow, InMap
<1> QED  BY <1>1, <1>2, TypeStep, MemberStep, PTL DEF Spec

(* A user has a character in the map in its nowMapId and in no other,       *)
(* however it switches maps, for every set of users and of maps.           *)
THEOREM Membership == Spec => []MemberIffNow
<1>1. Init => TypeOK
  BY Parameters DEF Init, TypeOK, Seqs, NoMap
<1>2. Init => MemberIffNow
  BY DEF Init, MemberIffNow, InMap
<1> QED  BY <1>1, <1>2, TypeStep, MemberStep, PTL DEF Spec

-----------------------------------------------------------------------------
(* The remainder of a number that is in range, and of the one after it.     *)
LEMMA Wraps ==
  ASSUME NEW n \in Seqs
  PROVE  (n + 1) % (UINT32_MAX + 1) = IF n = UINT32_MAX THEN 0 ELSE n + 1
<1>1. n \in Nat /\ n <= UINT32_MAX /\ UINT32_MAX \in Nat  BY Parameters DEF Seqs
<1> QED  BY <1>1

(* One input keeps a player and its client in step, the accepted, the       *)
(* repeated and the refused ones.                                          *)
LEMMA SeqStep ==
  ASSUME NEW last \in Seqs, NEW sent \in Seqs, NEW s \in Seqs,
         s = sent \/ s = (sent + 1) % (UINT32_MAX + 1),
         last = sent \/ (sent = UINT32_MAX /\ last = 0)
  PROVE  LET next == IF s = Wrapped(last) + 1 THEN s ELSE Wrapped(last) IN
           next = s \/ (s = UINT32_MAX /\ next = 0)
<1>1. last \in Nat /\ sent \in Nat /\ s \in Nat /\ UINT32_MAX \in Nat /\ UINT32_MAX > 0
      /\ last <= UINT32_MAX /\ sent <= UINT32_MAX /\ s <= UINT32_MAX
  BY Parameters DEF Seqs
<1>2. s = sent \/ s = (IF sent = UINT32_MAX THEN 0 ELSE sent + 1)  BY Wraps
<1> QED  BY <1>1, <1>2 DEF Wrapped

LEMMA InStepStep == TypeOK /\ MemberIffNow /\ InStep /\ [Next]_vars => InStep'
<1> SUFFICES ASSUME TypeOK, MemberIffNow, InStep, [Next]_vars PROVE InStep'
  OBVIOUS
<1> DEFINE Together(pl, sent) ==
             pl # Nil => pl.lastSeq = sent \/ (sent = UINT32_MAX /\ pl.lastSeq = 0)
<1>0. \A v \in Users, n \in Maps : Together(players[n][v], clientSeq[v])
  BY DEF InStep, InMap
<1>a. SUFFICES \A v \in Users, n \in Maps : Together(players'[n][v], clientSeq'[v])
  BY DEF InStep, InMap
<1>1. ASSUME UNCHANGED <<players, clientSeq>>
      PROVE  \A v \in Users, n \in Maps : Together(players'[n][v], clientSeq'[v])
  BY <1>0, <1>1
<1>2. ASSUME NEW u \in Users, LeaveCurrMap(u),
             \A v \in Users \ {u} : clientSeq'[v] = clientSeq[v]
      PROVE  \A v \in Users, n \in Maps : Together(players'[n][v], clientSeq'[v])
  BY <1>0, <1>2, LeftMaps DEF LeaveCurrMap
<1>3. ASSUME NEW u \in Users, Logout(u) \/ MapLeaveReq(u)
      PROVE  \A v \in Users, n \in Maps : Together(players'[n][v], clientSeq'[v])
  BY <1>2, <1>3 DEF Logout, MapLeaveReq
<1>4. ASSUME NEW u \in Users, NEW m \in MapIds, MapEnterReq(u, m)
      PROVE  \A v \in Users, n \in Maps : Together(players'[n][v], clientSeq'[v])
  <2>1. clientSeq'[u] = 0 /\ \A v \in Users \ {u} : clientSeq'[v] = clientSeq[v]
    BY <1>4, EnterCases DEF TypeOK
  <2>2. CASE LeaveCurrMap(u)  BY <1>2, <2>1, <2>2
  <2>3. CASE m \in Maps /\ Entered(u, m)
    <3>1. NewMapPlayer.lastSeq = 0  BY DEF NewMapPlayer
    <3>2. \A n \in Maps, v \in Users :
            players'[n][v] = IF v = u THEN IF n = m THEN NewMapPlayer ELSE Nil
                             ELSE players[n][v]
      BY <2>3, EnteredPlayers
    <3> QED  BY <1>0, <2>1, <3>1, <3>2
  <2> QED  BY <1>4, <2>2, <2>3, EnterCases
<1>5. ASSUME NEW u \in Users, NEW d \in Dirs, NEW s \in Seqs, MapInputReq(u, d, s)
      PROVE  \A v \in Users, n \in Maps : Together(players'[n][v], clientSeq'[v])
  <2>1. PICK m \in Maps : m = nowMapId[u]  BY <1>5, InputCases
  <2> DEFINE pl == players[m][u]
             ql == MapPlayerInput(pl, d, s)
  <2>2. /\ pl \in MapPlayer /\ ql \in MapPlayer
        /\ players' = [players EXCEPT ![m][u] = ql]
    BY <1>5, <2>1, InputCases
  <2>3. /\ s = clientSeq[u] \/ s = (clientSeq[u] + 1) % (UINT32_MAX + 1)
        /\ clientSeq' = [clientSeq EXCEPT ![u] = s]
    BY <1>5 DEF MapInputReq
  <2>4. ql.lastSeq = IF s = Wrapped(pl.lastSeq) + 1 THEN s ELSE Wrapped(pl.lastSeq)
    BY <2>2, InputPlayer
  <2>5. pl.lastSeq \in Seqs /\ clientSeq[u] \in Seqs  BY <2>2 DEF MapPlayer, TypeOK
  <2>6. pl.lastSeq = clientSeq[u] \/ (clientSeq[u] = UINT32_MAX /\ pl.lastSeq = 0)
    BY <1>0, <2>2, Parameters
  <2> HIDE DEF pl, ql
  <2>7. Together(ql, s)  BY <2>3, <2>4, <2>5, <2>6, SeqStep
  <2>8. \A n \in Maps, v \in Users :
          players'[n][v] = IF v = u /\ n = m THEN ql ELSE players[n][v]
    BY <2>2 DEF TypeOK
  <2>9. \A v \in Users : clientSeq'[v] = IF v = u THEN s ELSE clientSeq[v]
    BY <2>3 DEF TypeOK
  <2>10. \A n \in Maps \ {m} : players[n][u] = Nil
    BY <2>1 DEF MemberIffNow, InMap
  <2> HIDE DEF Together
  <2>11. \A n \in Maps \ {m} : Together(players[n][u], s)  BY <2>10 DEF Together
  <2> QED  BY <1>0, <2>7, <2>8, <2>9, <2>11
<1>6. ASSUME NEW m \in Maps, FixedUpdate(m)
      PROVE  \A v \in Users, n \in Maps : Together(players'[n][v], clientSeq'[v])
  <2>1. \A u \in Who(m) : MovedAll(m)[u].lastSeq = players[m][u].lastSeq
    BY FixedPlayers, MovedPlayer
  <2>2. \A v \in Users : MovedAll(m)[v] # Nil => v \in Who(m)
    BY FixedPlayers DEF Who, InMap
  <2>3. \A n \in Maps : players'[n] = IF n = m THEN MovedAll(m) ELSE players[n]
    BY <1>6, FixedCases DEF TypeOK
  <2>4. clientSeq' = clientSeq  BY <1>6 DEF FixedUpdate
  <2>5. \A v \in Who(m) : players[m][v] # Nil  BY DEF Who, InMap
  <2> QED  BY <1>0, <2>1, <2>2, <2>3, <2>4, <2>5
<1>7. ASSUME NEW u \in Users, Login(u)
      PROVE  \A v \in Users, n \in Maps : Together(players'[n][v], clientSeq'[v])
  BY <1>1, <1>7 DEF Login
<1>8. CASE TimePasses \/ OnTick \/ UNCHANGED vars
  BY <1>1, <1>8 DEF TimePasses, OnTick, vars
<1> HIDE DEF Together
<1> QED  BY <1>3, <1>4, <1>5, <1>6, <1>7, <1>8 DEF Next

(* The server and its clients stay in step, for sequence numbers of any     *)
(* width: it does not depend on the 32 bits of the code's.                  *)
THEOREM NumbersInStep == Spec => []InStep
<1>1. Init => InStep  BY DEF Init, InStep, InMap
<1> QED  BY <1>1, InStepStep, TypeCorrect, Membership, PTL DEF Spec

-----------------------------------------------------------------------------
(* The limits.                                                             *)
Limited(pl) == pl # Nil => pl.x \in Left .. Right /\ pl.vX \in -MaxSpeed .. MaxSpeed

LEMMA LimitsStep == TypeOK /\ MemberIffNow /\ WithinLimits /\ [Next]_vars => WithinLimits'
<1> SUFFICES ASSUME TypeOK, MemberIffNow, WithinLimits, [Next]_vars PROVE WithinLimits'
  OBVIOUS
<1>0. \A v \in Users, n \in Maps : Limited(players[n][v])
  BY DEF WithinLimits, InMap, Limited
<1>a. SUFFICES \A v \in Users, n \in Maps : Limited(players'[n][v])
  BY DEF WithinLimits, InMap, Limited
<1>b. Limited(Nil)  BY DEF Limited
<1>1. ASSUME NEW u \in Users, LeaveCurrMap(u)
      PROVE  \A v \in Users, n \in Maps : Limited(players'[n][v])
  BY <1>0, <1>1, <1>b, LeftMaps DEF LeaveCurrMap
<1>2. ASSUME NEW u \in Users, Logout(u) \/ MapLeaveReq(u)
      PROVE  \A v \in Users, n \in Maps : Limited(players'[n][v])
  BY <1>1, <1>2 DEF Logout, MapLeaveReq
<1>3. ASSUME NEW u \in Users, NEW m \in MapIds, MapEnterReq(u, m)
      PROVE  \A v \in Users, n \in Maps : Limited(players'[n][v])
  <2>1. Limited(NewMapPlayer)  BY Parameters DEF NewMapPlayer, Limited
  <2>2. CASE LeaveCurrMap(u)  BY <1>1, <2>2
  <2>3. CASE m \in Maps /\ Entered(u, m)
    <3>1. \A n \in Maps, v \in Users :
            players'[n][v] = IF v = u THEN IF n = m THEN NewMapPlayer ELSE Nil
                             ELSE players[n][v]
      BY <2>3, EnteredPlayers
    <3> QED  BY <1>0, <1>b, <2>1, <3>1
  <2> QED  BY <1>3, <2>2, <2>3, EnterCases
<1>4. ASSUME NEW u \in Users, NEW d \in Dirs, NEW s \in Seqs, MapInputReq(u, d, s)
      PROVE  \A v \in Users, n \in Maps : Limited(players'[n][v])
  <2>1. PICK m \in Maps : m = nowMapId[u]  BY <1>4, InputCases
  <2> DEFINE pl == players[m][u]
             ql == MapPlayerInput(pl, d, s)
  <2>2. pl \in MapPlayer /\ players' = [players EXCEPT ![m][u] = ql]
    BY <1>4, <2>1, InputCases
  <2>3. ql.x = pl.x /\ ql.vX = pl.vX  BY <2>2, InputPlayer
  <2>4. Limited(ql)  BY <1>0, <2>2, <2>3, Parameters DEF Limited
  <2> HIDE DEF ql
  <2>5. \A n \in Maps, v \in Users :
          players'[n][v] = IF v = u /\ n = m THEN ql ELSE players[n][v]
    BY <2>2 DEF TypeOK
  <2> QED  BY <1>0, <2>4, <2>5
<1>5. ASSUME NEW m \in Maps, FixedUpdate(m)
      PROVE  \A v \in Users, n \in Maps : Limited(players'[n][v])
  <2>1. \A u \in Who(m) : Limited(MovedAll(m)[u])
    <3>1. \A u \in Who(m) : players[m][u].vX \in -MaxSpeed .. MaxSpeed
      BY <1>0 DEF Who, InMap, Limited
    <3> QED  BY <3>1, FixedPlayers, MovedPlayer DEF Limited
  <2>2. \A v \in Users : v \in Who(m) \/ MovedAll(m)[v] = Nil
    BY DEF Who, MovedAll
  <2>3. \A n \in Maps : players'[n] = IF n = m THEN MovedAll(m) ELSE players[n]
    BY <1>5, FixedCases DEF TypeOK
  <2> QED  BY <1>0, <1>b, <2>1, <2>2, <2>3
<1>6. ASSUME UNCHANGED players
      PROVE  \A v \in Users, n \in Maps : Limited(players'[n][v])
  BY <1>0, <1>6
<1>7. ASSUME NEW u \in Users, Login(u)
      PROVE  \A v \in Users, n \in Maps : Limited(players'[n][v])
  BY <1>6, <1>7 DEF Login
<1>8. CASE TimePasses \/ OnTick \/ UNCHANGED vars
  BY <1>6, <1>8 DEF TimePasses, OnTick, vars
<1> QED  BY <1>2, <1>3, <1>4, <1>5, <1>7, <1>8 DEF Next

(* Nobody leaves the map or exceeds the maximum speed, for every direction, *)
(* every acceleration and every way the integer divisions round.           *)
THEOREM Limits == Spec => []WithinLimits
<1>1. Init => WithinLimits  BY DEF Init, WithinLimits, InMap
<1> QED  BY <1>1, LimitsStep, TypeCorrect, Membership, PTL DEF Spec

-----------------------------------------------------------------------------
(* The clock.                                                              *)
LEMMA LagType ==
  ASSUME TypeOK
  PROVE  /\ Lag \in [Maps -> Nat]
         /\ \A m \in Maps : sinceTick[m] # Nil => sinceTick[m] \in Nat
BY Parameters DEF TypeOK, Lag

LEMMA LagOf ==
  \A m \in Maps : Lag[m] = durationAccumulator[m] + (IF sinceTick[m] = Nil THEN 0 ELSE sinceTick[m])
BY DEF Lag

LEMMA LagNext ==
  /\ Lag' = [m \in Maps |-> Lag'[m]]
  /\ \A m \in Maps : Lag'[m] =
       durationAccumulator'[m] + (IF sinceTick'[m] = Nil THEN 0 ELSE sinceTick'[m])
BY DEF Lag

LEMMA ClockStep == TypeOK /\ [Next]_vars => [Clock!ClockNext]_Lag
<1> SUFFICES ASSUME TypeOK, [Next]_vars PROVE [Clock!ClockNext]_Lag
  OBVIOUS
<1>1. ASSUME UNCHANGED clockVars PROVE Lag' = Lag
  BY <1>1 DEF Lag, clockVars
<1>2. ASSUME NEW u \in Users, Login(u) \/ Logout(u) \/ MapLeaveReq(u) PROVE Lag' = Lag
  BY <1>1, <1>2 DEF Login, Logout, MapLeaveReq
<1>3. ASSUME NEW u \in Users, NEW m \in MapIds, MapEnterReq(u, m) PROVE Lag' = Lag
  BY <1>1, <1>3 DEF MapEnterReq
<1>4. ASSUME NEW u \in Users, NEW d \in Dirs, NEW s \in Seqs, MapInputReq(u, d, s)
      PROVE  Lag' = Lag
  BY <1>1, <1>4 DEF MapInputReq
<1>5. ASSUME NEW m \in Maps, FixedUpdate(m) PROVE Clock!ClockNext
  <2>1. /\ durationAccumulator[m] >= DT_MS
        /\ durationAccumulator' = [durationAccumulator EXCEPT ![m] = @ - DT_MS]
        /\ sinceTick' = sinceTick
    BY <1>5 DEF FixedUpdate
  <2>2. Lag[m] >= DT_MS
    BY <2>1, Parameters DEF TypeOK, Lag
  <2>3. \A n \in Maps : Lag'[n] = IF n = m THEN Lag[n] - DT_MS ELSE Lag[n]
    <3>1. \A n \in Maps : durationAccumulator'[n] =
            IF n = m THEN durationAccumulator[n] - DT_MS ELSE durationAccumulator[n]
      BY <2>1 DEF TypeOK
    <3>2. \A n \in Maps : durationAccumulator[n] \in Nat  BY DEF TypeOK
    <3> QED  BY <2>1, <3>1, <3>2, LagType, LagOf, LagNext, Parameters
  <2>4. Lag' = [Lag EXCEPT ![m] = @ - DT_MS]
    BY <2>3, LagType, LagNext
  <2> QED  BY <2>2, <2>4 DEF Clock!ClockNext, Clock!Simulate
<1>6. CASE TimePasses
  <2> DEFINE who == {m \in Maps : sinceTick[m] # Nil}
  <2>1. \A m \in Maps : Lag'[m] = IF m \in who THEN Lag[m] + 1 ELSE Lag[m]
    <3>1. \A m \in Maps : /\ durationAccumulator'[m] = durationAccumulator[m]
                          /\ sinceTick'[m] = IF m \in who THEN sinceTick[m] + 1 ELSE Nil
      BY <1>6 DEF TimePasses
    <3>2. \A m \in Maps : durationAccumulator[m] \in Nat  BY DEF TypeOK
    <3> QED  BY <3>1, <3>2, LagType, LagOf, LagNext, Parameters
  <2>2. Lag' = [m \in Maps |-> IF m \in who THEN Lag[m] + 1 ELSE Lag[m]]
    BY <2>1, LagNext
  <2> QED  BY <2>2 DEF Clock!ClockNext, Clock!Pass
<1>7. CASE OnTick
  <2>1. /\ Lag \in [Maps -> Nat]
        /\ \A m \in Maps : sinceTick[m] # Nil => sinceTick[m] \in Nat
        /\ \A m \in Maps : durationAccumulator[m] \in Nat
        /\ MaxFrame \in Nat
    BY LagType, Map2DAssumption DEF TypeOK
  <2>2. \A m \in Maps : Lag'[m] = durationAccumulator[m] + FrameTime(m)
    <3>1. \A m \in Maps : sinceTick'[m] = 0
            /\ durationAccumulator'[m] = durationAccumulator[m] + FrameTime(m)
      BY <1>7 DEF OnTick
    <3>2. \A m \in Maps : FrameTime(m) \in Nat  BY <2>1 DEF FrameTime
    <3> QED  BY <3>1, <3>2, <2>1, Parameters DEF Lag
  <2>3. \A m \in Maps : \/ Lag'[m] = Lag[m]
                        \/ Lag'[m] \in MaxFrame .. Lag[m]
    BY <2>1, <2>2, LagOf DEF FrameTime
  <2>4. Lag' \in [Maps -> Nat]
    <3>1. \A m \in Maps : Lag'[m] \in Nat  BY <2>1, <2>3
    <3> QED  BY <3>1, LagNext
  <2> QED  BY <2>3, <2>4 DEF Clock!ClockNext, Clock!GiveUp
<1>8. CASE UNCHANGED vars
  BY <1>1, <1>8 DEF vars, clockVars
<1> QED  BY <1>2, <1>3, <1>4, <1>5, <1>6, <1>7, <1>8 DEF Next

(* The fixed steps implement the clock: the simulation never leads, and it  *)
(* gives time up only when it is more than a whole hiccup late, for every   *)
(* step length, every limit and every rhythm of the ticks.                 *)
THEOREM ClockKept == Spec => KeepsTime
<1>1. Init => Clock!ClockInit
  BY Parameters DEF Init, Clock!ClockInit, Lag
<1> QED  BY <1>1, ClockStep, TypeCorrect, PTL DEF Spec, KeepsTime, Clock!ClockSpec

-----------------------------------------------------------------------------
(* What the quadtree of a map should hold: each player once, in the node    *)
(* that its pointer names, which is the node of its position.              *)
Listed(pl) == {[userId |-> u, node |-> pl[u].mapQuadTree] : u \in {v \in Users : pl[v] # Nil}}

IndexedBy(pl, items) ==
  /\ items = Listed(pl)
  /\ \A u \in Users : pl[u] # Nil => pl[u].mapQuadTree = Cell(pl[u].x)

Indexed == \A m \in Maps : IndexedBy(players[m], quadTree[m])

LEMMA GoneIndexed ==
  ASSUME NEW pl \in PlayersOf, NEW u \in Users, pl[u] # Nil, NEW items, IndexedBy(pl, items)
  PROVE  IndexedBy([pl EXCEPT ![u] = Nil],
                   items \ {[userId |-> u, node |-> pl[u].mapQuadTree]})
<1> DEFINE ql == [pl EXCEPT ![u] = Nil]
<1>1. ql[u] = Nil /\ \A v \in Users \ {u} : ql[v] = pl[v]  BY DEF PlayersOf
<1>2. Listed(ql) = {[userId |-> v, node |-> pl[v].mapQuadTree] : v \in {w \in Users \ {u} : pl[w] # Nil}}
  BY <1>1 DEF Listed
<1>3. Listed(pl) \ {[userId |-> u, node |-> pl[u].mapQuadTree]}
        = {[userId |-> v, node |-> pl[v].mapQuadTree] : v \in {w \in Users \ {u} : pl[w] # Nil}}
  BY DEF Listed
<1> QED  BY <1>1, <1>2, <1>3 DEF IndexedBy

LEMMA SpawnedIndexed ==
  ASSUME NEW pl \in PlayersOf, NEW u \in Users, pl[u] = Nil, NEW items, IndexedBy(pl, items)
  PROVE  IndexedBy([pl EXCEPT ![u] = NewMapPlayer],
                   items \cup {[userId |-> u, node |-> Cell(Center)]})
<1> DEFINE ql == [pl EXCEPT ![u] = NewMapPlayer]
<1>1. ql[u] = NewMapPlayer /\ \A v \in Users \ {u} : ql[v] = pl[v]  BY DEF PlayersOf
<1>2. /\ NewMapPlayer # Nil /\ NewMapPlayer.mapQuadTree = Cell(Center)
      /\ NewMapPlayer.x = Center
  BY NewPlayerType, Parameters DEF NewMapPlayer
<1> HIDE DEF ql
<1>3. Listed(ql) = {[userId |-> v, node |-> ql[v].mapQuadTree] :
                      v \in {w \in Users : pl[w] # Nil} \cup {u}}
  BY <1>1, <1>2 DEF Listed
<1>4. Listed(ql) = Listed(pl) \cup {[userId |-> u, node |-> Cell(Center)]}
  BY <1>1, <1>2, <1>3 DEF Listed
<1>5. \A v \in Users : ql[v] # Nil => ql[v].mapQuadTree = Cell(ql[v].x)
  BY <1>1, <1>2 DEF IndexedBy
<1> QED  BY <1>4, <1>5 DEF IndexedBy, ql

(* A fixed update takes each player out of its node and lists it in the     *)
(* node where it is now.                                                   *)
LEMMA MovedIndexed ==
  ASSUME TypeOK, NEW m \in Maps, IndexedBy(players[m], quadTree[m]), FixedUpdate(m)
  PROVE  IndexedBy(players'[m], quadTree'[m])
<1> DEFINE pl == players[m]
           ql == MovedAll(m)
           new == {[userId |-> u, node |-> ql[u].mapQuadTree] : u \in Who(m)}
<1>1. /\ players'[m] = ql
      /\ quadTree'[m] = {i \in quadTree[m] :
           ~(i.userId \in Who(m) /\ i.node = pl[i.userId].mapQuadTree)} \cup new
  BY FixedCases DEF TypeOK
<1>2. quadTree[m] = {[userId |-> u, node |-> pl[u].mapQuadTree] : u \in Who(m)}
  BY DEF IndexedBy, Listed, Who, InMap
<1>3. quadTree'[m] = new  BY <1>1, <1>2
<1>4. Who(m) = {v \in Users : ql[v] # Nil}
  BY FixedPlayers DEF Who, InMap
<1>5. \A u \in Who(m) : ql[u].mapQuadTree = Cell(ql[u].x)
  BY FixedPlayers, MovedPlayer
<1> QED  BY <1>1, <1>3, <1>4, <1>5 DEF IndexedBy, Listed

(* Every way in which a player moves, appears or goes changes its item in   *)
(* the quadtree as well.                                                   *)
LEMMA IndexStep == TypeOK /\ MemberIffNow /\ Indexed /\ [Next]_vars => Indexed'
<1> SUFFICES ASSUME TypeOK, MemberIffNow, Indexed, [Next]_vars PROVE Indexed'
  OBVIOUS
<1>0. \A m \in Maps : IndexedBy(players[m], quadTree[m]) /\ players[m] \in PlayersOf
  BY DEF TypeOK, PlayersOf, Indexed
<1>1. ASSUME UNCHANGED <<players, quadTree>> PROVE Indexed'
  BY <1>0, <1>1 DEF Indexed, IndexedBy, Listed
<1>2. ASSUME NEW u \in online PROVE
        \A m \in Maps : IndexedBy(PlayersLeft(u)[m], QuadTreeLeft(u)[m])
  <2>1. CASE nowMapId[u] = NoMap
    BY <2>1, <1>0 DEF PlayersLeft, QuadTreeLeft
  <2>2. CASE nowMapId[u] # NoMap
    <3>1. PICK m \in Maps : m = nowMapId[u] /\ players[m][u] # Nil
      BY <2>2, MemberIn, Parameters
    <3>2. u \in Users  BY DEF TypeOK
    <3>3. IndexedBy([players[m] EXCEPT ![u] = Nil],
                    quadTree[m] \ {[userId |-> u, node |-> players[m][u].mapQuadTree]})
      BY <1>0, <3>1, <3>2, GoneIndexed
    <3>4. /\ PlayersLeft(u) = [players EXCEPT ![m] = [players[m] EXCEPT ![u] = Nil]]
          /\ QuadTreeLeft(u) = [quadTree EXCEPT ![m] =
               quadTree[m] \ {[userId |-> u, node |-> players[m][u].mapQuadTree]}]
      BY <2>2, <3>1 DEF PlayersLeft, QuadTreeLeft
    <3>5. /\ PlayersLeft(u)[m] = [players[m] EXCEPT ![u] = Nil]
          /\ QuadTreeLeft(u)[m] = quadTree[m] \ {[userId |-> u, node |-> players[m][u].mapQuadTree]}
          /\ \A n \in Maps \ {m} :
               PlayersLeft(u)[n] = players[n] /\ QuadTreeLeft(u)[n] = quadTree[n]
      BY <3>4 DEF TypeOK
    <3> QED  BY <1>0, <3>3, <3>5
  <2> QED  BY <2>1, <2>2
<1>3. ASSUME NEW u \in online, LeaveCurrMap(u) PROVE Indexed'
  <2>1. players' = PlayersLeft(u) /\ quadTree' = QuadTreeLeft(u)  BY <1>3 DEF LeaveCurrMap
  <2> QED  BY <1>2, <2>1 DEF Indexed, IndexedBy, Listed
<1>4. ASSUME NEW u \in Users, Logout(u) \/ MapLeaveReq(u) PROVE Indexed'
  BY <1>3, <1>4 DEF Logout, MapLeaveReq
<1>5. ASSUME NEW u \in Users, NEW m \in MapIds, MapEnterReq(u, m) PROVE Indexed'
  <2>1. u \in online  BY <1>5, EnterCases
  <2>2. CASE LeaveCurrMap(u)  BY <1>3, <2>1, <2>2
  <2>3. CASE m \in Maps /\ Entered(u, m)
    <3> DEFINE pl == PlayersLeft(u)
               qt == QuadTreeLeft(u)
    <3>1. pl \in [Maps -> PlayersOf] /\ qt \in [Maps -> SUBSET Item]  BY LeftTypes
    <3>2. \A n \in Maps : IndexedBy(pl[n], qt[n])  BY <1>2, <2>1
    <3>3. /\ m \in Maps /\ pl[m][u] = Nil
          /\ players' = [pl EXCEPT ![m] = [pl[m] EXCEPT ![u] = NewMapPlayer]]
          /\ quadTree' = [qt EXCEPT ![m] = qt[m] \cup {[userId |-> u, node |-> Cell(Center)]}]
      BY <2>3 DEF Entered
    <3> HIDE DEF pl, qt
    <3>4. IndexedBy([pl[m] EXCEPT ![u] = NewMapPlayer],
                    qt[m] \cup {[userId |-> u, node |-> Cell(Center)]})
      BY <3>1, <3>2, <3>3, SpawnedIndexed
    <3>5. \A n \in Maps : IndexedBy(players'[n], quadTree'[n])
      BY <3>1, <3>2, <3>3, <3>4
    <3> QED  BY <3>5 DEF Indexed, IndexedBy, Listed
  <2> QED  BY <1>5, <2>2, <2>3, EnterCases
<1>6. ASSUME NEW u \in Users, NEW d \in Dirs, NEW s \in Seqs, MapInputReq(u, d, s)
      PROVE  Indexed'
  <2>1. PICK m \in Maps : m = nowMapId[u]  BY <1>6, InputCases
  <2> DEFINE pl == players[m]
             q  == MapPlayerInput(pl[u], d, s)
             ql == [pl EXCEPT ![u] = q]
  <2>2. /\ pl[u] \in MapPlayer /\ q \in MapPlayer
        /\ players' = [players EXCEPT ![m] = ql] /\ quadTree' = quadTree
    BY <1>6, <2>1, InputCases
  <2>3. q.x = pl[u].x /\ q.mapQuadTree = pl[u].mapQuadTree  BY <2>2, InputPlayer
  <2>4. q # Nil /\ pl[u] # Nil  BY <2>2, Parameters
  <2> HIDE DEF q
  <2>5. ql[u] = q /\ \A v \in Users \ {u} : ql[v] = pl[v]
    BY DEF TypeOK, PlayersOf
  <2>6. pl \in PlayersOf /\ IndexedBy(pl, quadTree[m])  BY <1>0
  <2> HIDE DEF pl, ql
  <2>7. Listed(ql) = Listed(pl)  BY <2>3, <2>4, <2>5 DEF Listed
  <2>8. IndexedBy(ql, quadTree[m])
    BY <2>3, <2>4, <2>5, <2>6, <2>7 DEF IndexedBy
  <2>9. \A n \in Maps : IndexedBy(players'[n], quadTree'[n])
    BY <1>0, <2>2, <2>8 DEF TypeOK
  <2> QED  BY <2>9 DEF Indexed, IndexedBy, Listed
<1>7. ASSUME NEW m \in Maps, FixedUpdate(m) PROVE Indexed'
  <2>1. IndexedBy(players'[m], quadTree'[m])  BY <1>0, <1>7, MovedIndexed
  <2>2. \A n \in Maps \ {m} : players'[n] = players[n] /\ quadTree'[n] = quadTree[n]
    BY <1>7, FixedCases DEF TypeOK
  <2>3. \A n \in Maps : IndexedBy(players'[n], quadTree'[n])
    BY <1>0, <2>1, <2>2
  <2> QED  BY <2>3 DEF Indexed, IndexedBy, Listed
<1>8. ASSUME NEW u \in Users, Login(u) PROVE Indexed'
  BY <1>1, <1>8 DEF Login
<1>9. CASE TimePasses \/ OnTick \/ UNCHANGED vars
  BY <1>1, <1>9 DEF TimePasses, OnTick, vars
<1> QED  BY <1>4, <1>5, <1>6, <1>7, <1>8, <1>9 DEF Next

(* The node of a position contains it.                                     *)
LEMMA CellContains ==
  \A p \in 0 .. Width : /\ Cell(p) \in Nat
                        /\ Cell(p) * CellSize <= p
                        /\ p < (Cell(p) + 1) * CellSize
BY Parameters DEF Cell

(* An indexed quadtree answers every query exactly: a node that is not      *)
(* looked into has nobody in the range.                                    *)
LEMMA IndexedQueries == TypeOK /\ Indexed => QueryExact
<1> SUFFICES ASSUME TypeOK, Indexed, NEW m \in Maps
             PROVE  /\ \A i \in quadTree[m] : InMap(m, i.userId)
                    /\ \A i, j \in quadTree[m] : i.userId = j.userId => i = j
                    /\ \A p \in Left .. Right :
                         {i.userId : i \in QtHits(m, p - ViewRange, p + ViewRange)} =
                           {u \in Users : /\ InMap(m, u)
                                          /\ players[m][u].x \in p - ViewRange .. (p + ViewRange) - 1}
  BY DEF QueryExact
<1>1. quadTree[m] = Listed(players[m])  BY DEF Indexed, IndexedBy
<1>2. \A i \in quadTree[m] : InMap(m, i.userId)  BY <1>1 DEF Listed, InMap
<1>3. \A i, j \in quadTree[m] : i.userId = j.userId => i = j  BY <1>1 DEF Listed
<1>4. ASSUME NEW p \in Left .. Right, NEW u \in Users, InMap(m, u),
             players[m][u].x \in p - ViewRange .. (p + ViewRange) - 1
      PROVE  \E i \in QtHits(m, p - ViewRange, p + ViewRange) : u = i.userId
  <2> DEFINE q == players[m][u].x
             i == [userId |-> u, node |-> Cell(q)]
             lo == p - ViewRange
             hi == p + ViewRange
             first == Cell(q) * CellSize
             end == (Cell(q) + 1) * CellSize
  <2>1. q \in 0 .. Width /\ q \in lo .. hi - 1  BY <1>4 DEF TypeOK, MapPlayer, InMap
  <2>2. i \in quadTree[m]  BY <1>1, <1>4 DEF Listed, Indexed, IndexedBy, InMap
  <2>3. p \in Int /\ q \in Int /\ ViewRange \in Nat  BY <2>1, Parameters
  <2>4. lo \in Int /\ hi \in Int /\ lo <= q /\ q <= hi  BY <2>1, <2>3
  <2>5. first \in Int /\ end \in Int /\ first <= q /\ q < end
    BY <2>1, CellContains, Parameters
  <2>6. i.userId = u /\ i.node = Cell(q)  OBVIOUS
  <2>7. players[m][i.userId].x \in lo .. hi - 1 /\ InMap(m, i.userId)
    BY <1>4, <2>1
  <2> HIDE DEF i, q, lo, hi
  <2>8. first <= hi /\ lo <= end
    <3> HIDE DEF first, end
    <3> QED  BY <2>3, <2>4, <2>5
  <2>9. i.node * CellSize <= hi /\ lo <= (i.node + 1) * CellSize  BY <2>6, <2>8
  <2>10. i \in QtHits(m, lo, hi)  BY <2>2, <2>7, <2>9, Zenon DEF QtHits
  <2> QED  BY <2>6, <2>10 DEF lo, hi
<1>5. ASSUME NEW p \in Left .. Right, NEW i \in QtHits(m, p - ViewRange, p + ViewRange)
      PROVE  /\ i.userId \in Users /\ InMap(m, i.userId)
             /\ players[m][i.userId].x \in p - ViewRange .. (p + ViewRange) - 1
  <2>1. /\ i \in quadTree[m] /\ InMap(m, i.userId)
        /\ players[m][i.userId].x \in p - ViewRange .. (p + ViewRange) - 1
    BY Zenon DEF QtHits
  <2>2. i.userId \in Users  BY <1>1, <2>1 DEF Listed
  <2> QED  BY <2>1, <2>2
<1>6. ASSUME NEW p \in Left .. Right
      PROVE  {i.userId : i \in QtHits(m, p - ViewRange, p + ViewRange)} =
               {u \in Users : /\ InMap(m, u)
                              /\ players[m][u].x \in p - ViewRange .. (p + ViewRange) - 1}
  BY <1>4, <1>5, Zenon
<1> QED  BY <1>2, <1>3, <1>6

(* The state sync sees exactly the players in its range, and finds each of  *)
(* them, for every size of the nodes, of the range and of the map.         *)
THEOREM QueriesAreExact == Spec => []QueryExact
<1>1. Init => Indexed
  BY DEF Init, Indexed, IndexedBy, Listed, InMap
<1> QED  BY <1>1, IndexStep, IndexedQueries, TypeCorrect, Membership, PTL DEF Spec
-----------------------------------------------------------------------------
(* Headway.                                                                *)

(* A player at full speed covers at least one pixel in an update: with the  *)
(* code's numbers it covers five (100 * 50 div 1000).                       *)
FullSpeedMoves == MaxSpeed * DT_MS >= SpeedRatio

(* A multiple of a positive number is divided without a remainder, and a    *)
(* number that is not below its divisor counts at least once.               *)
LEMMA Divides ==
  ASSUME NEW n \in Nat, n > 0, NEW k \in Int
  PROVE  (k * n) \div n = k
<1> DEFINE a == k * n
           q == a \div n
<1>1. a \in Int  OBVIOUS
<1> HIDE DEF a
<1>2. q \in Int /\ n * q <= a /\ a < n * (q + 1)  BY <1>1
<1> HIDE DEF q
<1>3. a = n * k  BY DEF a
<1>4. q <= k
  <2> SUFFICES ASSUME q >= k + 1 PROVE FALSE  BY <1>2
  <2>1. n * q >= n * (k + 1)  BY <1>2, SMTT(30)
  <2>2. n * (k + 1) = n * k + n  OBVIOUS
  <2> QED  BY <1>2, <1>3, <2>1, <2>2
<1>5. k <= q
  <2> SUFFICES ASSUME q + 1 <= k PROVE FALSE  BY <1>2
  <2>1. n * (q + 1) <= n * k  BY <1>2, SMTT(30)
  <2> QED  BY <1>1, <1>2, <1>3, <2>1
<1> QED  BY <1>2, <1>4, <1>5 DEF q, a

LEMMA DivSign ==
  ASSUME NEW n \in Nat, n > 0, NEW a \in Int
  PROVE  /\ a >= n => a \div n >= 1
         /\ a <= -n => a \div n <= -1
<1> DEFINE q == a \div n
<1>1. q \in Int /\ n * q <= a /\ a < n * (q + 1)  OBVIOUS
<1> HIDE DEF q
<1>2. ASSUME a >= n, q <= 0 PROVE FALSE
  <2>1. n * (q + 1) <= n * 1  BY <1>1, <1>2, SMTT(30)
  <2> QED  BY <1>1, <1>2, <2>1
<1>3. ASSUME a <= -n, q >= 0 PROVE FALSE
  <2>1. n * q >= n * 0  BY <1>1, <1>3, SMTT(30)
  <2> QED  BY <1>1, <1>3, <2>1
<1> QED  BY <1>1, <1>2, <1>3 DEF q

(* A player that heads for a border at full speed has that speed, or gains  *)
(* some in its direction.                                                  *)
LEMMA SpeedsUp ==
  ASSUME NEW v \in -MaxSpeed .. MaxSpeed
  PROVE  /\ Accelerated(v, Unit) > v \/ (v = MaxSpeed /\ Accelerated(v, Unit) = MaxSpeed)
         /\ Accelerated(v, -Unit) < v \/ (v = -MaxSpeed /\ Accelerated(v, -Unit) = -MaxSpeed)
<1>1. MaxSpeed \in Nat /\ Accel \in Nat /\ Unit \in Nat /\ Unit > 0 /\ v \in Int
      /\ -MaxSpeed <= v /\ v <= MaxSpeed
  BY Parameters
<1>2. /\ (Unit * MaxSpeed) \div Unit = MaxSpeed
      /\ (Accel * Unit) \div Unit = Accel
      /\ ((-Unit) * MaxSpeed) \div Unit = -MaxSpeed
      /\ (Accel * (-Unit)) \div Unit = -Accel
  <2>1. /\ Unit * MaxSpeed = MaxSpeed * Unit
        /\ (-Unit) * MaxSpeed = (-MaxSpeed) * Unit
        /\ Accel * (-Unit) = (-Accel) * Unit
    BY <1>1
  <2>2. /\ (MaxSpeed * Unit) \div Unit = MaxSpeed /\ (Accel * Unit) \div Unit = Accel
        /\ ((-MaxSpeed) * Unit) \div Unit = -MaxSpeed
        /\ ((-Accel) * Unit) \div Unit = -Accel
    BY <1>1, Divides
  <2> QED  BY <2>1, <2>2
<1>3. Abs(Accel) = Accel /\ Abs(-Accel) = Accel  BY <1>1, AbsSign
<1>4. Accelerated(v, Unit) = IF Accel # 0 /\ Abs(MaxSpeed - v) > Accel
                             THEN v + Sign(MaxSpeed - v) * Accel ELSE MaxSpeed
  BY <1>2, <1>3 DEF Accelerated
<1>5. Accelerated(v, -Unit) = IF Accel # 0 /\ Abs(-MaxSpeed - v) > Accel
                              THEN v + Sign(-MaxSpeed - v) * Accel ELSE -MaxSpeed
  BY <1>2, <1>3 DEF Accelerated
<1>6. /\ Abs(MaxSpeed - v) = MaxSpeed - v
      /\ MaxSpeed - v > 0 => Sign(MaxSpeed - v) = 1
      /\ Abs(-MaxSpeed - v) = MaxSpeed + v
      /\ -MaxSpeed - v < 0 => Sign(-MaxSpeed - v) = -1
  BY <1>1 DEF Abs, Sign
<1> QED  BY <1>1, <1>4, <1>5, <1>6

LEMMA MovesOn ==
  ASSUME FullSpeedMoves, NEW pl \in MapPlayer, Limited(pl)
  PROVE  LET next == PlayerPhysicsMove(pl) IN
           /\ pl.dirX = Unit  => next.x = Right \/ next.x > pl.x \/ next.vX > pl.vX
           /\ pl.dirX = -Unit => next.x = Left \/ next.x < pl.x \/ next.vX < pl.vX
<1> DEFINE v == Accelerated(pl.vX, pl.dirX)
           step == (v * DT_MS) \div SpeedRatio
<1>1. /\ pl.x \in Left .. Right /\ pl.vX \in -MaxSpeed .. MaxSpeed
      /\ pl.x \in Int /\ pl.vX \in Int /\ pl.dirX \in Dirs /\ pl # Nil
  BY Parameters DEF MapPlayer, Limited
<1>2. v \in Int  BY <1>1, AcceleratedInside
<1>3. PlayerPhysicsMove(pl).vX = v /\ PlayerPhysicsMove(pl).x = Clamped(pl.x + step)
  BY DEF PlayerPhysicsMove, MapPlayer
<1> SUFFICES /\ pl.dirX = Unit  => Clamped(pl.x + step) = Right
                                   \/ Clamped(pl.x + step) > pl.x \/ v > pl.vX
             /\ pl.dirX = -Unit => Clamped(pl.x + step) = Left
                                   \/ Clamped(pl.x + step) < pl.x \/ v < pl.vX
  BY <1>3
<1>4. MaxSpeed \in Nat /\ DT_MS \in Nat /\ SpeedRatio \in Nat /\ SpeedRatio > 0
      /\ MaxSpeed * DT_MS >= SpeedRatio /\ (-MaxSpeed) * DT_MS <= -SpeedRatio
  BY Parameters DEF FullSpeedMoves
<1>5. ASSUME pl.dirX = Unit, v <= pl.vX
      PROVE  Clamped(pl.x + step) = Right \/ Clamped(pl.x + step) > pl.x
  <2>1. v = MaxSpeed  BY <1>1, <1>2, <1>5, SpeedsUp
  <2>2. step \in Int /\ step >= 1  BY <1>4, <2>1, DivSign
  <2> HIDE DEF step
  <2> QED  BY <1>1, <2>2, Parameters DEF Clamped
<1>6. ASSUME pl.dirX = -Unit, v >= pl.vX
      PROVE  Clamped(pl.x + step) = Left \/ Clamped(pl.x + step) < pl.x
  <2>1. v = -MaxSpeed  BY <1>1, <1>2, <1>6, SpeedsUp
  <2>2. step \in Int /\ step <= -1  BY <1>4, <2>1, DivSign
  <2> HIDE DEF step
  <2> QED  BY <1>1, <2>2, Parameters DEF Clamped
<1> QED  BY <1>1, <1>2, <1>5, <1>6

(* An update brings who heads for a border nearer to it or nearer to full   *)
(* speed, for every way the divisions round and every acceleration: that it *)
(* arrives does not depend on the speeds and steps of the code beyond       *)
(* FullSpeedMoves.                                                         *)
THEOREM HeadwayMade == FullSpeedMoves => (Spec => Headway)
<1> SUFFICES ASSUME FullSpeedMoves PROVE Spec => Headway
  OBVIOUS
<1> DEFINE Moves ==
      \A u \in Users, m \in Maps :
        InMap(m, u) /\ FixedUpdate(m) =>
          LET pl == players[m][u]  next == players'[m][u] IN
            /\ pl.dirX = Unit  => next.x = Right \/ next.x > pl.x \/ next.vX > pl.vX
            /\ pl.dirX = -Unit => next.x = Left \/ next.x < pl.x \/ next.vX < pl.vX
<1>1. TypeOK /\ WithinLimits => Moves
  <2> SUFFICES ASSUME TypeOK, WithinLimits, NEW u \in Users, NEW m \in Maps,
                      InMap(m, u), FixedUpdate(m)
               PROVE  LET pl == players[m][u]  next == players'[m][u] IN
                        /\ pl.dirX = Unit  => next.x = Right \/ next.x > pl.x \/ next.vX > pl.vX
                        /\ pl.dirX = -Unit => next.x = Left \/ next.x < pl.x \/ next.vX < pl.vX
    OBVIOUS
  <2>1. players[m][u] \in MapPlayer /\ Limited(players[m][u])
    BY DEF TypeOK, WithinLimits, InMap, Limited
  <2>2. players'[m][u] = PlayerPhysicsMove(players[m][u])
    BY FixedCases, FixedPlayers DEF TypeOK, Who
  <2> QED  BY <2>1, <2>2, MovesOn
<1>2. TypeOK /\ WithinLimits => [Moves]_vars
  BY <1>1
<1> QED  BY <1>2, TypeCorrect, Limits, PTL DEF Headway
=============================================================================
