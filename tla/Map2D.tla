------------------------------- MODULE Map2D -------------------------------
(***************************************************************************)
(* The 2D maps: who is in which map, the numbered inputs of each player,   *)
(* the fixed steps that move the players, and the quadtree that finds them. *)
(*                                                                         *)
(* A message handler is one step, and so is a fixed update of a map; the   *)
(* updates that one OnTick makes follow each other with nothing in between, *)
(* since all of this runs in the one thread of the "other" VM.  The two    *)
(* axes are treated alike by the code, and one of them is modelled.        *)
(***************************************************************************)
EXTENDS Integers

CONSTANTS
  Users,
  Maps,        \* the map ids of the configuration
  MapIds,      \* the map ids a client may ask for
  Width,       \* mapPxWidth
  BodyRadius,
  Center,      \* where every player appears
  CellSize,    \* extent of a deepest node of the quadtree
  ViewRange,   \* the half of the range of the state sync
  Unit,        \* directions are given in parts of Unit
  Dirs,        \* the directions a normalised input may have
  MaxSpeed,    \* maxSpeed * speedRatio
  Accel,       \* accel * DT_MS
  SpeedRatio,
  DT_MS,       \* what one fixed update simulates
  MaxFrame,    \* what one tick adds at most
  MaxGap,      \* bound: the time between two ticks
  UINT32_MAX,  \* the last sequence number
  Nil

NoMap == -1
Seqs  == 0 .. UINT32_MAX
Left  == BodyRadius
Right == Width - BodyRadius

Cell(p) == p \div CellSize
Cells   == {Cell(p) : p \in 0 .. Width}

(* mapQuadTree is the player's pointer to the node that lists it.          *)
MapPlayer == [x : 0 .. Width, vX : Int, dirX : Dirs, lastSeq : Seqs, mapQuadTree : Cells]
Item      == [userId : Users, node : Cells]

ASSUME Map2DAssumption ==
  /\ Maps \subseteq MapIds /\ MapIds \subseteq Nat \ {0}
  /\ {Width, BodyRadius, ViewRange, MaxSpeed, Accel, MaxGap} \subseteq Nat
  /\ {CellSize, Unit, SpeedRatio, DT_MS, UINT32_MAX} \subseteq Nat \ {0}
  /\ Left <= Right /\ Center \in Left .. Right
  /\ Dirs \subseteq -Unit .. Unit /\ 0 \in Dirs
  /\ MaxFrame \in Nat /\ MaxFrame >= DT_MS
  /\ Nil \notin Nat \cup MapPlayer

VARIABLES
  online,      \* users with a Player (see Session)
  nowMapId,    \* PlayerCmptMap.nowMapId of each Player
  players,     \* Map.players of each map
  quadTree,    \* the lists of the quadtree's nodes, of each map
  sinceTick,   \* time since lastTickTimeMS of each map, Nil before its first tick
  durationAccumulator,
  clientSeq    \* the number of the last input each client sent to its map

clockVars == <<sinceTick, durationAccumulator>>
vars == <<online, nowMapId, players, quadTree, sinceTick, durationAccumulator, clientSeq>>

TypeOK ==
  /\ online \subseteq Users
  /\ nowMapId \in [Users -> Maps \cup {NoMap}]
  /\ players \in [Maps -> [Users -> MapPlayer \cup {Nil}]]
  /\ quadTree \in [Maps -> SUBSET Item]
  /\ sinceTick \in [Maps -> 0 .. MaxGap \cup {Nil}]
  /\ durationAccumulator \in [Maps -> Nat]
  /\ clientSeq \in [Users -> Seqs]

Init ==
  /\ online = {}
  /\ nowMapId = [u \in Users |-> NoMap]
  /\ players = [m \in Maps |-> [u \in Users |-> Nil]]
  /\ quadTree = [m \in Maps |-> {}]
  /\ sinceTick = [m \in Maps |-> Nil]
  /\ durationAccumulator = [m \in Maps |-> 0]
  /\ clientSeq = [u \in Users |-> 0]

Abs(n)  == IF n < 0 THEN -n ELSE n
Sign(n) == IF n > 0 THEN 1 ELSE IF n < 0 THEN -1 ELSE 0

InMap(m, u) == players[m][u] # Nil

(* OnTick's loop is over: the VM can handle a message.                     *)
Idle == \A m \in Maps : durationAccumulator[m] < DT_MS

-----------------------------------------------------------------------------
(* QtQuery: only nodes that touch the range are looked into, and there the  *)
(* objects' positions decide.                                              *)
QtHits(m, lo, hi) ==
  {i \in quadTree[m] :
     /\ i.node * CellSize <= hi /\ lo <= (i.node + 1) * CellSize
     /\ InMap(m, i.userId)
     /\ players[m][i.userId].x \in lo .. hi - 1}

-----------------------------------------------------------------------------
(* Entering and leaving.                                                   *)

(* The players and quadtrees once u has left its map, if it is in one.     *)
PlayersLeft(u) ==
  IF nowMapId[u] = NoMap THEN players
  ELSE [players EXCEPT ![nowMapId[u]][u] = Nil]

\* Mutant: the player stays in the node that lists it.
LeavesItem(u) == quadTree

QuadTreeLeft(u) ==
  IF nowMapId[u] = NoMap THEN quadTree
  ELSE LET m == nowMapId[u] IN
       [quadTree EXCEPT ![m] = @ \ {[userId |-> u, node |-> players[m][u].mapQuadTree]}]

LeaveCurrMap(u) ==
  /\ players' = PlayersLeft(u)
  /\ quadTree' = QuadTreeLeft(u)
  /\ nowMapId' = [nowMapId EXCEPT ![u] = NoMap]

NewMapPlayer ==
  [x |-> Center, vX |-> 0, dirX |-> 0, lastSeq |-> 0, mapQuadTree |-> Cell(Center)]

\* Mutant: the request for a map that does not exist leaves nowMapId alone.
EnterForgets(u, m) ==
  /\ Idle
  /\ u \in online
  /\ players' = IF m \in Maps THEN [PlayersLeft(u) EXCEPT ![m][u] = NewMapPlayer]
                ELSE PlayersLeft(u)
  /\ quadTree' = IF m \in Maps
                 THEN [QuadTreeLeft(u) EXCEPT ![m] =
                         @ \cup {[userId |-> u, node |-> Cell(Center)]}]
                 ELSE QuadTreeLeft(u)
  /\ nowMapId' = IF m \in Maps THEN [nowMapId EXCEPT ![u] = m] ELSE nowMapId
  /\ clientSeq' = [clientSeq EXCEPT ![u] = 0]
  /\ UNCHANGED <<online, clockVars>>

(* The player leaves its map first, also for a map that does not exist.     *)
(* Its client numbers its inputs anew, as the map does.                    *)
MapEnterReq(u, m) ==
  /\ Idle
  /\ u \in online
  /\ IF m \in Maps /\ PlayersLeft(u)[m][u] = Nil
     THEN /\ players' = [PlayersLeft(u) EXCEPT ![m][u] = NewMapPlayer]
          /\ quadTree' = [QuadTreeLeft(u) EXCEPT ![m] =
                            @ \cup {[userId |-> u, node |-> Cell(Center)]}]
          /\ nowMapId' = [nowMapId EXCEPT ![u] = m]
     ELSE LeaveCurrMap(u)
  /\ clientSeq' = [clientSeq EXCEPT ![u] = 0]
  /\ UNCHANGED <<online, clockVars>>

MapLeaveReq(u) ==
  /\ Idle
  /\ u \in online
  /\ LeaveCurrMap(u)
  /\ UNCHANGED <<online, clientSeq, clockVars>>

(* A login makes a new Player, in no map.                                  *)
Login(u) ==
  /\ Idle
  /\ u \notin online
  /\ online' = online \cup {u}
  /\ nowMapId' = [nowMapId EXCEPT ![u] = NoMap]
  /\ UNCHANGED <<players, quadTree, clientSeq, clockVars>>

Logout(u) ==
  /\ Idle
  /\ u \in online
  /\ online' = online \ {u}
  /\ LeaveCurrMap(u)
  /\ UNCHANGED <<clientSeq, clockVars>>

-----------------------------------------------------------------------------
(* Inputs.                                                                 *)

\* Mutant: the number after UINT32_MAX is not looked for.
NeverWraps(last) == last

(* The number that the next input has to follow.                           *)
Wrapped(last) == IF last >= UINT32_MAX THEN 0 ELSE last

MapPlayerInput(pl, dir, seq) ==
  IF seq = Wrapped(pl.lastSeq) + 1
  THEN [pl EXCEPT !.dirX = dir, !.lastSeq = seq]
  ELSE [pl EXCEPT !.lastSeq = Wrapped(@)]

(* A client counts modulo 2^32.  It sends its next input, or its last one  *)
(* again.                                                                  *)
MapInputReq(u, dir, seq) ==
  /\ Idle
  /\ u \in online
  /\ nowMapId[u] # NoMap
  /\ seq \in {clientSeq[u], (clientSeq[u] + 1) % (UINT32_MAX + 1)}
  /\ players' = [players EXCEPT ![nowMapId[u]][u] = MapPlayerInput(@, dir, seq)]
  /\ clientSeq' = [clientSeq EXCEPT ![u] = seq]
  /\ UNCHANGED <<online, nowMapId, quadTree, clockVars>>

-----------------------------------------------------------------------------
(* Physics.                                                                *)

\* Mutant: the acceleration is too low to matter.
NeverSpeedsUp(v, dir) ==
  LET target == (dir * MaxSpeed) \div Unit
      most   == Abs((Accel * dir) \div Unit)
  IN IF most # 0 /\ Abs(target - v) > most THEN v ELSE target

(* The new speed: the direction's own, or as near to it as the acceleration *)
(* allows.  math.floor rounds down, and so does \div.                      *)
Accelerated(v, dir) ==
  LET target == (dir * MaxSpeed) \div Unit
      most   == Abs((Accel * dir) \div Unit)
  IN IF most # 0 /\ Abs(target - v) > most
     THEN v + Sign(target - v) * most
     ELSE target

\* Mutant: the body may stick out of the map.
ClampsCenter(x) == IF x < 0 THEN 0 ELSE IF x > Width THEN Width ELSE x

Clamped(x) == IF x < Left THEN Left ELSE IF x > Right THEN Right ELSE x

PlayerPhysicsMove(pl) ==
  LET v == Accelerated(pl.vX, pl.dirX)
      x == Clamped(pl.x + (v * DT_MS) \div SpeedRatio)
  IN [pl EXCEPT !.vX = v, !.x = x, !.mapQuadTree = Cell(x)]

(* Every player of the map moves, and is taken out of the node it pointed   *)
(* to and inserted where it is now.                                        *)
FixedUpdate(m) ==
  /\ durationAccumulator[m] >= DT_MS
  /\ LET moved == [u \in Users |-> IF InMap(m, u) THEN PlayerPhysicsMove(players[m][u]) ELSE Nil]
         who   == {u \in Users : InMap(m, u)}
     IN /\ players' = [players EXCEPT ![m] = moved]
        /\ quadTree' = [quadTree EXCEPT ![m] =
             {i \in @ : ~(i.userId \in who /\ i.node = players[m][i.userId].mapQuadTree)}
               \cup {[userId |-> u, node |-> moved[u].mapQuadTree] : u \in who}]
  /\ durationAccumulator' = [durationAccumulator EXCEPT ![m] = @ - DT_MS]
  /\ UNCHANGED <<online, nowMapId, sinceTick, clientSeq>>

-----------------------------------------------------------------------------
(* Time.                                                                   *)

TimePasses ==
  /\ Idle
  /\ \A m \in Maps : sinceTick[m] # Nil => sinceTick[m] < MaxGap
  /\ sinceTick' = [m \in Maps |-> IF sinceTick[m] = Nil THEN Nil ELSE sinceTick[m] + 1]
  /\ UNCHANGED <<online, nowMapId, players, quadTree, durationAccumulator, clientSeq>>

FrameTime(m) ==
  IF sinceTick[m] = Nil THEN 0
  ELSE IF sinceTick[m] > MaxFrame THEN MaxFrame ELSE sinceTick[m]

\* Mutant: the tick forgets what the last one left over.
DropsRest ==
  /\ Idle
  /\ sinceTick' = [m \in Maps |-> 0]
  /\ durationAccumulator' = [m \in Maps |-> FrameTime(m)]
  /\ UNCHANGED <<online, nowMapId, players, quadTree, clientSeq>>

(* MapMgr.OnTick, up to the loops of the maps: FixedUpdate is their body.   *)
OnTick ==
  /\ Idle
  /\ sinceTick' = [m \in Maps |-> 0]
  /\ durationAccumulator' = [m \in Maps |-> durationAccumulator[m] + FrameTime(m)]
  /\ UNCHANGED <<online, nowMapId, players, quadTree, clientSeq>>

-----------------------------------------------------------------------------
Next ==
  \/ \E u \in Users : Login(u) \/ Logout(u) \/ MapLeaveReq(u)
  \/ \E u \in Users, m \in MapIds : MapEnterReq(u, m)
  \/ \E u \in Users, d \in Dirs, s \in Seqs : MapInputReq(u, d, s)
  \/ \E m \in Maps : FixedUpdate(m)
  \/ TimePasses
  \/ OnTick

Spec == Init /\ [][Next]_vars
=============================================================================
