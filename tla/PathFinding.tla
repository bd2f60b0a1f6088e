---------------------------- MODULE PathFinding ----------------------------
(***************************************************************************)
(* A* on the maps of the rooms.  The three kinds of map each have their    *)
(* own copy of the search, with the same steps; they differ in neighbours, *)
(* costs and distance.  The isometric map is the square one under another  *)
(* view.                                                                   *)
(*                                                                         *)
(* A run of the specification is one call of FindPath; each step takes one *)
(* tile out of the queue.  Costs are in thousandths: a diagonal costs 1414. *)
(*                                                                         *)
(* The loops of the code are recursive functions of the number of rounds,   *)
(* with a round that changes nothing once the loop is over.                 *)
(***************************************************************************)
EXTENDS Integers, Sequences, FiniteSets

CONSTANTS
  width, height,
  Kinds,         \* of maps, among those that the factory makes
  WallSites,     \* where a map may have walls inside its border
  Starts, Goals, \* the tiles that FindPath is called with
  Nil

MapKinds == {"square4", "square8", "hex"}

Tiles == (1 .. width) \X (1 .. height)

ASSUME PathAssumption ==
  /\ width \in Nat /\ height \in Nat
  /\ Kinds \subseteq MapKinds
  /\ WallSites \subseteq Tiles
  /\ Starts \subseteq Int \X Int /\ Goals \subseteq Int \X Int
  /\ Nil \notin Tiles \cup Nat \cup Seq(Tiles)

VARIABLES
  kind, walls, start, goal, \* of this call
  openSet,   \* the queue: its heap and its positionMap
  closedSet,
  cameFrom, gScore,
  path,      \* what FindPath returned, Nil if it found none
  done

args == <<kind, walls, start, goal>>
vars == <<args, openSet, closedSet, cameFrom, gScore, path, done>>

-----------------------------------------------------------------------------
(* The maps.                                                               *)

DIRECTION4 == << <<0, -1>>, <<1, 0>>, <<0, 1>>, <<-1, 0>> >>
DIRECTION8 == << <<0, -1>>, <<1, -1>>, <<1, 0>>, <<1, 1>>,
                 <<0, 1>>, <<-1, 1>>, <<-1, 0>>, <<-1, -1>> >>
DIRECTION6 == << <<1, 0>>, <<1, -1>>, <<0, -1>>, <<-1, 0>>, <<-1, 1>>, <<0, 1>> >>

Directions == [square4 |-> DIRECTION4, square8 |-> DIRECTION8, hex |-> DIRECTION6]

(* A map has a wall all around it.                                         *)
Border == {t \in Tiles : t[1] \in {1, width} \/ t[2] \in {1, height}}

IsWalkable(t) == t \in Tiles \ (Border \cup walls)

Plus(t, d)   == <<t[1] + d[1], t[2] + d[2]>>
Diagonal(d)  == d[1] # 0 /\ d[2] # 0

(* The tiles that the free ones of some directions lead to, in order.       *)
Neighbors(t, directions, free) ==
  LET found[k \in 0 .. Len(directions)] ==
        IF k = 0 THEN <<>>
        ELSE IF k \in free THEN Append(found[k - 1], Plus(t, directions[k]))
        ELSE found[k - 1]
  IN found[Len(directions)]

\* Mutant: a diagonal step may pass between two walls.
SqueezesThrough(t) ==
  LET dirs == Directions[kind]
      Free(d) ==
        /\ IsWalkable(Plus(t, d))
        /\ Diagonal(d) => IsWalkable(Plus(t, <<d[1], 0>>)) \/ IsWalkable(Plus(t, <<0, d[2]>>))
  IN Neighbors(t, dirs, {k \in 1 .. Len(dirs) : Free(dirs[k])})

(* A diagonal step needs both tiles it passes between.                     *)
SquareFree(t, d) ==
  /\ IsWalkable(Plus(t, d))
  /\ Diagonal(d) => IsWalkable(Plus(t, <<d[1], 0>>)) /\ IsWalkable(Plus(t, <<0, d[2]>>))

SquareNeighbors(t) ==
  LET dirs == Directions[kind]
  IN Neighbors(t, dirs, {k \in 1 .. Len(dirs) : SquareFree(t, dirs[k])})

HexNeighbors(t) ==
  Neighbors(t, DIRECTION6, {k \in 1 .. Len(DIRECTION6) : IsWalkable(Plus(t, DIRECTION6[k]))})

GetNeighbors(t) == IF kind = "hex" THEN HexNeighbors(t) ELSE SquareNeighbors(t)

Abs(n) == IF n < 0 THEN -n ELSE n

SquareDistance(s, t) ==
  LET dx   == Abs(s[1] - t[1])
      dy   == Abs(s[2] - t[2])
      minD == IF dx < dy THEN dx ELSE dy
  IN IF kind = "square8"
     THEN 1414 * minD + 1000 * (dx + dy - 2 * minD)
     ELSE 1000 * (dx + dy)

HexDistance(s, t) ==
  LET dq == s[1] - t[1]
      dr == s[2] - t[2]
  IN 1000 * ((Abs(dq) + Abs(dr) + Abs(dq + dr)) \div 2)

Distance(s, t) == IF kind = "hex" THEN HexDistance(s, t) ELSE SquareDistance(s, t)

MoveCost(s, t) ==
  IF kind = "hex" THEN HexDistance(s, t)
  ELSE IF kind = "square8" /\ s[1] # t[1] /\ s[2] # t[2] THEN 1414 ELSE 1000

-----------------------------------------------------------------------------
(* The priority queue: a binary heap in an array, and where each tile is.  *)

EmptyQueue == [heap |-> <<>>, positionMap |-> [t \in Tiles |-> Nil]]

\* Mutant: the tiles change places in the heap only.
SwapsHeapOnly(q, i, j) ==
  [q EXCEPT !.heap = [@ EXCEPT ![i] = q.heap[j], ![j] = q.heap[i]]]

SwapNode(q, i, j) ==
  [heap        |-> [q.heap EXCEPT ![i] = q.heap[j], ![j] = q.heap[i]],
   positionMap |-> [q.positionMap EXCEPT ![q.heap[i].pos] = j, ![q.heap[j].pos] = i]]

(* One call of BubbleUp and of BubbleDown for the tile at a place: the tile  *)
(* has changed places with its parent or a child, or stays.  The left child *)
(* wins a tie.                                                             *)
Raise(s) ==
  LET heap   == s.queue.heap
      parent == s.at \div 2
  IN IF s.at > 1 /\ heap[s.at].priority < heap[parent].priority
     THEN [queue |-> SwapNode(s.queue, s.at, parent), at |-> parent]
     ELSE s

Sink(s) ==
  LET heap          == s.queue.heap
      Smaller(j, k) == j <= Len(heap) /\ heap[j].priority < heap[k].priority
      left          == IF Smaller(2 * s.at, s.at) THEN 2 * s.at ELSE s.at
      smallest      == IF Smaller(2 * s.at + 1, left) THEN 2 * s.at + 1 ELSE left
  IN IF smallest = s.at THEN s
     ELSE [queue |-> SwapNode(s.queue, s.at, smallest), at |-> smallest]

BubbleUp(q, i) ==
  LET up[k \in 0 .. i] ==
        IF k = 0 THEN [queue |-> q, at |-> i] ELSE Raise(up[k - 1])
  IN up[i].queue

BubbleDown(q, i) ==
  LET down[k \in 0 .. Len(q.heap)] ==
        IF k = 0 THEN [queue |-> q, at |-> i] ELSE Sink(down[k - 1])
  IN down[Len(q.heap)].queue

UpdatePriority(q, t, priority) ==
  LET i  == q.positionMap[t]
      q2 == [q EXCEPT !.heap = [q.heap EXCEPT ![i] = [pos |-> q.heap[i].pos, priority |-> priority]]]
  IN IF priority < q.heap[i].priority THEN BubbleUp(q2, i) ELSE BubbleDown(q2, i)

Push(q, t, priority) ==
  IF q.positionMap[t] # Nil THEN UpdatePriority(q, t, priority)
  ELSE LET n == Len(q.heap) + 1 IN
       BubbleUp([heap        |-> Append(q.heap, [pos |-> t, priority |-> priority]),
                 positionMap |-> [q.positionMap EXCEPT ![t] = n]], n)

(* The queue without its first tile: the last one takes its place.         *)
Popped(q) ==
  LET n    == Len(q.heap)
      last == q.heap[n]
      rest == [heap        |-> SubSeq(q.heap, 1, n - 1),
               positionMap |-> [q.positionMap EXCEPT ![q.heap[1].pos] = Nil]]
  IN IF n = 1 THEN rest
     ELSE BubbleDown([heap        |-> [rest.heap EXCEPT ![1] = last],
                      positionMap |-> [rest.positionMap EXCEPT ![last.pos] = 1]], 1)

-----------------------------------------------------------------------------
(* The search.                                                             *)

Node == [pos : Tiles, priority : Nat]

TypeOK ==
  /\ kind \in Kinds /\ walls \subseteq WallSites /\ start \in Starts /\ goal \in Goals
  /\ openSet.heap \in Seq(Node)
  /\ openSet.positionMap \in [Tiles -> Nat \cup {Nil}]
  /\ closedSet \subseteq Tiles
  /\ cameFrom \in [Tiles -> Tiles \cup {Nil}]
  /\ gScore \in [Tiles -> Nat \cup {Nil}]
  /\ path \in Seq(Tiles) \cup {Nil}
  /\ done \in BOOLEAN

(* The call, up to its loop.                                               *)
Init ==
  /\ kind \in Kinds /\ walls \in SUBSET WallSites /\ start \in Starts /\ goal \in Goals
  /\ done = ~(IsWalkable(start) /\ IsWalkable(goal))
  /\ closedSet = {}
  /\ cameFrom = [t \in Tiles |-> Nil]
  /\ gScore = [t \in Tiles |-> IF t = start /\ ~done THEN 0 ELSE Nil]
  /\ openSet = IF done THEN EmptyQueue ELSE Push(EmptyQueue, start, Distance(start, goal))
  /\ path = Nil

\* Mutant: the first way to a tile is kept, be it the cheapest or not.
VisitsOnce(current, st, neighbor) ==
  LET g == st.gScore[current] + MoveCost(current, neighbor) IN
    IF st.gScore[neighbor] # Nil THEN st
    ELSE [openSet  |-> Push(st.openSet, neighbor, g + Distance(neighbor, goal)),
          cameFrom |-> [st.cameFrom EXCEPT ![neighbor] = current],
          gScore   |-> [st.gScore EXCEPT ![neighbor] = g]]

(* One neighbour of the current tile: st holds what the loop over the       *)
(* neighbours updates.                                                     *)
Visit(current, st, neighbor) ==
  LET g == st.gScore[current] + MoveCost(current, neighbor) IN
    IF neighbor \in closedSet \cup {current} THEN st
    ELSE IF st.gScore[neighbor] # Nil /\ g >= st.gScore[neighbor] THEN st
    ELSE [openSet  |-> Push(st.openSet, neighbor, g + Distance(neighbor, goal)),
          cameFrom |-> [st.cameFrom EXCEPT ![neighbor] = current],
          gScore   |-> [st.gScore EXCEPT ![neighbor] = g]]

(* The path grows back from the goal until a tile comes from nowhere; it has *)
(* no more tiles than the map.                                             *)
ComesFrom(trail) ==
  IF cameFrom[Head(trail)] = Nil THEN trail ELSE <<cameFrom[Head(trail)]>> \o trail

ReconstructPath(t) ==
  LET trail[k \in 0 .. Cardinality(Tiles)] ==
        IF k = 0 THEN <<t>> ELSE ComesFrom(trail[k - 1])
  IN trail[Cardinality(Tiles)]

Current == openSet.heap[1].pos

(* The loop over the neighbours of the tile that was taken from the queue.  *)
Expanded(current, neighbors) ==
  LET st[k \in 0 .. Len(neighbors)] ==
        IF k = 0
        THEN [openSet |-> Popped(openSet), cameFrom |-> cameFrom, gScore |-> gScore]
        ELSE Visit(current, st[k - 1], neighbors[k])
  IN st[Len(neighbors)]

Expand ==
  /\ ~done
  /\ openSet.heap # <<>>
  /\ Current # goal
  /\ LET st == Expanded(Current, GetNeighbors(Current)) IN
       /\ openSet' = st.openSet
       /\ cameFrom' = st.cameFrom
       /\ gScore' = st.gScore
  /\ closedSet' = closedSet \cup {Current}
  /\ UNCHANGED <<args, path, done>>

Found ==
  /\ ~done
  /\ openSet.heap # <<>>
  /\ Current = goal
  /\ path' = ReconstructPath(goal)
  /\ closedSet' = closedSet \cup {goal}
  /\ openSet' = Popped(openSet)
  /\ done' = TRUE
  /\ UNCHANGED <<args, cameFrom, gScore>>

NotFound ==
  /\ ~done
  /\ openSet.heap = <<>>
  /\ done' = TRUE
  /\ UNCHANGED <<args, openSet, closedSet, cameFrom, gScore, path>>

Next == Expand \/ Found \/ NotFound

Spec == Init /\ [][Next]_vars
=============================================================================
