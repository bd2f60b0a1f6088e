----------------------------- MODULE PathProps -----------------------------
(***************************************************************************)
(* Correctness of FindPath against a definition of its own: a legal path,  *)
(* and one that no other beats.                                            *)
(***************************************************************************)
EXTENDS PathFinding

(* The queue is a heap, and positionMap says where in it a tile is, after   *)
(* any mix of pushes, pops and changes of priority.  No tile that was taken  *)
(* from it returns, so that the search ends.                               *)
HeapOrdered ==
  LET heap == openSet.heap IN
    /\ \A i \in 2 .. Len(heap) : heap[i \div 2].priority <= heap[i].priority
    /\ \A i \in 1 .. Len(heap) : openSet.positionMap[heap[i].pos] = i
    /\ \A t \in Tiles : openSet.positionMap[t] # Nil =>
         /\ openSet.positionMap[t] \in 1 .. Len(heap)
         /\ heap[openSet.positionMap[t]].pos = t
         /\ t \notin closedSet

(* What one step may be: to a tile that touches, on a square map with       *)
(* diagonals also past a corner, with no wall on either side of it.         *)
Touches(s, t) ==
  LET dx == t[1] - s[1]
      dy == t[2] - s[2]
  IN CASE kind = "square4" -> Abs(dx) + Abs(dy) = 1
       [] kind = "square8" -> {Abs(dx), Abs(dy)} \in {{0, 1}, {1}}
       [] kind = "hex"     -> <<dx, dy>> # <<0, 0>> /\ {dx, dy, dx + dy} \subseteq -1 .. 1

LegalStep(s, t) ==
  /\ Touches(s, t)
  /\ t \in (2 .. width - 1) \X (2 .. height - 1) /\ t \notin walls
  /\ kind = "square8" => {<<s[1], t[2]>>, <<t[1], s[2]>>} \cap walls = {}

Cost(s, t) == IF kind = "square8" /\ s[1] # t[1] /\ s[2] # t[2] THEN 1414 ELSE 1000

(* The path, if there is one, leads from the start to the goal in legal     *)
(* steps, through no tile twice.                                           *)
LegalPath ==
  path # Nil =>
    /\ path[1] = start /\ path[Len(path)] = goal
    /\ \A i \in 1 .. Len(path) - 1 : LegalStep(path[i], path[i + 1])
    /\ \A i, j \in 1 .. Len(path) : path[i] = path[j] => i = j

(* The cheapest ways to each tile, as pairs of a tile and a cost: ways are  *)
(* made longer by a legal step until none of them gets cheaper.            *)
Better(ways) ==
  LET longer == ways \cup UNION {{<<t, w[2] + Cost(w[1], t)>> : t \in {t \in Tiles : LegalStep(w[1], t)}} :
                                   w \in ways}
  IN {w \in longer : \A v \in longer : v[1] = w[1] => w[2] <= v[2]}

Search(s) ==
  IF s.over THEN s
  ELSE LET better == Better(s.ways) IN [ways |-> better, over |-> better = s.ways]

Cheapest ==
  LET s[k \in 0 .. Cardinality(Tiles)] ==
        IF k = 0 THEN [ways |-> {<<start, 0>>}, over |-> FALSE] ELSE Search(s[k - 1])
  IN s[Cardinality(Tiles)].ways

CheapestTo(t) == {w[2] : w \in {w \in Cheapest : w[1] = t}}

PathCost ==
  LET cost[i \in 1 .. Len(path)] ==
        IF i = 1 THEN 0 ELSE cost[i - 1] + Cost(path[i - 1], path[i])
  IN cost[Len(path)]

(* FindPath finds a path if there is one, and no cheaper one exists: the    *)
(* comment on Distance asks for an estimate that never exceeds the cost,    *)
(* since tiles are not looked at again once they were taken from the queue. *)
Shortest ==
  done /\ IsWalkable(start) /\ IsWalkable(goal) =>
    CheapestTo(goal) = IF path = Nil THEN {} ELSE {PathCost}
=============================================================================
