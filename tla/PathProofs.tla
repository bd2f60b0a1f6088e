----------------------------- MODULE PathProofs -----------------------------
(***************************************************************************)
(* Proofs about the path finding for every map, every arrangement of walls  *)
(* and every start and goal.                                               *)
(***************************************************************************)
EXTENDS PathProps, TLAPS, WellFoundedInduction, SequenceTheorems, FiniteSetTheorems

-----------------------------------------------------------------------------
(* Induction, stated of a set of numbers: a set can be an argument of a     *)
(* theorem where a predicate cannot.                                       *)
Less == {p \in Nat \X Nat : p[1] < p[2]}

LEMMA LeastNat ==
  ASSUME NEW T \in SUBSET Nat, T # {}
  PROVE  \E x \in T : \A y \in T : x <= y
<1>1. IsWellFoundedOn({p \in Nat \X Nat : p[1] < p[2]}, Nat)
  BY NatLessThanWellFounded, Zenon DEF OpToRel
<1>2. IsWellFoundedOn(Less, Nat)
  BY <1>1, Zenon DEF Less
<1>3. PICK x \in T : \A y \in T : ~ (<<y, x>> \in Less)
  BY <1>2, WFMin, Zenon
<1>4. ASSUME NEW y \in T PROVE x <= y
  <2>1. x \in Nat /\ y \in Nat /\ <<y, x>> \notin Less
    BY <1>3
  <2>2. ~ (<<y, x>>[1] < <<y, x>>[2])
    BY <2>1, Zenon DEF Less
  <2> QED BY <2>1, <2>2
<1> QED BY <1>4

LEMMA LoopInduction ==
  ASSUME NEW n \in Nat, NEW T, 0 \in T, \A k \in 1 .. n : k - 1 \in T => k \in T
  PROVE  \A k \in 0 .. n : k \in T
<1> DEFINE Bad == {k \in 0 .. n : k \notin T}
<1> SUFFICES ASSUME Bad # {} PROVE FALSE
  OBVIOUS
<1>1. Bad \in SUBSET Nat
  OBVIOUS
<1>2. PICK x \in Bad : \A y \in Bad : x <= y
  <2> HIDE DEF Bad
  <2> QED BY <1>1, LeastNat, Zenon
<1>3. x \in 1 .. n /\ x - 1 \in 0 .. n /\ ~ (x <= x - 1)
  BY <1>2
<1>4. x - 1 \in T
  BY <1>2, <1>3
<1> QED BY <1>2, <1>3, <1>4

(* A loop: n rounds from a, of which each stays in S.                       *)
Rounds(n, S) == [1 .. n -> [S -> S]]

IsLoop(n, S, a, step, f) ==
  f \in [0 .. n -> S] /\ f[0] = a /\ \A k \in 1 .. n : f[k] = step[k][f[k - 1]]

LEMMA LoopExists ==
  ASSUME NEW n \in Nat, NEW S, NEW a \in S, NEW step \in Rounds(n, S)
  PROVE  \E f : IsLoop(n, S, a, step, f)
<1>0. step \in [1 .. n -> [S -> S]]
  BY DEF Rounds
<1> DEFINE Ok(m, f) == f[0] = a /\ \A k \in 1 .. m : f[k] = step[k][f[k - 1]]
           T == {m \in 0 .. n : \E f \in [0 .. m -> S] : Ok(m, f)}
<1>1. 0 \in T
  <2> DEFINE g == [k \in 0 .. 0 |-> a]
  <2>1. g \in [0 .. 0 -> S] /\ Ok(0, g)
    OBVIOUS
  <2> HIDE DEF g
  <2>2. \E h \in [0 .. 0 -> S] : Ok(0, h)
    BY <2>1
  <2>3. 0 \in 0 .. n
    OBVIOUS
  <2> QED BY <2>2, <2>3
<1>2. ASSUME NEW m \in 1 .. n, m - 1 \in T PROVE m \in T
  <2>1. PICK f \in [0 .. m - 1 -> S] : Ok(m - 1, f)
    BY <1>2
  <2> DEFINE g == [k \in 0 .. m |-> IF k = m THEN step[m][f[m - 1]] ELSE f[k]]
  <2>2. m - 1 \in 0 .. m - 1 /\ m \in 0 .. m /\ 0 \in 0 .. m /\ 0 # m /\ 0 \in 0 .. m - 1
    OBVIOUS
  <2>3. step[m][f[m - 1]] \in S
    <3>1. f[m - 1] \in S
      BY <2>2
    <3> QED BY <1>0, <3>1
  <2>4. \A k \in 0 .. m : k # m => k \in 0 .. m - 1
    OBVIOUS
  <2>5. \A k \in 0 .. m : (IF k = m THEN step[m][f[m - 1]] ELSE f[k]) \in S
    BY <2>3, <2>4
  <2>6. g \in [0 .. m -> S]
    BY <2>5
  <2>7. g[0] = a
    BY <2>1, <2>2
  <2>8. ASSUME NEW k \in 1 .. m PROVE g[k] = step[k][g[k - 1]]
    <3>1. k - 1 \in 0 .. m /\ k \in 0 .. m /\ k - 1 # m
      OBVIOUS
    <3>2. g[k - 1] = f[k - 1]
      BY <3>1
    <3>3. CASE k = m
      BY <2>2, <3>2, <3>3
    <3>4. CASE k # m
      <4>1. k \in 1 .. m - 1
        BY <3>4
      <4>2. g[k] = f[k]
        BY <3>1, <3>4
      <4> HIDE DEF g
      <4> QED BY <2>1, <3>2, <4>1, <4>2
    <3> QED BY <3>3, <3>4
  <2> HIDE DEF g
  <2>9. \E h \in [0 .. m -> S] : Ok(m, h)
    BY <2>6, <2>7, <2>8
  <2>10. m \in 0 .. n
    OBVIOUS
  <2> QED BY <2>9, <2>10
<1> HIDE DEF T
<1>3. \A k \in 0 .. n : k \in T
  BY <1>1, <1>2, LoopInduction
<1>4. n \in T
  BY <1>3
<1> QED BY <1>4 DEF T, IsLoop

-----------------------------------------------------------------------------
(* The priority queue.                                                     *)
Queue == [heap : Seq(Node), positionMap : [Tiles -> Nat \cup {Nil}]]

Placed(q) ==
  /\ \A k \in 1 .. Len(q.heap) : q.positionMap[q.heap[k].pos] = k
  /\ \A t \in Tiles : q.positionMap[t] # Nil =>
       q.positionMap[t] \in 1 .. Len(q.heap) /\ q.heap[q.positionMap[t]].pos = t

Holds(q, t)    == q.positionMap[t] # Nil
Priority(q, t) == q.heap[q.positionMap[t]].priority

(* Two queues hold the same tiles with the same priorities, but for one.    *)
SameBut(q, r, t) ==
  \A u \in Tiles : u # t => /\ Holds(q, u) <=> Holds(r, u)
                            /\ Holds(q, u) => Priority(q, u) = Priority(r, u)
Same(q, r) ==
  \A u \in Tiles : /\ Holds(q, u) <=> Holds(r, u)
                   /\ Holds(q, u) => Priority(q, u) = Priority(r, u)

Ordered(heap) == \A k \in 2 .. Len(heap) : heap[k \div 2].priority <= heap[k].priority

LEMMA QueueType ==
  ASSUME NEW q \in Queue
  PROVE  /\ q.heap \in Seq(Node) /\ Len(q.heap) \in Nat
         /\ q.positionMap \in [Tiles -> Nat \cup {Nil}]
         /\ \A k \in 1 .. Len(q.heap) :
              q.heap[k] \in Node /\ q.heap[k].pos \in Tiles /\ q.heap[k].priority \in Nat
<1>1. q.heap \in Seq(Node) /\ q.positionMap \in [Tiles -> Nat \cup {Nil}]
  BY DEF Queue
<1>2. Len(q.heap) \in Nat /\ \A k \in 1 .. Len(q.heap) : q.heap[k] \in Node
  BY <1>1, LenProperties, ElementOfSeq
<1> QED BY <1>1, <1>2 DEF Node

(* Two tiles change places.                                                *)
Swapped(h, i, j, g) ==
  /\ Len(g) = Len(h) /\ g[i] = h[j] /\ g[j] = h[i]
  /\ \A k \in 1 .. Len(h) : k # i /\ k # j => g[k] = h[k]

LEMMA SwapIs ==
  ASSUME NEW q \in Queue, Placed(q), NEW i \in 1 .. Len(q.heap), NEW j \in 1 .. Len(q.heap), i # j
  PROVE  /\ SwapNode(q, i, j) \in Queue /\ Placed(SwapNode(q, i, j))
         /\ Swapped(q.heap, i, j, SwapNode(q, i, j).heap)
         /\ Same(q, SwapNode(q, i, j))
<1>1. PICK h, m : h = q.heap /\ m = q.positionMap
  OBVIOUS
<1>2. /\ h \in Seq(Node) /\ Len(h) \in Nat /\ m \in [Tiles -> Nat \cup {Nil}]
      /\ i \in 1 .. Len(h) /\ j \in 1 .. Len(h)
      /\ \A k \in 1 .. Len(h) : h[k] \in Node /\ h[k].pos \in Tiles
  BY <1>1, QueueType
<1>3. PICK g : g = [h EXCEPT ![i] = h[j], ![j] = h[i]]
  OBVIOUS
<1>4. PICK n : n = [m EXCEPT ![h[i].pos] = j, ![h[j].pos] = i]
  OBVIOUS
<1>5. PICK r : r = SwapNode(q, i, j)
  OBVIOUS
<1>6. r.heap = g /\ r.positionMap = n /\ r = [heap |-> g, positionMap |-> n]
  BY <1>1, <1>3, <1>4, <1>5 DEF SwapNode
<1>7. /\ \A k \in 1 .. Len(h) : m[h[k].pos] = k
      /\ \A t \in Tiles : m[t] # Nil => m[t] \in 1 .. Len(h) /\ h[m[t]].pos = t
  BY <1>1 DEF Placed
<1>8. /\ g \in Seq(Node) /\ Len(g) = Len(h)
      /\ \A k \in 1 .. Len(h) : g[k] = IF k = j THEN h[i] ELSE IF k = i THEN h[j] ELSE h[k]
  <2>1. PICK e : e = [h EXCEPT ![i] = h[j]]
    OBVIOUS
  <2>2. e \in Seq(Node) /\ Len(e) = Len(h) /\ \A k \in 1 .. Len(h) : e[k] = IF k = i THEN h[j] ELSE h[k]
    BY <1>2, <2>1, ExceptSeq
  <2>3. g = [e EXCEPT ![j] = h[i]]
    BY <1>3, <2>1
  <2>4. /\ g \in Seq(Node) /\ Len(g) = Len(e)
        /\ \A k \in 1 .. Len(e) : g[k] = IF k = j THEN h[i] ELSE e[k]
    BY <1>2, <2>2, <2>3, ExceptSeq
  <2> QED BY <2>2, <2>4
<1>9. Swapped(h, i, j, g)
  BY <1>2, <1>8 DEF Swapped
<1>10. h[i].pos # h[j].pos
  BY <1>2, <1>7
<1>11. /\ n \in [Tiles -> Nat \cup {Nil}]
       /\ n[h[i].pos] = j /\ n[h[j].pos] = i
       /\ \A t \in Tiles : t # h[i].pos /\ t # h[j].pos => n[t] = m[t]
  BY <1>2, <1>4, <1>10
<1>12. r \in Queue
  BY <1>6, <1>8, <1>11 DEF Queue
<1>13. i # Nil /\ j # Nil
  BY <1>2, PathAssumption
<1>14. \A t \in Tiles : t # h[i].pos /\ t # h[j].pos /\ m[t] # Nil => m[t] # i /\ m[t] # j
  BY <1>7
<1>15. Placed(r)
  <2>1. ASSUME NEW k \in 1 .. Len(g) PROVE n[g[k].pos] = k
    <3>1. CASE k = i
      BY <1>2, <1>8, <1>11, <3>1
    <3>2. CASE k = j
      BY <1>2, <1>8, <1>11, <3>2
    <3>3. CASE k # i /\ k # j
      <4>1. k \in 1 .. Len(h) /\ g[k] = h[k] /\ m[h[k].pos] = k
        BY <1>7, <1>8, <3>3
      <4>2. h[k].pos # h[i].pos /\ h[k].pos # h[j].pos
        BY <1>2, <1>7, <3>3, <4>1
      <4> QED BY <1>2, <1>11, <4>1, <4>2
    <3> QED BY <3>1, <3>2, <3>3
  <2>2. ASSUME NEW t \in Tiles, n[t] # Nil PROVE n[t] \in 1 .. Len(g) /\ g[n[t]].pos = t
    <3>1. CASE t = h[i].pos
      BY <1>2, <1>8, <1>11, <3>1
    <3>2. CASE t = h[j].pos
      BY <1>2, <1>8, <1>11, <3>2
    <3>3. CASE t # h[i].pos /\ t # h[j].pos
      BY <1>7, <1>8, <1>11, <1>14, <2>2, <3>3
    <3> QED BY <3>1, <3>2, <3>3
  <2> QED BY <1>6, <2>1, <2>2 DEF Placed
<1>16. Same(q, r)
  <2>1. ASSUME NEW t \in Tiles
        PROVE  (m[t] # Nil <=> n[t] # Nil) /\ (m[t] # Nil => h[m[t]].priority = g[n[t]].priority)
    <3>1. CASE t = h[i].pos
      BY <1>2, <1>7, <1>8, <1>11, <1>13, <3>1
    <3>2. CASE t = h[j].pos
      BY <1>2, <1>7, <1>8, <1>11, <1>13, <3>2
    <3>3. CASE t # h[i].pos /\ t # h[j].pos
      BY <1>7, <1>8, <1>11, <1>14, <3>3
    <3> QED BY <3>1, <3>2, <3>3
  <2> QED BY <1>1, <1>6, <2>1 DEF Same, Holds, Priority
<1> QED BY <1>1, <1>5, <1>6, <1>9, <1>12, <1>15, <1>16

(* While a tile rises or sinks, the heap is ordered but for its place; its  *)
(* parent is not above the tiles below it.                                 *)
State == [queue : Queue, at : Nat]

Above(h, i) == \A k \in 2 .. Len(h) : i > 1 /\ k \div 2 = i => h[i \div 2].priority <= h[k].priority

Rising(h, i)  == (\A k \in 2 .. Len(h) : k # i => h[k \div 2].priority <= h[k].priority) /\ Above(h, i)
Sinking(h, i) == (\A k \in 2 .. Len(h) : k \div 2 # i => h[k \div 2].priority <= h[k].priority) /\ Above(h, i)

Numbers(h) == Len(h) \in Nat /\ \A k \in 1 .. Len(h) : h[k].priority \in Nat

LEMMA Halves ==
  ASSUME NEW n \in Nat, NEW k \in 2 .. n
  PROVE  k \div 2 \in 1 .. n /\ k \div 2 < k
OBVIOUS

LEMMA Children ==
  ASSUME NEW n \in Nat, NEW i \in Nat, NEW k \in 2 .. n, k \div 2 = i
  PROVE  k \in {2 * i, 2 * i + 1} /\ k <= n
OBVIOUS

LEMMA RiseOrder ==
  ASSUME NEW h, Numbers(h), NEW i \in 2 .. Len(h), Rising(h, i),
         h[i].priority < h[i \div 2].priority, NEW g, Swapped(h, i, i \div 2, g)
  PROVE  Rising(g, i \div 2)
<1>1. PICK p : p = i \div 2
  OBVIOUS
<1>2. Len(h) \in Nat /\ p \in 1 .. Len(h) /\ p < i /\ i \in Int
  BY <1>1, Halves DEF Numbers
<1>3. /\ Len(g) = Len(h) /\ g[i] = h[p] /\ g[p] = h[i]
      /\ \A k \in 1 .. Len(h) : k # i /\ k # p => g[k] = h[k]
  BY <1>1 DEF Swapped
<1>4. \A k \in 1 .. Len(h) : h[k].priority \in Nat
  BY DEF Numbers
<1>5. h[i].priority < h[p].priority
  BY <1>1
<1>6. \A k \in 2 .. Len(h) : k # i => h[k \div 2].priority <= h[k].priority
  BY DEF Rising
<1>7. \A k \in 2 .. Len(h) : k \div 2 = i => h[p].priority <= h[k].priority
  BY <1>1 DEF Rising, Above
<1>8. ASSUME NEW k \in 2 .. Len(h), k # p PROVE g[k \div 2].priority <= g[k].priority
  <2>1. k \div 2 \in 1 .. Len(h) /\ k \div 2 < k /\ k \in 1 .. Len(h)
    BY <1>2, Halves
  <2>2. CASE k = i
    BY <1>1, <1>2, <1>3, <1>4, <1>5, <2>2
  <2>3. CASE k # i /\ k \div 2 = i
    BY <1>2, <1>3, <1>7, <1>8, <2>1, <2>3
  <2>4. CASE k # i /\ k \div 2 = p
    <3>1. h[p].priority <= h[k].priority /\ g[k] = h[k] /\ g[p] = h[i]
      BY <1>3, <1>6, <1>8, <2>1, <2>4
    <3> QED BY <1>2, <1>4, <1>5, <2>1, <2>4, <3>1
  <2>5. CASE k # i /\ k \div 2 # i /\ k \div 2 # p
    BY <1>3, <1>6, <1>8, <2>1, <2>5
  <2> QED BY <2>2, <2>3, <2>4, <2>5
<1>9. ASSUME NEW k \in 2 .. Len(h), p > 1, k \div 2 = p
      PROVE  g[p \div 2].priority <= g[k].priority
  <2>1. p \in 2 .. Len(h) /\ k \in 1 .. Len(h) /\ k # p
    BY <1>2, <1>9, Halves
  <2>2. p \div 2 \in 1 .. Len(h) /\ p \div 2 # p /\ p \div 2 # i
    BY <1>2, <2>1, Halves
  <2>3. h[p \div 2].priority <= h[p].priority /\ g[p \div 2] = h[p \div 2]
    BY <1>2, <1>3, <1>6, <2>1, <2>2
  <2>4. CASE k = i
    BY <1>3, <2>3, <2>4
  <2>5. CASE k # i
    <3>1. h[p].priority <= h[k].priority /\ g[k] = h[k]
      BY <1>3, <1>6, <1>9, <2>1, <2>5
    <3>2. p \in 1 .. Len(h) /\ h[p \div 2].priority \in Nat /\ h[p].priority \in Nat /\ h[k].priority \in Nat
      BY <1>2, <1>4, <2>1, <2>2
    <3> QED BY <2>3, <3>1, <3>2
  <2> QED BY <2>4, <2>5
<1> QED BY <1>1, <1>3, <1>8, <1>9 DEF Rising, Above

LEMMA SinkOrder ==
  ASSUME NEW h, Numbers(h), NEW i \in 1 .. Len(h), Sinking(h, i),
         NEW m \in 1 .. Len(h), m \in {2 * i, 2 * i + 1},
         h[m].priority < h[i].priority,
         \A k \in {2 * i, 2 * i + 1} : k <= Len(h) => h[m].priority <= h[k].priority,
         NEW g, Swapped(h, i, m, g)
  PROVE  Sinking(g, m)
<1>1. Len(h) \in Nat /\ i \in Nat \ {0} /\ m \in Nat /\ m > i /\ m \div 2 = i /\ m \in 2 .. Len(h)
  BY DEF Numbers
<1>2. /\ Len(g) = Len(h) /\ g[i] = h[m] /\ g[m] = h[i]
      /\ \A k \in 1 .. Len(h) : k # i /\ k # m => g[k] = h[k]
  BY DEF Swapped
<1>3. \A k \in 1 .. Len(h) : h[k].priority \in Nat
  BY DEF Numbers
<1>4. \A k \in 2 .. Len(h) : k \div 2 # i => h[k \div 2].priority <= h[k].priority
  BY DEF Sinking
<1>5. \A k \in 2 .. Len(h) : k \div 2 = i => k \in {2 * i, 2 * i + 1} /\ k <= Len(h)
  BY <1>1
<1>6. ASSUME NEW k \in 2 .. Len(h), k \div 2 # m PROVE g[k \div 2].priority <= g[k].priority
  <2>1. k \div 2 \in 1 .. Len(h) /\ k \div 2 < k /\ k \in 1 .. Len(h)
    BY <1>1, Halves
  <2>2. CASE k = m
    BY <1>1, <1>2, <1>3, <2>2
  <2>3. CASE k # m /\ k \div 2 = i
    <3>1. h[m].priority <= h[k].priority
      BY <1>5, <2>3
    <3> QED BY <1>1, <1>2, <2>1, <2>3, <3>1
  <2>4. CASE k = i
    <3>1. m \div 2 = i /\ i > 1
      BY <1>1, <2>4
    <3>2. h[i \div 2].priority <= h[m].priority
      BY <1>1, <3>1 DEF Sinking, Above
    <3>3. i \div 2 # i /\ i \div 2 # m /\ g[i \div 2] = h[i \div 2]
      BY <1>1, <1>2, <2>1, <2>4
    <3> QED BY <1>2, <2>4, <3>2, <3>3
  <2>5. CASE k # m /\ k # i /\ k \div 2 # i
    BY <1>2, <1>4, <1>6, <2>1, <2>5
  <2> QED BY <2>2, <2>3, <2>4, <2>5
<1>7. ASSUME NEW k \in 2 .. Len(h), k \div 2 = m
      PROVE  g[m \div 2].priority <= g[k].priority
  <2>1. k \in 1 .. Len(h) /\ k # m /\ k # i /\ m # i
    BY <1>1, <1>7, Halves
  <2>2. h[m].priority <= h[k].priority
    BY <1>4, <1>7, <2>1
  <2>3. g[k] = h[k] /\ g[m \div 2] = h[m]
    BY <1>1, <1>2, <2>1
  <2> QED BY <2>2, <2>3
<1> QED BY <1>2, <1>6, <1>7 DEF Sinking, Above

LEMMA SameIs ==
  ASSUME NEW q, NEW r, NEW s
  PROVE  Same(q, q) /\ (Same(q, r) /\ Same(r, s) => Same(q, s))
BY DEF Same

(* What does not change while a tile rises or sinks.                       *)
Moves(q, s) ==
  /\ s \in State /\ Placed(s.queue) /\ Same(q, s.queue)
  /\ Len(s.queue.heap) = Len(q.heap) /\ s.at \in 1 .. Len(q.heap)

RiseStates(q) == {s \in State : Moves(q, s) /\ Rising(s.queue.heap, s.at)}
SinkStates(q) == {s \in State : Moves(q, s) /\ Sinking(s.queue.heap, s.at)}

LEMMA SwapMoves ==
  ASSUME NEW q, NEW s, Moves(q, s), NEW j \in 1 .. Len(q.heap), j # s.at,
         NEW r, r = [queue |-> SwapNode(s.queue, s.at, j), at |-> j]
  PROVE  Moves(q, r) /\ Swapped(s.queue.heap, s.at, j, r.queue.heap) /\ r.at = j
<1>1. /\ s.queue \in Queue /\ Placed(s.queue) /\ Same(q, s.queue)
      /\ Len(s.queue.heap) = Len(q.heap) /\ s.at \in 1 .. Len(q.heap)
  BY DEF Moves, State
<1>2. PICK n : n = SwapNode(s.queue, s.at, j)
  OBVIOUS
<1>3. n \in Queue /\ Placed(n) /\ Swapped(s.queue.heap, s.at, j, n.heap) /\ Same(s.queue, n)
  BY <1>1, <1>2, SwapIs
<1>4. Same(q, n) /\ Len(n.heap) = Len(q.heap)
  BY <1>1, <1>3, SameIs DEF Swapped
<1>5. r.queue = n /\ r.at = j /\ r = [queue |-> n, at |-> j]
  BY <1>2
<1>6. r \in State
  <2>1. j \in Nat
    <3>1. Len(q.heap) \in Nat
      BY <1>1, QueueType
    <3> QED BY <3>1
  <2> QED BY <1>3, <1>5, <2>1 DEF State
<1> QED BY <1>3, <1>4, <1>5, <1>6 DEF Moves

LEMMA StateNumbers ==
  ASSUME NEW q, NEW s, Moves(q, s)
  PROVE  Numbers(s.queue.heap) /\ Len(q.heap) \in Nat /\ s.queue \in Queue
BY QueueType DEF Moves, State, Numbers

LEMMA RaiseIs ==
  ASSUME NEW q, NEW s \in RiseStates(q)
  PROVE  /\ Raise(s) \in RiseStates(q)
         /\ Raise(s) = s => Ordered(s.queue.heap)
         /\ Raise(s) # s => Raise(s).at < s.at
<1>1. PICK h, i : h = s.queue.heap /\ i = s.at
  OBVIOUS
<1>2. /\ Moves(q, s) /\ Rising(h, i) /\ Len(h) = Len(q.heap) /\ i \in 1 .. Len(h)
      /\ Numbers(h) /\ Len(h) \in Nat
  BY <1>1, StateNumbers DEF RiseStates, Moves
<1>3. CASE i > 1 /\ h[i].priority < h[i \div 2].priority
  <2>1. PICK r : r = Raise(s)
    OBVIOUS
  <2>2. r = [queue |-> SwapNode(s.queue, s.at, i \div 2), at |-> i \div 2]
    BY <1>1, <1>3, <2>1 DEF Raise
  <2>3. i \in 2 .. Len(h)
    BY <1>2, <1>3
  <2>4. i \div 2 \in 1 .. Len(h) /\ i \div 2 < i
    BY <1>2, <2>3, Halves
  <2>5. i \div 2 # s.at
    BY <1>1, <1>2, <2>4
  <2>6. Moves(q, r) /\ Swapped(h, i, i \div 2, r.queue.heap) /\ r.at = i \div 2
    BY <1>1, <1>2, <2>2, <2>4, <2>5, SwapMoves
  <2>7. Rising(r.queue.heap, i \div 2)
    BY <1>2, <1>3, <2>3, <2>6, RiseOrder
  <2>8. r \in RiseStates(q)
    BY <2>6, <2>7 DEF RiseStates, Moves
  <2> QED BY <1>1, <1>2, <2>1, <2>4, <2>6, <2>8
<1>4. CASE ~ (i > 1 /\ h[i].priority < h[i \div 2].priority)
  <2>1. Raise(s) = s
    BY <1>1, <1>4 DEF Raise
  <2>2. Ordered(h)
    <3> SUFFICES ASSUME NEW k \in 2 .. Len(h) PROVE h[k \div 2].priority <= h[k].priority
      BY DEF Ordered
    <3>1. CASE k # i
      BY <1>2, <3>1 DEF Rising
    <3>2. CASE k = i
      <4>1. k \div 2 \in 1 .. Len(h) /\ k \in 1 .. Len(h) /\ k > 1
        BY <1>2, Halves
      <4>2. h[k \div 2].priority \in Nat /\ h[k].priority \in Nat
        BY <1>2, <4>1 DEF Numbers
      <4> QED BY <1>4, <3>2, <4>1, <4>2
    <3> QED BY <3>1, <3>2
  <2> QED BY <1>1, <2>1, <2>2
<1> QED BY <1>3, <1>4

LEMMA SinkIs ==
  ASSUME NEW q, NEW s \in SinkStates(q)
  PROVE  /\ Sink(s) \in SinkStates(q)
         /\ Sink(s) = s => Ordered(s.queue.heap)
         /\ Sink(s) # s => Sink(s).at > s.at
<1>1. PICK h, i : h = s.queue.heap /\ i = s.at
  OBVIOUS
<1>2. /\ Moves(q, s) /\ Sinking(h, i) /\ Len(h) = Len(q.heap) /\ i \in 1 .. Len(h)
      /\ Numbers(h) /\ Len(h) \in Nat
  BY <1>1, StateNumbers DEF SinkStates, Moves
<1>3. i \in Nat \ {0} /\ \A k \in 1 .. Len(h) : h[k].priority \in Nat
  BY <1>2 DEF Numbers
<1> DEFINE l == IF 2 * i <= Len(h) /\ h[2 * i].priority < h[i].priority THEN 2 * i ELSE i
           m == IF 2 * i + 1 <= Len(h) /\ h[2 * i + 1].priority < h[l].priority THEN 2 * i + 1 ELSE l
<1>4. Sink(s) = IF m = i THEN s ELSE [queue |-> SwapNode(s.queue, i, m), at |-> m]
  BY <1>1 DEF Sink
<1>5. \A k \in {2 * i, 2 * i + 1} : k <= Len(h) => k \in 1 .. Len(h)
  BY <1>2, <1>3
<1>6. /\ m \in 1 .. Len(h)
      /\ \A k \in {2 * i, 2 * i + 1} : k <= Len(h) => h[m].priority <= h[k].priority
      /\ m # i => m \in {2 * i, 2 * i + 1} /\ h[m].priority < h[i].priority
  <2>1. /\ l \in 1 .. Len(h) /\ l \in {i, 2 * i}
        /\ l # i => h[l].priority < h[i].priority
        /\ h[l].priority <= h[i].priority
        /\ 2 * i <= Len(h) => h[l].priority <= h[2 * i].priority
    <3>1. CASE 2 * i <= Len(h) /\ h[2 * i].priority < h[i].priority
      <4>1. l = 2 * i /\ 2 * i \in 1 .. Len(h)
        BY <1>5, <3>1
      <4>2. h[l].priority \in Nat /\ h[i].priority \in Nat
        BY <1>2, <1>3, <4>1
      <4> QED BY <3>1, <4>1, <4>2
    <3>2. CASE ~ (2 * i <= Len(h) /\ h[2 * i].priority < h[i].priority)
      <4>1. l = i
        BY <3>2
      <4>2. 2 * i <= Len(h) => 2 * i \in 1 .. Len(h) /\ h[2 * i].priority \in Nat
        BY <1>3, <1>5
      <4>3. h[i].priority \in Nat
        BY <1>2, <1>3
      <4> HIDE DEF l
      <4> QED BY <1>2, <3>2, <4>1, <4>2, <4>3
    <3> QED BY <3>1, <3>2
  <2>2. l = i \/ l # i
    OBVIOUS
  <2> HIDE DEF l
  <2>3. 2 * i + 1 # i /\ 2 * i # i
    BY <1>3
  <2>4. h[l].priority \in Nat /\ h[i].priority \in Nat
    BY <1>2, <1>3, <2>1
  <2>5. 2 * i <= Len(h) => h[2 * i].priority \in Nat
    BY <1>3, <1>5
  <2>6. 2 * i + 1 <= Len(h) => 2 * i + 1 \in 1 .. Len(h) /\ h[2 * i + 1].priority \in Nat
    BY <1>3, <1>5
  <2>7. CASE 2 * i + 1 <= Len(h) /\ h[2 * i + 1].priority < h[l].priority
    <3>1. m = 2 * i + 1
      BY <2>7
    <3> HIDE DEF m
    <3> QED BY <2>1, <2>3, <2>4, <2>5, <2>6, <2>7, <3>1
  <2>8. CASE ~ (2 * i + 1 <= Len(h) /\ h[2 * i + 1].priority < h[l].priority)
    <3>1. m = l
      BY <2>8
    <3> HIDE DEF m
    <3> QED BY <2>1, <2>3, <2>4, <2>5, <2>6, <2>8, <3>1
  <2> QED BY <2>7, <2>8
<1> HIDE DEF l, m
<1>7. CASE m # i
  <2>1. PICK r : r = Sink(s)
    OBVIOUS
  <2>2. r = [queue |-> SwapNode(s.queue, s.at, m), at |-> m]
    BY <1>1, <1>4, <1>7, <2>1
  <2>3. Moves(q, r) /\ Swapped(h, i, m, r.queue.heap) /\ r.at = m
    BY <1>1, <1>2, <1>6, <1>7, <2>2, SwapMoves
  <2>4. Sinking(r.queue.heap, m)
    BY <1>2, <1>6, <1>7, <2>3, SinkOrder
  <2>5. r \in SinkStates(q)
    BY <2>3, <2>4 DEF SinkStates, Moves
  <2>6. m > i
    BY <1>3, <1>6, <1>7
  <2> QED BY <1>1, <1>3, <2>1, <2>3, <2>5, <2>6
<1>8. CASE m = i
  <2>1. Sink(s) = s
    BY <1>4, <1>8
  <2>2. Ordered(h)
    <3> SUFFICES ASSUME NEW k \in 2 .. Len(h) PROVE h[k \div 2].priority <= h[k].priority
      BY DEF Ordered
    <3>1. CASE k \div 2 # i
      BY <1>2, <3>1 DEF Sinking
    <3>2. CASE k \div 2 = i
      <4>1. k \in {2 * i, 2 * i + 1} /\ k <= Len(h)
        BY <1>2, <1>3, <3>2, Children
      <4> QED BY <1>6, <1>8, <3>2, <4>1
    <3> QED BY <3>1, <3>2
  <2> QED BY <1>1, <2>1, <2>2
<1> QED BY <1>7, <1>8

(* The outcome: the same tiles with the same priorities, in order.          *)
Settled(q, r) == r \in Queue /\ Placed(r) /\ Ordered(r.heap) /\ Same(q, r)

LEMMA BubbleUpIs ==
  ASSUME NEW q \in Queue, Placed(q), NEW i \in 1 .. Len(q.heap), Rising(q.heap, i)
  PROVE  Settled(q, BubbleUp(q, i))
<1> DEFINE S == RiseStates(q)
           a == [queue |-> q, at |-> i]
           step == [k \in 1 .. i |-> [s \in S |-> Raise(s)]]
           Eq(f) == f = [k \in 0 .. i |-> IF k = 0 THEN a ELSE Raise(f[k - 1])]
           up == CHOOSE f : Eq(f)
<1>1. i \in Nat /\ Len(q.heap) \in Nat
  BY QueueType
<1>2. a \in S
  BY <1>1, SameIs DEF RiseStates, Moves, State
<1>3. step \in [1 .. i -> [S -> S]]
  BY RaiseIs
<1> HIDE DEF S
<1>4. \E f : IsLoop(i, S, a, step, f)
  <2> HIDE DEF a, step
  <2> QED BY <1>1, <1>2, <1>3, LoopExists DEF Rounds
<1>5. PICK f : f \in [0 .. i -> S] /\ f[0] = a /\ \A k \in 1 .. i : f[k] = step[k][f[k - 1]]
  BY <1>4 DEF IsLoop
<1>6. ASSUME NEW k \in 0 .. i PROVE f[k] = IF k = 0 THEN a ELSE Raise(f[k - 1])
  <2>1. CASE k = 0
    BY <1>5, <2>1
  <2>2. CASE k # 0
    <3>1. k \in 1 .. i /\ k - 1 \in 0 .. i
      BY <1>1, <2>2
    <3>2. f[k - 1] \in S /\ f[k] = step[k][f[k - 1]]
      BY <1>5, <3>1
    <3> QED BY <2>2, <3>1, <3>2
  <2> QED BY <2>1, <2>2
<1>7. Eq(f)
  <2>1. f = [k \in 0 .. i |-> f[k]]
    BY <1>5
  <2> QED BY <1>6, <2>1
<1>8. Eq(up)
  <2> HIDE DEF Eq
  <2> QED BY <1>7, Zenon
<1>9. up[0] = a /\ \A k \in 1 .. i : up[k] = Raise(up[k - 1])
  <2>1. \A k \in 0 .. i : up[k] = IF k = 0 THEN a ELSE Raise(up[k - 1])
    <3> HIDE DEF up
    <3> QED BY <1>8
  <2> HIDE DEF up, a
  <2>2. \A k \in 1 .. i : k \in 0 .. i /\ k # 0
    BY <1>1
  <2> QED BY <1>1, <2>1, <2>2
<1>10. BubbleUp(q, i) = up[i].queue
  BY DEF BubbleUp
<1> HIDE DEF up
<1> DEFINE T == {k \in 0 .. i : up[k] \in S /\ (Raise(up[k]) = up[k] \/ up[k].at <= i - k)}
<1>11. 0 \in T
  BY <1>1, <1>2, <1>9
<1>12. ASSUME NEW k \in 1 .. i, k - 1 \in T PROVE k \in T
  <2>1. PICK s : s = up[k - 1]
    OBVIOUS
  <2>2. s \in S /\ (Raise(s) = s \/ s.at <= i - (k - 1)) /\ up[k] = Raise(s)
    BY <1>9, <1>12, <2>1
  <2>3. Raise(s) \in S /\ (Raise(s) # s => Raise(s).at < s.at)
    BY <2>2, RaiseIs DEF S
  <2>4. CASE Raise(s) = s
    BY <2>2, <2>3, <2>4
  <2>5. CASE Raise(s) # s
    <3>1. PICK r : r = Raise(s)
      OBVIOUS
    <3>2. r.at \in Nat /\ s.at \in Nat
      BY <2>2, <2>3, <3>1 DEF S, RiseStates, State
    <3>3. r.at <= i - k
      BY <1>1, <2>2, <2>3, <2>5, <3>1, <3>2
    <3> QED BY <2>2, <2>3, <3>1, <3>3
  <2> QED BY <2>4, <2>5
<1>13. i \in T
  <2> HIDE DEF T
  <2>1. \A k \in 0 .. i : k \in T
    BY <1>1, <1>11, <1>12, LoopInduction
  <2> QED BY <1>1, <2>1
<1>14. PICK s : s = up[i]
  OBVIOUS
<1>15. s \in RiseStates(q) /\ (Raise(s) = s \/ s.at <= 0)
  BY <1>1, <1>13, <1>14 DEF S
<1>16. s.at \in 1 .. Len(q.heap) /\ Moves(q, s)
  BY <1>15 DEF RiseStates, Moves
<1>17. Ordered(s.queue.heap)
  <2>1. ~ (s.at <= 0)
    BY <1>1, <1>16
  <2> QED BY <1>15, <2>1, RaiseIs
<1> QED BY <1>10, <1>14, <1>16, <1>17 DEF Settled, Moves, State

LEMMA BubbleDownIs ==
  ASSUME NEW q \in Queue, Placed(q), NEW i \in 1 .. Len(q.heap), Sinking(q.heap, i)
  PROVE  Settled(q, BubbleDown(q, i))
<1> DEFINE n == Len(q.heap)
           S == SinkStates(q)
           a == [queue |-> q, at |-> i]
           step == [k \in 1 .. n |-> [s \in S |-> Sink(s)]]
           Eq(f) == f = [k \in 0 .. n |-> IF k = 0 THEN a ELSE Sink(f[k - 1])]
           down == CHOOSE f : Eq(f)
<1>1. i \in Nat \ {0} /\ n \in Nat /\ i <= n
  BY QueueType
<1>2. a \in S
  BY <1>1, SameIs DEF SinkStates, Moves, State
<1>3. step \in [1 .. n -> [S -> S]]
  BY SinkIs
<1> HIDE DEF n, S
<1>4. \E f : IsLoop(n, S, a, step, f)
  <2> HIDE DEF a, step
  <2> QED BY <1>1, <1>2, <1>3, LoopExists DEF Rounds
<1>5. PICK f : f \in [0 .. n -> S] /\ f[0] = a /\ \A k \in 1 .. n : f[k] = step[k][f[k - 1]]
  BY <1>4 DEF IsLoop
<1>6. ASSUME NEW k \in 0 .. n PROVE f[k] = IF k = 0 THEN a ELSE Sink(f[k - 1])
  <2>1. CASE k = 0
    BY <1>5, <2>1
  <2>2. CASE k # 0
    <3>1. k \in 1 .. n /\ k - 1 \in 0 .. n
      BY <1>1, <2>2
    <3>2. f[k - 1] \in S /\ f[k] = step[k][f[k - 1]]
      BY <1>5, <3>1
    <3> QED BY <2>2, <3>1, <3>2
  <2> QED BY <2>1, <2>2
<1>7. Eq(f)
  <2>1. f = [k \in 0 .. n |-> f[k]]
    BY <1>5
  <2> QED BY <1>6, <2>1
<1>8. Eq(down)
  <2> HIDE DEF Eq
  <2> QED BY <1>7, Zenon
<1>9. down[0] = a /\ \A k \in 1 .. n : down[k] = Sink(down[k - 1])
  <2>1. \A k \in 0 .. n : down[k] = IF k = 0 THEN a ELSE Sink(down[k - 1])
    <3> HIDE DEF down
    <3> QED BY <1>8
  <2> HIDE DEF down, a
  <2>2. \A k \in 1 .. n : k \in 0 .. n /\ k # 0
    BY <1>1
  <2> QED BY <1>1, <2>1, <2>2
<1>10. BubbleDown(q, i) = down[n].queue
  BY DEF BubbleDown, n
<1> HIDE DEF down
<1> DEFINE T == {k \in 0 .. n : down[k] \in S /\ (Sink(down[k]) = down[k] \/ down[k].at >= i + k)}
<1>11. 0 \in T
  BY <1>1, <1>2, <1>9
<1>12. ASSUME NEW k \in 1 .. n, k - 1 \in T PROVE k \in T
  <2>1. PICK s : s = down[k - 1]
    OBVIOUS
  <2>2. s \in S /\ (Sink(s) = s \/ s.at >= i + (k - 1)) /\ down[k] = Sink(s)
    BY <1>9, <1>12, <2>1
  <2>3. Sink(s) \in S /\ (Sink(s) # s => Sink(s).at > s.at)
    BY <2>2, SinkIs DEF S
  <2>4. CASE Sink(s) = s
    BY <2>2, <2>3, <2>4
  <2>5. CASE Sink(s) # s
    <3>1. PICK r : r = Sink(s)
      OBVIOUS
    <3>2. r.at \in Nat /\ s.at \in Nat
      BY <2>2, <2>3, <3>1 DEF S, SinkStates, State
    <3>3. r.at >= i + k
      BY <1>1, <2>2, <2>3, <2>5, <3>1, <3>2
    <3> QED BY <2>2, <2>3, <3>1, <3>3
  <2> QED BY <2>4, <2>5
<1>13. n \in T
  <2> HIDE DEF T
  <2>1. \A k \in 0 .. n : k \in T
    BY <1>1, <1>11, <1>12, LoopInduction
  <2> QED BY <1>1, <2>1
<1>14. PICK s : s = down[n]
  OBVIOUS
<1>15. s \in SinkStates(q) /\ (Sink(s) = s \/ s.at >= i + n)
  BY <1>1, <1>13, <1>14 DEF S
<1>16. s.at \in 1 .. n /\ Moves(q, s)
  BY <1>15 DEF SinkStates, Moves, n
<1>17. Ordered(s.queue.heap)
  <2>1. ~ (s.at >= i + n)
    BY <1>1, <1>16
  <2> QED BY <1>15, <2>1, SinkIs
<1> QED BY <1>10, <1>14, <1>16, <1>17 DEF Settled, Moves, State

(* The queue between two operations.                                       *)
Good(q) == q \in Queue /\ Placed(q) /\ Ordered(q.heap)

(* Once a tile has a new priority, it is settled by moving it one way.      *)
Changed(h, i, t, p, g) ==
  /\ g \in Seq(Node) /\ Len(g) = Len(h) /\ g[i] = [pos |-> t, priority |-> p]
  /\ \A k \in 1 .. Len(h) : k # i => g[k] = h[k]

LEMMA CheaperRises ==
  ASSUME NEW h, Numbers(h), Ordered(h), NEW i \in 1 .. Len(h), NEW p \in Nat, NEW t, NEW g,
         Changed(h, i, t, p, g), p < h[i].priority
  PROVE  Rising(g, i)
<1>1. Len(h) \in Nat /\ \A k \in 1 .. Len(h) : h[k].priority \in Nat
  BY DEF Numbers
<1>2. Len(g) = Len(h) /\ g[i].priority = p /\ \A k \in 1 .. Len(h) : k # i => g[k] = h[k]
  BY DEF Changed
<1>3. ASSUME NEW k \in 2 .. Len(h)
      PROVE  /\ k \in 1 .. Len(h) /\ k \div 2 \in 1 .. Len(h) /\ k \div 2 < k
             /\ h[k \div 2].priority <= h[k].priority
  BY <1>1, Halves DEF Ordered
<1>4. ASSUME NEW k \in 2 .. Len(h), k # i PROVE g[k \div 2].priority <= g[k].priority
  <2>1. CASE k \div 2 = i
    BY <1>1, <1>2, <1>3, <1>4, <2>1
  <2>2. CASE k \div 2 # i
    BY <1>2, <1>3, <1>4, <2>2
  <2> QED BY <2>1, <2>2
<1>5. ASSUME NEW k \in 2 .. Len(h), i > 1, k \div 2 = i
      PROVE  g[i \div 2].priority <= g[k].priority
  <2>1. i \in 2 .. Len(h)
    BY <1>1, <1>5
  <2>2. /\ i \div 2 \in 1 .. Len(h) /\ i \div 2 # i /\ k \in 1 .. Len(h) /\ k # i
        /\ h[i \div 2].priority <= h[i].priority /\ h[i].priority <= h[k].priority
    BY <1>1, <1>3, <1>5, <2>1
  <2>3. g[i \div 2] = h[i \div 2] /\ g[k] = h[k]
    BY <1>2, <2>2
  <2>4. h[i \div 2].priority \in Nat /\ h[i].priority \in Nat /\ h[k].priority \in Nat
    BY <1>1, <2>2
  <2> QED BY <2>2, <2>3, <2>4
<1> QED BY <1>2, <1>4, <1>5 DEF Rising, Above

LEMMA DearerSinks ==
  ASSUME NEW h, Numbers(h), Ordered(h), NEW i \in 1 .. Len(h), NEW p \in Nat, NEW t, NEW g,
         Changed(h, i, t, p, g), ~ (p < h[i].priority)
  PROVE  Sinking(g, i)
<1>1. Len(h) \in Nat /\ \A k \in 1 .. Len(h) : h[k].priority \in Nat
  BY DEF Numbers
<1>2. Len(g) = Len(h) /\ g[i].priority = p /\ \A k \in 1 .. Len(h) : k # i => g[k] = h[k]
  BY DEF Changed
<1>3. ASSUME NEW k \in 2 .. Len(h)
      PROVE  /\ k \in 1 .. Len(h) /\ k \div 2 \in 1 .. Len(h) /\ k \div 2 < k
             /\ h[k \div 2].priority <= h[k].priority
  BY <1>1, Halves DEF Ordered
<1>4. ASSUME NEW k \in 2 .. Len(h), k \div 2 # i PROVE g[k \div 2].priority <= g[k].priority
  <2>1. CASE k = i
    <3>1. h[k \div 2].priority \in Nat /\ h[i].priority \in Nat /\ g[k \div 2] = h[k \div 2]
      BY <1>1, <1>2, <1>3, <1>4
    <3> QED BY <1>2, <1>3, <2>1, <3>1
  <2>2. CASE k # i
    BY <1>2, <1>3, <1>4, <2>2
  <2> QED BY <2>1, <2>2
<1>5. ASSUME NEW k \in 2 .. Len(h), i > 1, k \div 2 = i
      PROVE  g[i \div 2].priority <= g[k].priority
  <2>1. i \in 2 .. Len(h)
    BY <1>1, <1>5
  <2>2. /\ i \div 2 \in 1 .. Len(h) /\ i \div 2 # i /\ k \in 1 .. Len(h) /\ k # i
        /\ h[i \div 2].priority <= h[i].priority /\ h[i].priority <= h[k].priority
    BY <1>1, <1>3, <1>5, <2>1
  <2>3. g[i \div 2] = h[i \div 2] /\ g[k] = h[k]
    BY <1>2, <2>2
  <2>4. h[i \div 2].priority \in Nat /\ h[i].priority \in Nat /\ h[k].priority \in Nat
    BY <1>1, <2>2
  <2> QED BY <2>2, <2>3, <2>4
<1> QED BY <1>2, <1>4, <1>5 DEF Sinking, Above

(* What Push promises: the tile has the priority, the others are as before. *)
Pushed(q, t, p, r) == Good(r) /\ Holds(r, t) /\ Priority(r, t) = p /\ SameBut(q, r, t)

LEMMA SettledPushed ==
  ASSUME NEW q, NEW t \in Tiles, NEW p, NEW m, Holds(m, t), Priority(m, t) = p, SameBut(q, m, t),
         NEW r, Settled(m, r)
  PROVE  Pushed(q, t, p, r)
BY DEF Pushed, Settled, Good, Same, SameBut

LEMMA UpdateIs ==
  ASSUME NEW q, Good(q), NEW t \in Tiles, NEW p \in Nat, Holds(q, t)
  PROVE  Pushed(q, t, p, UpdatePriority(q, t, p))
<1>1. PICK h, m, i : h = q.heap /\ m = q.positionMap /\ i = m[t]
  OBVIOUS
<1>2. /\ q \in Queue /\ h \in Seq(Node) /\ Len(h) \in Nat /\ m \in [Tiles -> Nat \cup {Nil}]
      /\ \A k \in 1 .. Len(h) : h[k] \in Node /\ h[k].pos \in Tiles /\ h[k].priority \in Nat
  BY <1>1, QueueType DEF Good
<1>3. /\ \A k \in 1 .. Len(h) : m[h[k].pos] = k
      /\ \A u \in Tiles : m[u] # Nil => m[u] \in 1 .. Len(h) /\ h[m[u]].pos = u
  BY <1>1 DEF Good, Placed
<1>4. i \in 1 .. Len(h) /\ h[i].pos = t /\ m[t] = i
  BY <1>1, <1>3 DEF Holds
<1>5. PICK g : g = [h EXCEPT ![i] = [pos |-> h[i].pos, priority |-> p]]
  OBVIOUS
<1>6. PICK e : e = [q EXCEPT !.heap = g]
  OBVIOUS
<1>7. e.heap = g /\ e.positionMap = m /\ e = [heap |-> g, positionMap |-> m]
  BY <1>1, <1>2, <1>6 DEF Queue
<1>8. UpdatePriority(q, t, p) = IF p < h[i].priority THEN BubbleUp(e, i) ELSE BubbleDown(e, i)
  BY <1>1, <1>5, <1>6 DEF UpdatePriority
<1>9. Changed(h, i, t, p, g)
  <2>1. PICK n : n = [pos |-> t, priority |-> p]
    OBVIOUS
  <2>2. n \in Node /\ g = [h EXCEPT ![i] = n]
    BY <1>4, <1>5, <2>1 DEF Node
  <2>3. g \in Seq(Node) /\ Len(g) = Len(h) /\ \A k \in 1 .. Len(h) : g[k] = IF k = i THEN n ELSE h[k]
    BY <1>2, <1>4, <2>2, ExceptSeq
  <2> QED BY <1>4, <2>1, <2>3 DEF Changed
<1>10. /\ g \in Seq(Node) /\ Len(g) = Len(h) /\ g[i].pos = t /\ g[i].priority = p
       /\ \A k \in 1 .. Len(h) : k # i => g[k] = h[k]
  BY <1>9 DEF Changed
<1>11. \A k \in 1 .. Len(h) : g[k].pos = h[k].pos
  BY <1>4, <1>10
<1>12. e \in Queue /\ Placed(e)
  <2>1. e \in Queue
    BY <1>2, <1>7, <1>10 DEF Queue
  <2> QED BY <1>3, <1>7, <1>10, <1>11, <2>1 DEF Placed
<1>13. Holds(e, t) /\ Priority(e, t) = p /\ SameBut(q, e, t)
  <2>1. Holds(e, t) /\ Priority(e, t) = p
    BY <1>1, <1>4, <1>7, <1>10 DEF Holds, Priority
  <2>2. ASSUME NEW u \in Tiles, u # t, m[u] # Nil PROVE g[m[u]] = h[m[u]]
    BY <1>3, <1>4, <1>10, <2>2
  <2> QED BY <1>1, <1>7, <2>1, <2>2 DEF SameBut, Holds, Priority
<1>14. Numbers(h) /\ Ordered(h)
  BY <1>1, <1>2 DEF Numbers, Good
<1>15. CASE p < h[i].priority
  <2>1. Rising(e.heap, i)
    BY <1>4, <1>7, <1>9, <1>14, <1>15, CheaperRises
  <2>2. Settled(e, BubbleUp(e, i))
    BY <1>4, <1>7, <1>10, <1>12, <2>1, BubbleUpIs
  <2> QED BY <1>8, <1>13, <1>15, <2>2, SettledPushed
<1>16. CASE ~ (p < h[i].priority)
  <2>1. Sinking(e.heap, i)
    BY <1>4, <1>7, <1>9, <1>14, <1>16, DearerSinks
  <2>2. Settled(e, BubbleDown(e, i))
    BY <1>4, <1>7, <1>10, <1>12, <2>1, BubbleDownIs
  <2> QED BY <1>8, <1>13, <1>16, <2>2, SettledPushed
<1> QED BY <1>15, <1>16

LEMMA PushIs ==
  ASSUME NEW q, Good(q), NEW t \in Tiles, NEW p \in Nat
  PROVE  Pushed(q, t, p, Push(q, t, p))
<1>1. CASE Holds(q, t)
  <2>1. Push(q, t, p) = UpdatePriority(q, t, p)
    BY <1>1 DEF Push, Holds
  <2> QED BY <1>1, <2>1, UpdateIs
<1>2. CASE ~ Holds(q, t)
  <2>1. PICK h, m, n : h = q.heap /\ m = q.positionMap /\ n = Len(h) + 1
    OBVIOUS
  <2>2. /\ q \in Queue /\ h \in Seq(Node) /\ Len(h) \in Nat /\ m \in [Tiles -> Nat \cup {Nil}]
        /\ \A k \in 1 .. Len(h) : h[k] \in Node /\ h[k].pos \in Tiles /\ h[k].priority \in Nat
    BY <2>1, QueueType DEF Good
  <2>3. /\ \A k \in 1 .. Len(h) : m[h[k].pos] = k
        /\ \A u \in Tiles : m[u] # Nil => m[u] \in 1 .. Len(h) /\ h[m[u]].pos = u
    BY <2>1 DEF Good, Placed
  <2>4. m[t] = Nil
    BY <1>2, <2>1 DEF Holds
  <2>5. PICK x, g, w : /\ x = [pos |-> t, priority |-> p] /\ g = Append(h, x)
                       /\ w = [m EXCEPT ![t] = n]
    OBVIOUS
  <2>6. PICK e : e = [heap |-> g, positionMap |-> w]
    OBVIOUS
  <2>7. Push(q, t, p) = BubbleUp(e, n)
    BY <2>1, <2>4, <2>5, <2>6 DEF Push
  <2>8. x \in Node /\ x.pos = t /\ x.priority = p
    BY <2>5 DEF Node
  <2>9. /\ g \in Seq(Node) /\ Len(g) = n /\ g[n] = x /\ n \in Nat \ {0} /\ n \in 1 .. n
        /\ \A k \in 1 .. Len(h) : g[k] = h[k]
    BY <2>1, <2>2, <2>5, <2>8, AppendProperties
  <2>10. n # Nil /\ \A k \in 1 .. n : k \in 1 .. Len(h) \/ k = n
    BY <2>1, <2>2, PathAssumption
  <2>11. /\ w \in [Tiles -> Nat \cup {Nil}] /\ w[t] = n
         /\ \A u \in Tiles : u # t => w[u] = m[u]
    BY <2>2, <2>5, <2>9
  <2>12. \A k \in 1 .. Len(h) : h[k].pos # t /\ k \in Nat /\ k # Nil
    BY <2>2, <2>3, <2>4, PathAssumption
  <2>13. e.heap = g /\ e.positionMap = w /\ e \in Queue
    BY <2>6, <2>9, <2>11 DEF Queue
  <2>14. Placed(e)
    <3>1. ASSUME NEW k \in 1 .. n PROVE w[g[k].pos] = k
      <4>1. CASE k = n
        BY <2>8, <2>9, <2>11, <4>1
      <4>2. CASE k # n
        <5>1. k \in 1 .. Len(h) /\ g[k] = h[k] /\ h[k].pos \in Tiles /\ h[k].pos # t
          BY <2>2, <2>9, <2>10, <2>12, <4>2
        <5> QED BY <2>3, <2>11, <5>1
      <4> QED BY <4>1, <4>2
    <3>2. ASSUME NEW u \in Tiles, w[u] # Nil PROVE w[u] \in 1 .. n /\ g[w[u]].pos = u
      <4>1. CASE u = t
        BY <2>8, <2>9, <2>11, <4>1
      <4>2. CASE u # t
        <5>1. w[u] = m[u] /\ m[u] \in 1 .. Len(h) /\ h[m[u]].pos = u
          BY <2>3, <2>11, <3>2, <4>2
        <5> QED BY <2>1, <2>2, <2>9, <5>1
      <4> QED BY <4>1, <4>2
    <3> QED BY <2>9, <2>13, <3>1, <3>2 DEF Placed
  <2>15. Holds(e, t) /\ Priority(e, t) = p
    BY <2>8, <2>9, <2>10, <2>11, <2>13 DEF Holds, Priority
  <2>16. SameBut(q, e, t)
    <3>1. ASSUME NEW u \in Tiles, u # t, m[u] # Nil PROVE g[m[u]] = h[m[u]]
      BY <2>3, <2>9, <3>1
    <3> QED BY <2>1, <2>11, <2>13, <3>1 DEF SameBut, Holds, Priority
  <2>17. Rising(g, n)
    <3>1. ASSUME NEW k \in 2 .. n, k # n PROVE g[k \div 2].priority <= g[k].priority
      <4>1. k \in 2 .. Len(h)
        BY <2>1, <2>2, <3>1
      <4>2. h[k \div 2].priority <= h[k].priority /\ k \in 1 .. Len(h) /\ k \div 2 \in 1 .. Len(h)
        BY <2>1, <2>2, <4>1, Halves DEF Good, Ordered
      <4> QED BY <2>9, <4>2
    <3>2. \A k \in 2 .. n : k \div 2 # n
      <4> SUFFICES ASSUME NEW k \in 2 .. n PROVE k \div 2 # n
        OBVIOUS
      <4>1. k \div 2 < k /\ k \div 2 \in 1 .. n /\ k <= n
        BY <2>9, Halves
      <4> QED BY <2>9, <4>1
    <3> QED BY <2>9, <3>1, <3>2 DEF Rising, Above
  <2>18. Settled(e, BubbleUp(e, n))
    BY <2>9, <2>13, <2>14, <2>17, BubbleUpIs
  <2> QED BY <2>7, <2>15, <2>16, <2>18, SettledPushed
<1> QED BY <1>1, <1>2

(* What taking the first tile out leaves.                                   *)
LEMMA PoppedIs ==
  ASSUME NEW q, Good(q), q.heap # <<>>
  PROVE  /\ q.heap[1].pos \in Tiles /\ Holds(q, q.heap[1].pos)
         /\ Good(Popped(q)) /\ ~ Holds(Popped(q), q.heap[1].pos)
         /\ SameBut(q, Popped(q), q.heap[1].pos)
<1>1. PICK h, m, n, t : h = q.heap /\ m = q.positionMap /\ n = Len(h) /\ t = h[1].pos
  OBVIOUS
<1>2. /\ q \in Queue /\ h \in Seq(Node) /\ n \in Nat /\ m \in [Tiles -> Nat \cup {Nil}]
      /\ \A k \in 1 .. n : h[k] \in Node /\ h[k].pos \in Tiles /\ h[k].priority \in Nat
  BY <1>1, QueueType DEF Good
<1>3. /\ \A k \in 1 .. n : m[h[k].pos] = k
      /\ \A u \in Tiles : m[u] # Nil => m[u] \in 1 .. n /\ h[m[u]].pos = u
  BY <1>1 DEF Good, Placed
<1>4. n # 0
  BY <1>1, <1>2, EmptySeq
<1>5. 1 \in 1 .. n /\ n \in 1 .. n /\ t \in Tiles /\ m[t] = 1
  BY <1>1, <1>2, <1>3, <1>4
<1>6. \A k \in 1 .. n : k # Nil
  BY <1>2, PathAssumption
<1>7. Holds(q, t)
  BY <1>1, <1>5, <1>6 DEF Holds
<1>8. PICK g, w : g = SubSeq(h, 1, n - 1) /\ w = [m EXCEPT ![t] = Nil]
  OBVIOUS
<1>9. /\ g \in Seq(Node) /\ Len(g) = n - 1
      /\ \A k \in 1 .. n - 1 : g[k] = h[k]
  BY <1>1, <1>2, <1>4, <1>8, SubSeqProperties
<1>10. /\ w \in [Tiles -> Nat \cup {Nil}] /\ w[t] = Nil
       /\ \A u \in Tiles : u # t => w[u] = m[u]
  BY <1>2, <1>5, <1>8
<1>11. PICK e : e = [heap |-> g, positionMap |-> w]
  OBVIOUS
<1>12. e.heap = g /\ e.positionMap = w /\ e \in Queue
  BY <1>9, <1>10, <1>11 DEF Queue
<1>13. CASE n = 1
  <2>1. Popped(q) = e
    BY <1>1, <1>8, <1>11, <1>13 DEF Popped
  <2>2. \A u \in Tiles : u # t => m[u] = Nil
    BY <1>1, <1>3, <1>13
  <2>3. Placed(e) /\ Ordered(e.heap)
    BY <1>9, <1>10, <1>12, <1>13, <2>2 DEF Placed, Ordered
  <2>4. ~ Holds(e, t) /\ SameBut(q, e, t)
    BY <1>1, <1>10, <1>12, <2>2 DEF Holds, SameBut
  <2> QED BY <1>1, <1>5, <1>7, <1>12, <2>1, <2>3, <2>4 DEF Good
<1>14. CASE n # 1
  <2>1. PICK x, f, v : /\ x = h[n] /\ f = [g EXCEPT ![1] = x]
                       /\ v = [w EXCEPT ![x.pos] = 1]
    OBVIOUS
  <2>2. PICK d : d = [heap |-> f, positionMap |-> v]
    OBVIOUS
  <2>3. Popped(q) = BubbleDown(d, 1)
    BY <1>1, <1>8, <1>14, <2>1, <2>2 DEF Popped
  <2>4. x \in Node /\ x.pos \in Tiles /\ x.pos # t /\ m[x.pos] = n /\ 1 \in 1 .. n - 1
    <3>1. x \in Node /\ x.pos \in Tiles /\ m[x.pos] = n
      BY <1>2, <1>3, <1>5, <2>1
    <3>2. x.pos # t
      BY <1>5, <1>14, <3>1
    <3> QED BY <1>2, <1>4, <1>14, <3>1, <3>2
  <2>5. /\ f \in Seq(Node) /\ Len(f) = n - 1 /\ f[1] = x
        /\ \A k \in 1 .. n - 1 : k # 1 => f[k] = h[k]
    <3>1. f \in Seq(Node) /\ Len(f) = n - 1 /\ \A k \in 1 .. n - 1 : f[k] = IF k = 1 THEN x ELSE g[k]
      BY <1>9, <2>1, <2>4, ExceptSeq
    <3> QED BY <1>9, <2>4, <3>1
  <2>6. /\ v \in [Tiles -> Nat \cup {Nil}] /\ v[x.pos] = 1 /\ v[t] = Nil
        /\ \A u \in Tiles : u # t /\ u # x.pos => v[u] = m[u]
    BY <1>5, <1>10, <2>1, <2>4
  <2>7. d.heap = f /\ d.positionMap = v /\ d \in Queue
    BY <2>2, <2>5, <2>6 DEF Queue
  <2>8. ASSUME NEW u \in Tiles, u # t, u # x.pos, m[u] # Nil
        PROVE  m[u] \in 1 .. n - 1 /\ m[u] # 1 /\ f[m[u]] = h[m[u]] /\ h[m[u]].pos = u
    <3>1. m[u] \in 1 .. n /\ h[m[u]].pos = u
      BY <1>3, <2>8
    <3>2. m[u] # 1 /\ m[u] # n
      BY <1>1, <2>1, <2>8, <3>1
    <3> QED BY <1>2, <2>5, <3>1, <3>2
  <2>9. Placed(d)
    <3>1. ASSUME NEW k \in 1 .. n - 1 PROVE v[f[k].pos] = k
      <4>1. CASE k = 1
        BY <2>5, <2>6, <4>1
      <4>2. CASE k # 1
        <5>1. k \in 1 .. n /\ k # n /\ f[k] = h[k] /\ h[k].pos \in Tiles /\ m[h[k].pos] = k
          BY <1>2, <1>3, <2>5, <4>2
        <5>2. h[k].pos # t /\ h[k].pos # x.pos
          BY <1>5, <2>4, <4>2, <5>1
        <5> QED BY <2>6, <5>1, <5>2
      <4> QED BY <4>1, <4>2
    <3>2. ASSUME NEW u \in Tiles, v[u] # Nil PROVE v[u] \in 1 .. n - 1 /\ f[v[u]].pos = u
      <4>1. u # t
        BY <2>6, <3>2
      <4>2. CASE u = x.pos
        BY <2>4, <2>5, <2>6, <4>2
      <4>3. CASE u # x.pos
        BY <2>6, <2>8, <3>2, <4>1, <4>3
      <4> QED BY <4>2, <4>3
    <3> QED BY <2>5, <2>7, <3>1, <3>2 DEF Placed
  <2>10. ~ Holds(d, t) /\ SameBut(q, d, t)
    <3>1. ASSUME NEW u \in Tiles, u # t
          PROVE  (m[u] # Nil <=> v[u] # Nil) /\ (m[u] # Nil => h[m[u]].priority = f[v[u]].priority)
      <4>1. CASE u = x.pos
        BY <1>5, <1>6, <2>1, <2>4, <2>5, <2>6, <4>1
      <4>2. CASE u # x.pos
        BY <2>6, <2>8, <3>1, <4>2
      <4> QED BY <4>1, <4>2
    <3> QED BY <1>1, <2>6, <2>7, <3>1 DEF Holds, Priority, SameBut
  <2>11. Sinking(f, 1)
    <3>1. ASSUME NEW k \in 2 .. n - 1, k \div 2 # 1 PROVE f[k \div 2].priority <= f[k].priority
      <4>1. k \in 2 .. n /\ k \in 1 .. n - 1 /\ k # 1
        BY <1>2
      <4>2. k \div 2 \in 1 .. n - 1
        BY <1>2, <1>4, Halves
      <4>3. h[k \div 2].priority <= h[k].priority
        BY <1>1, <4>1 DEF Good, Ordered
      <4> QED BY <2>5, <3>1, <4>1, <4>2, <4>3
    <3> QED BY <2>5, <3>1 DEF Sinking, Above
  <2>12. Settled(d, BubbleDown(d, 1))
    BY <2>4, <2>5, <2>7, <2>9, <2>11, BubbleDownIs
  <2>13. Good(Popped(q)) /\ ~ Holds(Popped(q), t) /\ SameBut(q, Popped(q), t)
    BY <1>5, <2>3, <2>10, <2>12 DEF Settled, Good, Same, SameBut
  <2> QED BY <1>1, <1>5, <1>7, <2>13
<1> QED BY <1>13, <1>14

(* No tile of the queue has a lower priority than the first one.            *)
LEMMA RootIs ==
  ASSUME NEW h, Numbers(h), Ordered(h), NEW k \in 1 .. Len(h)
  PROVE  h[1].priority <= h[k].priority
<1>1. Len(h) \in Nat /\ \A i \in 1 .. Len(h) : h[i].priority \in Nat
  BY DEF Numbers
<1> DEFINE Bad == {i \in 1 .. Len(h) : ~ (h[1].priority <= h[i].priority)}
<1> SUFFICES ASSUME Bad # {} PROVE FALSE
  OBVIOUS
<1>2. Bad \in SUBSET Nat
  BY <1>1
<1>3. PICK x \in Bad : \A y \in Bad : x <= y
  <2> HIDE DEF Bad
  <2> QED BY <1>2, LeastNat, Zenon
<1>4. x \in 2 .. Len(h)
  BY <1>1, <1>3
<1>5. x \div 2 \in 1 .. Len(h) /\ x \div 2 < x
  BY <1>1, <1>4, Halves
<1>6. h[x \div 2].priority <= h[x].priority
  BY <1>4 DEF Ordered
<1>7. x \div 2 \notin Bad
  <2> HIDE DEF Bad
  <2> QED BY <1>1, <1>3, <1>4, <1>5
<1>8. h[1].priority <= h[x \div 2].priority
  BY <1>5, <1>7
<1>9. h[1].priority \in Nat /\ h[x].priority \in Nat /\ h[x \div 2].priority \in Nat
  BY <1>1, <1>4, <1>5
<1> QED BY <1>3, <1>6, <1>8, <1>9

LEMMA FirstIs ==
  ASSUME NEW q, Good(q), q.heap # <<>>, NEW t \in Tiles, Holds(q, t)
  PROVE  /\ Holds(q, q.heap[1].pos) /\ q.heap[1].pos \in Tiles
         /\ Priority(q, q.heap[1].pos) \in Nat /\ Priority(q, t) \in Nat
         /\ Priority(q, q.heap[1].pos) <= Priority(q, t)
<1>1. PICK h, m : h = q.heap /\ m = q.positionMap
  OBVIOUS
<1>2. /\ Len(h) \in Nat /\ \A k \in 1 .. Len(h) : h[k].pos \in Tiles /\ h[k].priority \in Nat
  BY <1>1, QueueType DEF Good
<1>3. /\ \A k \in 1 .. Len(h) : m[h[k].pos] = k
      /\ m[t] \in 1 .. Len(h)
  BY <1>1 DEF Good, Placed, Holds
<1>4. 1 \in 1 .. Len(h) /\ m[h[1].pos] = 1 /\ 1 # Nil
  BY <1>2, <1>3, PathAssumption
<1>5. Numbers(h) /\ Ordered(h)
  BY <1>1, <1>2 DEF Numbers, Good
<1>6. h[1].priority <= h[m[t]].priority
  BY <1>3, <1>5, RootIs
<1> QED BY <1>1, <1>2, <1>3, <1>4, <1>6 DEF Holds, Priority

-----------------------------------------------------------------------------
(* The maps.                                                               *)
Dirs == IF kind = "hex" THEN DIRECTION6 ELSE Directions[kind]

LEMMA TileIs ==
  ASSUME NEW t \in Tiles
  PROVE  t = <<t[1], t[2]>> /\ t[1] \in 1 .. width /\ t[2] \in 1 .. height
         /\ t[1] \in Int /\ t[2] \in Int
BY PathAssumption DEF Tiles

LEMMA WalkableIs ==
  ASSUME NEW t
  PROVE  IsWalkable(t) <=> t \in (2 .. width - 1) \X (2 .. height - 1) /\ t \notin walls
<1>1. width \in Nat /\ height \in Nat
  BY PathAssumption
<1>2. t \in (2 .. width - 1) \X (2 .. height - 1) <=> t \in Tiles \ Border
  BY <1>1 DEF Tiles, Border
<1> QED BY <1>2 DEF IsWalkable

LEMMA WalkableTile ==
  ASSUME NEW t, IsWalkable(t)
  PROVE  t \in Tiles /\ t \notin walls
BY DEF IsWalkable

LEMMA DirsAre ==
  ASSUME kind \in MapKinds
  PROVE  /\ Len(Dirs) \in Nat
         /\ \A k \in 1 .. Len(Dirs) : /\ Dirs[k] = <<Dirs[k][1], Dirs[k][2]>>
                                      /\ Dirs[k][1] \in -1 .. 1 /\ Dirs[k][2] \in -1 .. 1
<1>1. CASE kind = "square4"
  <2>1. Dirs = DIRECTION4
    BY <1>1 DEF Dirs, Directions
  <2> QED BY <2>1 DEF DIRECTION4
<1>2. CASE kind = "square8"
  <2>1. Dirs = DIRECTION8
    BY <1>2 DEF Dirs, Directions
  <2> QED BY <2>1 DEF DIRECTION8
<1>3. CASE kind = "hex"
  <2>1. Dirs = DIRECTION6
    BY <1>3 DEF Dirs
  <2> QED BY <2>1 DEF DIRECTION6
<1> QED BY <1>1, <1>2, <1>3 DEF MapKinds

LEMMA OneOrBoth ==
  ASSUME NEW a \in Nat, NEW b \in Nat
  PROVE  {a, b} \in {{0, 1}, {1}} <=> a <= 1 /\ b <= 1 /\ a + b >= 1
<1>1. ASSUME {a, b} = {0, 1} PROVE a <= 1 /\ b <= 1 /\ a + b >= 1
  <2>1. a \in {0, 1} /\ b \in {0, 1} /\ 1 \in {a, b}
    BY <1>1
  <2> QED BY <2>1
<1>2. ASSUME {a, b} = {1} PROVE a <= 1 /\ b <= 1 /\ a + b >= 1
  <2>1. a \in {1} /\ b \in {1}
    BY <1>2
  <2> QED BY <2>1
<1>3. ASSUME a <= 1, b <= 1, a + b >= 1 PROVE {a, b} = {0, 1} \/ {a, b} = {1}
  <2>1. (a = 0 /\ b = 1) \/ (a = 1 /\ b = 0) \/ (a = 1 /\ b = 1)
    BY <1>3
  <2> QED BY <2>1
<1> QED BY <1>1, <1>2, <1>3

LEMMA StepDirection ==
  ASSUME kind \in MapKinds, NEW s \in Tiles, NEW t \in Tiles
  PROVE  Touches(s, t) <=> \E k \in 1 .. Len(Dirs) : Plus(s, Dirs[k]) = t
<1>1. PICK dx, dy : dx = t[1] - s[1] /\ dy = t[2] - s[2]
  OBVIOUS
<1>2. dx \in Int /\ dy \in Int
  BY <1>1, TileIs
<1>3. ASSUME NEW k \in 1 .. Len(Dirs)
      PROVE  Plus(s, Dirs[k]) = t <=> Dirs[k][1] = dx /\ Dirs[k][2] = dy
  <2>1. Dirs[k][1] \in Int /\ Dirs[k][2] \in Int
    BY DirsAre
  <2>2. s[1] \in Int /\ s[2] \in Int /\ t[1] \in Int /\ t[2] \in Int /\ t = <<t[1], t[2]>>
    BY TileIs
  <2>3. Plus(s, Dirs[k]) = <<s[1] + Dirs[k][1], s[2] + Dirs[k][2]>>
    BY DEF Plus
  <2> QED BY <1>1, <2>1, <2>2, <2>3
<1>4. Abs(dx) \in Nat /\ Abs(dy) \in Nat
  BY <1>2 DEF Abs
<1>5. CASE kind = "square4"
  <2>1. Dirs = DIRECTION4
    BY <1>5 DEF Dirs, Directions
  <2>2. Touches(s, t) <=> Abs(dx) + Abs(dy) = 1
    BY <1>1, <1>5 DEF Touches
  <2>3. Abs(dx) + Abs(dy) = 1 <=> \E k \in 1 .. Len(Dirs) : Dirs[k][1] = dx /\ Dirs[k][2] = dy
    BY <1>2, <2>1 DEF Abs, DIRECTION4
  <2> QED BY <1>3, <2>2, <2>3
<1>6. CASE kind = "square8"
  <2>1. Dirs = DIRECTION8
    BY <1>6 DEF Dirs, Directions
  <2>2. Touches(s, t) <=> {Abs(dx), Abs(dy)} \in {{0, 1}, {1}}
    BY <1>1, <1>6 DEF Touches
  <2>3. Touches(s, t) <=> Abs(dx) <= 1 /\ Abs(dy) <= 1 /\ Abs(dx) + Abs(dy) >= 1
    BY <1>4, <2>2, OneOrBoth
  <2>4. Abs(dx) <= 1 /\ Abs(dy) <= 1 /\ Abs(dx) + Abs(dy) >= 1 <=>
          dx \in -1 .. 1 /\ dy \in -1 .. 1 /\ ~ (dx = 0 /\ dy = 0)
    BY <1>2 DEF Abs
  <2>5. dx \in -1 .. 1 /\ dy \in -1 .. 1 /\ ~ (dx = 0 /\ dy = 0) <=>
          \E k \in 1 .. Len(Dirs) : Dirs[k][1] = dx /\ Dirs[k][2] = dy
    BY <1>2, <2>1 DEF DIRECTION8
  <2> QED BY <1>3, <2>3, <2>4, <2>5
<1>7. CASE kind = "hex"
  <2>1. Dirs = DIRECTION6
    BY <1>7 DEF Dirs
  <2>2. Touches(s, t) <=> <<dx, dy>> # <<0, 0>> /\ {dx, dy, dx + dy} \subseteq -1 .. 1
    BY <1>1, <1>7 DEF Touches
  <2>3. Touches(s, t) <=> ~ (dx = 0 /\ dy = 0) /\ dx \in -1 .. 1 /\ dy \in -1 .. 1 /\ dx + dy \in -1 .. 1
    BY <2>2
  <2>4. ~ (dx = 0 /\ dy = 0) /\ dx \in -1 .. 1 /\ dy \in -1 .. 1 /\ dx + dy \in -1 .. 1 <=>
          \E k \in 1 .. Len(Dirs) : Dirs[k][1] = dx /\ Dirs[k][2] = dy
    BY <1>2, <2>1 DEF DIRECTION6
  <2> QED BY <1>3, <2>3, <2>4
<1> QED BY <1>5, <1>6, <1>7 DEF MapKinds

(* The loop over the directions finds exactly the free tiles.               *)
Member(q, u) == \E j \in 1 .. Len(q) : q[j] = u

LEMMA AppendMember ==
  ASSUME NEW S, NEW q \in Seq(S), NEW x \in S, NEW u
  PROVE  Append(q, x) \in Seq(S) /\ (Member(Append(q, x), u) <=> Member(q, u) \/ x = u)
<1>1. PICK r : r = Append(q, x)
  OBVIOUS
<1>2. /\ r \in Seq(S) /\ Len(q) \in Nat /\ Len(r) = Len(q) + 1 /\ r[Len(q) + 1] = x
      /\ \A j \in 1 .. Len(q) : r[j] = q[j]
  BY <1>1, AppendProperties, LenProperties
<1>3. \A j : j \in 1 .. Len(r) <=> j \in 1 .. Len(q) \/ j = Len(q) + 1
  BY <1>2
<1>4. Member(r, u) <=> Member(q, u) \/ x = u
  BY <1>2, <1>3 DEF Member
<1> QED BY <1>1, <1>2, <1>4

LEMMA NeighborsAre ==
  ASSUME NEW t, NEW dirs, Len(dirs) \in Nat, NEW free \in SUBSET (1 .. Len(dirs)),
         \A k \in free : Plus(t, dirs[k]) \in Tiles
  PROVE  /\ Neighbors(t, dirs, free) \in Seq(Tiles)
         /\ \A u : Member(Neighbors(t, dirs, free), u) <=> \E k \in free : Plus(t, dirs[k]) = u
<1> DEFINE n == Len(dirs)
           S == Seq(Tiles)
           Grown(k, q) == IF k \in free THEN Append(q, Plus(t, dirs[k])) ELSE q
           step == [k \in 1 .. n |-> [q \in S |-> Grown(k, q)]]
           Eq(f) == f = [k \in 0 .. n |-> IF k = 0 THEN <<>>
                                          ELSE IF k \in free THEN Append(f[k - 1], Plus(t, dirs[k]))
                                          ELSE f[k - 1]]
           found == CHOOSE f : Eq(f)
<1>1. n \in Nat /\ <<>> \in S
  BY EmptySeq
<1>2. ASSUME NEW k \in 1 .. n, NEW q \in S
      PROVE  /\ Grown(k, q) \in S
             /\ \A u : Member(Grown(k, q), u) <=> Member(q, u) \/ (k \in free /\ Plus(t, dirs[k]) = u)
  BY AppendMember
<1>3. step \in [1 .. n -> [S -> S]]
  BY <1>2
<1> HIDE DEF S, n
<1>4. \E f : IsLoop(n, S, <<>>, step, f)
  <2> HIDE DEF step
  <2> QED BY <1>1, <1>3, LoopExists DEF Rounds
<1>5. PICK f : f \in [0 .. n -> S] /\ f[0] = <<>> /\ \A k \in 1 .. n : f[k] = step[k][f[k - 1]]
  BY <1>4 DEF IsLoop
<1>6. ASSUME NEW k \in 0 .. n PROVE f[k] = IF k = 0 THEN <<>> ELSE Grown(k, f[k - 1])
  <2>1. CASE k = 0
    BY <1>5, <2>1
  <2>2. CASE k # 0
    <3>1. k \in 1 .. n /\ k - 1 \in 0 .. n
      BY <1>1, <2>2
    <3>2. f[k - 1] \in S /\ f[k] = step[k][f[k - 1]]
      BY <1>5, <3>1
    <3>3. step[k][f[k - 1]] = Grown(k, f[k - 1])
      <4> HIDE DEF Grown
      <4> QED BY <3>1, <3>2
    <3> QED BY <2>2, <3>2, <3>3
  <2> QED BY <2>1, <2>2
<1>7. Eq(f)
  <2>1. f = [k \in 0 .. n |-> f[k]]
    BY <1>5
  <2> QED BY <1>6, <2>1
<1>8. Eq(found)
  <2> HIDE DEF Eq
  <2> QED BY <1>7, Zenon
<1>9. found[0] = <<>> /\ \A k \in 1 .. n : found[k] = Grown(k, found[k - 1])
  <2>1. \A k \in 0 .. n : found[k] = IF k = 0 THEN <<>> ELSE Grown(k, found[k - 1])
    <3> HIDE DEF found
    <3> QED BY <1>8
  <2> HIDE DEF found, Grown
  <2>2. \A k \in 1 .. n : k \in 0 .. n /\ k # 0
    BY <1>1
  <2> QED BY <1>1, <2>1, <2>2
<1>10. Neighbors(t, dirs, free) = found[n]
  BY DEF Neighbors, n
<1> HIDE DEF found, Grown
<1> DEFINE Upto(k, u) == \E j \in free : j <= k /\ Plus(t, dirs[j]) = u
           T == {k \in 0 .. n : found[k] \in S /\ \A u : Member(found[k], u) <=> Upto(k, u)}
<1>11. \A j \in free : j \in Nat /\ j \in 1 .. n
  BY <1>1 DEF n
<1>12. 0 \in T
  <2>1. \A u : ~ Upto(0, u)
    BY <1>11
  <2>2. \A u : ~ Member(<<>>, u)
    BY DEF Member
  <2> QED BY <1>1, <1>9, <2>1, <2>2
<1>13. ASSUME NEW k \in 1 .. n, k - 1 \in T PROVE k \in T
  <2>1. found[k - 1] \in S /\ \A u : Member(found[k - 1], u) <=> Upto(k - 1, u)
    BY <1>13
  <2>2. found[k] = Grown(k, found[k - 1])
    BY <1>9
  <2>3. ASSUME NEW u
        PROVE  Upto(k, u) <=> Upto(k - 1, u) \/ (k \in free /\ Plus(t, dirs[k]) = u)
    <3>1. \A j \in free : j <= k <=> j <= k - 1 \/ j = k
      BY <1>1, <1>11
    <3> QED BY <1>1, <3>1
  <2> HIDE DEF Upto
  <2>4. found[k] \in S /\ \A u : Member(found[k], u) <=> Upto(k, u)
    BY <1>2, <2>1, <2>2, <2>3
  <2> QED BY <1>1, <2>4
<1>14. n \in T
  <2> HIDE DEF T
  <2>1. \A k \in 0 .. n : k \in T
    BY <1>1, <1>12, <1>13, LoopInduction
  <2> QED BY <1>1, <2>1
<1>15. \A u : Upto(n, u) <=> \E k \in free : Plus(t, dirs[k]) = u
  BY <1>1, <1>11
<1> HIDE DEF Upto
<1> QED BY <1>10, <1>14, <1>15 DEF S

(* The neighbours that the code lists are the legal steps.                  *)
LEMMA LegalIs ==
  ASSUME NEW s, NEW t
  PROVE  LegalStep(s, t) <=>
           /\ Touches(s, t) /\ IsWalkable(t)
           /\ kind = "square8" => <<s[1], t[2]>> \notin walls /\ <<t[1], s[2]>> \notin walls
BY WalkableIs DEF LegalStep

LEMMA SquareFreeIs ==
  ASSUME kind \in {"square4", "square8"}, NEW s, IsWalkable(s), NEW k \in 1 .. Len(Dirs)
  PROVE  SquareFree(s, Dirs[k]) <=> LegalStep(s, Plus(s, Dirs[k]))
<1>1. PICK d, t : d = Dirs[k] /\ t = Plus(s, d)
  OBVIOUS
<1>2. s \in Tiles /\ kind \in MapKinds
  BY WalkableTile DEF MapKinds
<1>3. /\ d[1] \in -1 .. 1 /\ d[2] \in -1 .. 1
      /\ s[1] \in Int /\ s[2] \in Int /\ s = <<s[1], s[2]>>
      /\ t = <<s[1] + d[1], s[2] + d[2]>>
  BY <1>1, <1>2, DirsAre, TileIs DEF Plus
<1>4. CASE ~ IsWalkable(t)
  BY <1>1, <1>4, LegalIs DEF SquareFree
<1>5. CASE IsWalkable(t)
  <2>1. Touches(s, t)
    BY <1>1, <1>2, <1>5, WalkableTile, StepDirection
  <2>2. /\ s \in (2 .. width - 1) \X (2 .. height - 1) /\ s \notin walls
        /\ t \in (2 .. width - 1) \X (2 .. height - 1) /\ t \notin walls
    BY <1>5, WalkableIs
  <2>3. LegalStep(s, t) <=>
          (kind = "square8" => <<s[1], t[2]>> \notin walls /\ <<t[1], s[2]>> \notin walls)
    BY <1>5, <2>1, LegalIs
  <2>4. Plus(s, <<d[1], 0>>) = <<t[1], s[2]>> /\ Plus(s, <<0, d[2]>>) = <<s[1], t[2]>>
    BY <1>3 DEF Plus
  <2>5. /\ <<t[1], s[2]>> \in (2 .. width - 1) \X (2 .. height - 1)
        /\ <<s[1], t[2]>> \in (2 .. width - 1) \X (2 .. height - 1)
    BY <2>2
  <2>6. /\ IsWalkable(<<t[1], s[2]>>) <=> <<t[1], s[2]>> \notin walls
        /\ IsWalkable(<<s[1], t[2]>>) <=> <<s[1], t[2]>> \notin walls
    BY <2>5, WalkableIs
  <2>7. SquareFree(s, d) <=>
          (Diagonal(d) => <<t[1], s[2]>> \notin walls /\ <<s[1], t[2]>> \notin walls)
    BY <1>1, <1>5, <2>4, <2>6 DEF SquareFree
  <2>8. CASE Diagonal(d)
    <3>1. kind = "square8"
      <4>1. ASSUME kind = "square4" PROVE FALSE
        <5>1. Dirs = DIRECTION4
          BY <4>1 DEF Dirs, Directions
        <5> QED BY <1>1, <2>8, <5>1 DEF DIRECTION4, Diagonal
      <4> QED BY <4>1
    <3> QED BY <1>1, <2>3, <2>7, <2>8, <3>1
  <2>9. CASE ~ Diagonal(d)
    <3>1. d[1] = 0 \/ d[2] = 0
      BY <2>9 DEF Diagonal
    <3>2. <<t[1], s[2]>> \in {s, t} /\ <<s[1], t[2]>> \in {s, t}
      BY <1>3, <3>1
    <3> QED BY <1>1, <2>2, <2>3, <2>7, <2>9, <3>2
  <2> QED BY <2>8, <2>9
<1> QED BY <1>4, <1>5

LEMMA GetNeighborsAre ==
  ASSUME kind \in MapKinds, NEW s, IsWalkable(s)
  PROVE  /\ GetNeighbors(s) \in Seq(Tiles)
         /\ \A t : Member(GetNeighbors(s), t) <=> t \in Tiles /\ LegalStep(s, t)
<1>1. s \in Tiles
  BY WalkableTile
<1>2. PICK free : free = {k \in 1 .. Len(Dirs) : LegalStep(s, Plus(s, Dirs[k]))}
  OBVIOUS
<1>3. ASSUME NEW k \in 1 .. Len(Dirs) PROVE LegalStep(s, Plus(s, Dirs[k])) => Plus(s, Dirs[k]) \in Tiles
  BY LegalIs, WalkableTile
<1>4. GetNeighbors(s) = Neighbors(s, Dirs, free)
  <2>1. CASE kind = "hex"
    <3>1. Dirs = DIRECTION6 /\ GetNeighbors(s) = HexNeighbors(s)
      BY <2>1 DEF Dirs, GetNeighbors
    <3>2. ASSUME NEW k \in 1 .. Len(Dirs)
          PROVE  IsWalkable(Plus(s, Dirs[k])) <=> LegalStep(s, Plus(s, Dirs[k]))
      <4>1. CASE ~ IsWalkable(Plus(s, Dirs[k]))
        BY <4>1, LegalIs
      <4>2. CASE IsWalkable(Plus(s, Dirs[k]))
        <5>1. Touches(s, Plus(s, Dirs[k]))
          BY <1>1, <4>2, WalkableTile, StepDirection
        <5> QED BY <2>1, <4>2, <5>1, LegalIs
      <4> QED BY <4>1, <4>2
    <3>3. {k \in 1 .. Len(Dirs) : IsWalkable(Plus(s, Dirs[k]))} = free
      BY <1>2, <3>2
    <3> QED BY <3>1, <3>3 DEF HexNeighbors
  <2>2. CASE kind # "hex"
    <3>1. Dirs = Directions[kind] /\ GetNeighbors(s) = SquareNeighbors(s)
      BY <2>2 DEF Dirs, GetNeighbors
    <3>2. kind \in {"square4", "square8"}
      BY <2>2 DEF MapKinds
    <3>3. {k \in 1 .. Len(Dirs) : SquareFree(s, Dirs[k])} = free
      BY <1>2, <3>2, SquareFreeIs
    <3> QED BY <3>1, <3>3 DEF SquareNeighbors
  <2> QED BY <2>1, <2>2
<1>5. /\ Len(Dirs) \in Nat /\ free \in SUBSET (1 .. Len(Dirs))
      /\ \A k \in free : Plus(s, Dirs[k]) \in Tiles
  BY <1>2, <1>3, DirsAre
<1>6. /\ Neighbors(s, Dirs, free) \in Seq(Tiles)
      /\ \A t : Member(Neighbors(s, Dirs, free), t) <=> \E k \in free : Plus(s, Dirs[k]) = t
  BY <1>5, NeighborsAre
<1>7. ASSUME NEW t PROVE (\E k \in free : Plus(s, Dirs[k]) = t) <=> t \in Tiles /\ LegalStep(s, t)
  <2>1. ASSUME t \in Tiles, LegalStep(s, t) PROVE \E k \in free : Plus(s, Dirs[k]) = t
    <3>1. PICK k \in 1 .. Len(Dirs) : Plus(s, Dirs[k]) = t
      BY <1>1, <2>1, LegalIs, StepDirection
    <3>2. k \in free
      BY <1>2, <2>1, <3>1
    <3> QED BY <3>1, <3>2
  <2>2. ASSUME NEW k \in free, Plus(s, Dirs[k]) = t PROVE t \in Tiles /\ LegalStep(s, t)
    BY <1>2, <1>3, <2>2
  <2> QED BY <2>1, <2>2
<1> QED BY <1>4, <1>6, <1>7

(* What a step costs, and the estimate, which never exceeds it.             *)
LEMMA AbsIs ==
  ASSUME NEW n \in Int
  PROVE  Abs(n) \in Nat /\ (Abs(n) = n \/ Abs(n) = - n)
BY DEF Abs

LEMMA DistanceIs ==
  ASSUME NEW s \in Tiles, NEW t \in Tiles
  PROVE  Distance(s, t) \in Nat /\ Distance(t, t) = 0
<1>1. s[1] - t[1] \in Int /\ s[2] - t[2] \in Int /\ t[1] - t[1] = 0 /\ t[2] - t[2] = 0
  BY TileIs
<1>2. Abs(0) = 0
  BY DEF Abs
<1>3. SquareDistance(s, t) \in Nat /\ SquareDistance(t, t) = 0
  <2>1. PICK a, b : a = Abs(s[1] - t[1]) /\ b = Abs(s[2] - t[2])
    OBVIOUS
  <2>2. a \in Nat /\ b \in Nat
    BY <1>1, <2>1, AbsIs
  <2>3. SquareDistance(s, t) \in Nat
    BY <2>1, <2>2 DEF SquareDistance
  <2> QED BY <1>1, <1>2, <2>3 DEF SquareDistance
<1>4. HexDistance(s, t) \in Nat /\ HexDistance(t, t) = 0
  <2>1. PICK a, b, c : /\ a = Abs(s[1] - t[1]) /\ b = Abs(s[2] - t[2])
                       /\ c = Abs(s[1] - t[1] + (s[2] - t[2]))
    OBVIOUS
  <2>2. a \in Nat /\ b \in Nat /\ c \in Nat
    BY <1>1, <2>1, AbsIs
  <2>3. HexDistance(s, t) = 1000 * ((a + b + c) \div 2)
    BY <2>1 DEF HexDistance
  <2>4. (a + b + c) \div 2 \in Nat
    BY <2>2
  <2>5. HexDistance(t, t) = 1000 * ((0 + 0 + 0) \div 2)
    BY <1>1, <1>2 DEF HexDistance
  <2> QED BY <2>3, <2>4, <2>5
<1> QED BY <1>3, <1>4 DEF Distance

LEMMA CostIs ==
  ASSUME NEW s, NEW t
  PROVE  Cost(s, t) \in {1000, 1414}
BY DEF Cost

LEMMA MoveCostIs ==
  ASSUME NEW s \in Tiles, NEW t \in Tiles, kind \in MapKinds, LegalStep(s, t)
  PROVE  MoveCost(s, t) = Cost(s, t)
<1>1. CASE kind # "hex"
  BY <1>1 DEF MoveCost, Cost
<1>2. CASE kind = "hex"
  <2>1. PICK k \in 1 .. Len(Dirs) : Plus(s, Dirs[k]) = t
    BY LegalIs, StepDirection
  <2>2. Dirs = DIRECTION6
    BY <1>2 DEF Dirs
  <2>3. PICK a, b : a = Dirs[k][1] /\ b = Dirs[k][2]
    OBVIOUS
  <2>4. s[1] \in Int /\ s[2] \in Int /\ a \in -1 .. 1 /\ b \in -1 .. 1
    BY <2>1, <2>3, DirsAre, TileIs
  <2>5. s[1] - t[1] = - a /\ s[2] - t[2] = - b
    BY <2>1, <2>3, <2>4 DEF Plus
  <2>6. Abs(-a) + Abs(-b) + Abs(-a + (-b)) = 2
    BY <2>2, <2>3, <2>4 DEF DIRECTION6, Abs
  <2>7. HexDistance(s, t) = 1000 * (2 \div 2)
    BY <2>5, <2>6 DEF HexDistance
  <2> QED BY <1>2, <2>7 DEF MoveCost, Cost
<1> QED BY <1>1, <1>2

LEMMA AbsChanges ==
  ASSUME NEW x \in Int, NEW a \in -1 .. 1
  PROVE  /\ Abs(x) \in Nat /\ Abs(x + a) \in Nat
         /\ Abs(x) <= Abs(x + a) + 1 /\ (a = 0 => Abs(x + a) = Abs(x))
BY DEF Abs

LEMMA Displaced ==
  ASSUME NEW c \in Int, NEW d \in Int, NEW e \in Int
  PROVE  (c + d) - e = (c - e) + d /\ (c # c + d <=> d # 0)
OBVIOUS

LEMMA Consistent ==
  ASSUME NEW s \in Tiles, NEW t \in Tiles, NEW u \in Tiles, kind \in MapKinds, LegalStep(s, t)
  PROVE  Distance(s, u) <= Cost(s, t) + Distance(t, u)
<1>1. PICK k \in 1 .. Len(Dirs) : Plus(s, Dirs[k]) = t
  BY LegalIs, StepDirection
<1>2. PICK a, b, x, y : /\ a = Dirs[k][1] /\ b = Dirs[k][2]
                        /\ x = s[1] - u[1] /\ y = s[2] - u[2]
  OBVIOUS
<1>3. /\ a \in -1 .. 1 /\ b \in -1 .. 1 /\ x \in Int /\ y \in Int
      /\ s[1] \in Int /\ s[2] \in Int /\ u[1] \in Int /\ u[2] \in Int
  BY <1>1, <1>2, DirsAre, TileIs
<1>4. t[1] = s[1] + a /\ t[2] = s[2] + b
  BY <1>1, <1>2 DEF Plus
<1>5. t[1] - u[1] = x + a /\ t[2] - u[2] = y + b /\ (s[1] # t[1] <=> a # 0) /\ (s[2] # t[2] <=> b # 0)
  <2>1. t[1] - u[1] = x + a /\ (s[1] # t[1] <=> a # 0)
    <3>1. a \in Int /\ s[1] \in Int /\ u[1] \in Int /\ t[1] = s[1] + a /\ x = s[1] - u[1]
      BY <1>2, <1>3, <1>4
    <3>2. (s[1] + a) - u[1] = (s[1] - u[1]) + a /\ (s[1] # s[1] + a <=> a # 0)
      BY <3>1, Displaced, Zenon
    <3> QED BY <3>1, <3>2, Zenon
  <2>2. t[2] - u[2] = y + b /\ (s[2] # t[2] <=> b # 0)
    <3>1. b \in Int /\ s[2] \in Int /\ u[2] \in Int /\ t[2] = s[2] + b /\ y = s[2] - u[2]
      BY <1>2, <1>3, <1>4
    <3>2. (s[2] + b) - u[2] = (s[2] - u[2]) + b /\ (s[2] # s[2] + b <=> b # 0)
      BY <3>1, Displaced, Zenon
    <3> QED BY <3>1, <3>2, Zenon
  <2> QED BY <2>1, <2>2, Zenon
<1>6. PICK p, q, v, w : p = Abs(x) /\ q = Abs(y) /\ v = Abs(x + a) /\ w = Abs(y + b)
  OBVIOUS
<1>7. /\ p \in Nat /\ q \in Nat /\ v \in Nat /\ w \in Nat
      /\ p <= v + 1 /\ q <= w + 1 /\ (a = 0 => p = v) /\ (b = 0 => q = w)
  BY <1>3, <1>6, AbsChanges
<1>8. CASE kind = "square4"
  <2>1. Dirs = DIRECTION4
    BY <1>8 DEF Dirs, Directions
  <2>2. a = 0 \/ b = 0
    BY <1>2, <2>1 DEF DIRECTION4
  <2>3. Cost(s, t) = 1000 /\ Distance(s, u) = 1000 * (p + q) /\ Distance(t, u) = 1000 * (v + w)
    BY <1>2, <1>5, <1>6, <1>8 DEF Cost, Distance, SquareDistance
  <2> QED BY <1>7, <2>2, <2>3
<1>9. CASE kind = "square8"
  <2> DEFINE Octile(c, d) == 1414 * (IF c < d THEN c ELSE d)
                               + 1000 * (c + d - 2 * (IF c < d THEN c ELSE d))
  <2>1. Distance(s, u) = Octile(p, q) /\ Distance(t, u) = Octile(v, w)
    BY <1>2, <1>5, <1>6, <1>9 DEF Distance, SquareDistance
  <2>2. Cost(s, t) = IF a # 0 /\ b # 0 THEN 1414 ELSE 1000
    BY <1>5, <1>9 DEF Cost
  <2>3. CASE a # 0 /\ b # 0
    <3>1. Octile(p, q) <= 1414 + Octile(v, w)
      BY <1>7
    <3> QED BY <2>1, <2>2, <2>3, <3>1
  <2>4. CASE a = 0
    <3>1. Octile(p, q) <= 1000 + Octile(v, w)
      BY <1>7, <2>4
    <3> QED BY <2>1, <2>2, <2>4, <3>1
  <2>5. CASE b = 0
    <3>1. Octile(p, q) <= 1000 + Octile(v, w)
      BY <1>7, <2>5
    <3> QED BY <2>1, <2>2, <2>5, <3>1
  <2> QED BY <2>3, <2>4, <2>5
<1>10. CASE kind = "hex"
  <2>1. Dirs = DIRECTION6
    BY <1>10 DEF Dirs
  <2>2. a + b \in -1 .. 1 /\ (a = 0 \/ b = 0 \/ a + b = 0)
    BY <1>2, <2>1 DEF DIRECTION6
  <2>3. PICK z, r, o : z = x + y /\ r = Abs(z) /\ o = Abs(z + (a + b))
    OBVIOUS
  <2>4. r \in Nat /\ o \in Nat /\ r <= o + 1 /\ (a + b = 0 => r = o)
    <3>1. z \in Int
      BY <1>3, <2>3
    <3> QED BY <2>2, <2>3, <3>1, AbsChanges
  <2>5. x + a + (y + b) = z + (a + b)
    BY <1>3, <2>3
  <2>6. Cost(s, t) = 1000 /\ Distance(s, u) = 1000 * ((p + q + r) \div 2)
          /\ Distance(t, u) = 1000 * ((v + w + o) \div 2)
    BY <1>2, <1>5, <1>6, <1>10, <2>3, <2>5 DEF Cost, Distance, HexDistance
  <2>7. p + q + r <= v + w + o + 2
    BY <1>7, <2>2, <2>4
  <2>8. PICK m, n : m = p + q + r /\ n = v + w + o
    OBVIOUS
  <2>9. m \in Nat /\ n \in Nat /\ m <= n + 2
    BY <1>7, <2>4, <2>7, <2>8
  <2>10. m \div 2 <= 1 + (n \div 2) /\ m \div 2 \in Nat /\ n \div 2 \in Nat
    BY <2>9
  <2> QED BY <2>6, <2>8, <2>10
<1> QED BY <1>8, <1>9, <1>10 DEF MapKinds
-----------------------------------------------------------------------------
(* The search.  FindPath searches when both ends are walkable.              *)
Begun == IsWalkable(start) /\ IsWalkable(goal)

SearchStates == [openSet : Queue, cameFrom : [Tiles -> Tiles \cup {Nil}], gScore : [Tiles -> Nat \cup {Nil}]]

Reached(st, t)  == st.gScore[t] # Nil
Estimate(st, t) == st.gScore[t] + Distance(t, goal)

(* A tile is reached from a closed one by a legal step, at its cost.        *)
Linked(st, closed, t) ==
  /\ st.cameFrom[t] \in closed
  /\ LegalStep(st.cameFrom[t], t)
  /\ st.gScore[st.cameFrom[t]] \in Nat
  /\ st.gScore[t] = st.gScore[st.cameFrom[t]] + Cost(st.cameFrom[t], t)

(* What is known of the reached tiles, in the queue and closed.             *)
Sound(st, closed) ==
  /\ st \in SearchStates /\ Good(st.openSet) /\ closed \subseteq Tiles
  /\ st.gScore[start] = 0 /\ st.cameFrom[start] = Nil
  /\ \A t \in Tiles :
       /\ Reached(st, t) <=> Holds(st.openSet, t) \/ t \in closed
       /\ ~ (Holds(st.openSet, t) /\ t \in closed)
       /\ Reached(st, t) => IsWalkable(t)
       /\ Holds(st.openSet, t) => Priority(st.openSet, t) = Estimate(st, t)
       /\ Reached(st, t) /\ t # start => Linked(st, closed, t)

(* No cheaper way leads on from a closed tile.                              *)
Complete(st, s) ==
  \A t \in Tiles : LegalStep(s, t) =>
    Reached(st, t) /\ st.gScore[t] <= st.gScore[s] + Cost(s, t)

(* The closed tiles are not farther than the ones in the queue.             *)
Bounds(st, closed, m) ==
  /\ \A s \in closed : Estimate(st, s) <= m
  /\ \A t \in Tiles : Holds(st.openSet, t) => m <= Estimate(st, t)

Explored(st, closed) ==
  /\ Sound(st, closed)
  /\ \A s \in closed : \A t \in Tiles :
       Holds(st.openSet, t) => Estimate(st, s) <= Estimate(st, t)
  /\ \A s \in closed \ {goal} : Complete(st, s)

(* The path that was found.                                                *)
Trail(st, p) ==
  /\ p \in Seq(Tiles) /\ Len(p) \in 1 .. Cardinality(Tiles)
  /\ p[1] = start /\ p[Len(p)] = goal
  /\ \A i \in 1 .. Len(p) - 1 : p[i] = st.cameFrom[p[i + 1]]
  /\ \A i \in 1 .. Len(p) : Reached(st, p[i])
  /\ \A i, j \in 1 .. Len(p) : p[i] = p[j] => i = j

This == [openSet |-> openSet, cameFrom |-> cameFrom, gScore |-> gScore]

PathInv ==
  /\ kind \in Kinds /\ walls \subseteq WallSites /\ start \in Starts /\ goal \in Goals
  /\ done \in BOOLEAN
  /\ ~ Begun => /\ done /\ path = Nil /\ closedSet = {} /\ openSet = EmptyQueue
                /\ cameFrom = [t \in Tiles |-> Nil] /\ gScore = [t \in Tiles |-> Nil]
  /\ Begun => /\ Explored(This, closedSet)
              /\ ~ done => path = Nil
              /\ path = Nil => goal \notin closedSet
              /\ path = Nil /\ done => \A t \in Tiles : ~ Holds(openSet, t)
              /\ path # Nil => goal \in closedSet /\ Trail(This, path)

LEMMA EmptyIs ==
  Good(EmptyQueue) /\ \A t \in Tiles : ~ Holds(EmptyQueue, t)
<1>1. <<>> \in Seq(Node) /\ Len(<<>>) = 0
  BY EmptySeq
<1>2. EmptyQueue.heap = <<>> /\ EmptyQueue.positionMap = [t \in Tiles |-> Nil]
  BY DEF EmptyQueue
<1>3. EmptyQueue \in Queue
  BY <1>1 DEF EmptyQueue, Queue
<1> QED BY <1>1, <1>2, <1>3 DEF Good, Placed, Ordered, Holds

LEMMA SoundNumbers ==
  ASSUME NEW st, NEW closed, Sound(st, closed), goal \in Tiles, NEW t \in Tiles, Reached(st, t)
  PROVE  /\ st.gScore[t] \in Nat /\ Distance(t, goal) \in Nat /\ Estimate(st, t) \in Nat
         /\ Estimate(st, t) = st.gScore[t] + Distance(t, goal)
<1>1. st.gScore \in [Tiles -> Nat \cup {Nil}]
  BY DEF Sound, SearchStates
<1>2. st.gScore[t] \in Nat
  BY <1>1 DEF Reached
<1>3. Distance(t, goal) \in Nat
  BY DistanceIs
<1> QED BY <1>2, <1>3 DEF Estimate

(* What the queue and the scores of closed tiles become while neighbours    *)
(* are visited.                                                            *)
Advances(st, v, closed) ==
  /\ \A t \in closed : v.gScore[t] = st.gScore[t]
  /\ \A t \in Tiles : Reached(st, t) => Reached(v, t) /\ v.gScore[t] <= st.gScore[t]

LEMMA AdvancesTransitive ==
  ASSUME NEW st, NEW v, NEW w, NEW closed, Advances(st, v, closed), Advances(v, w, closed),
         st.gScore \in [Tiles -> Nat \cup {Nil}], v.gScore \in [Tiles -> Nat \cup {Nil}],
         w.gScore \in [Tiles -> Nat \cup {Nil}]
  PROVE  Advances(st, w, closed)
<1>1. \A t \in closed : w.gScore[t] = st.gScore[t]
  BY DEF Advances
<1>2. ASSUME NEW t \in Tiles, Reached(st, t) PROVE Reached(w, t) /\ w.gScore[t] <= st.gScore[t]
  <2>1. Reached(v, t) /\ v.gScore[t] <= st.gScore[t]
    BY <1>2 DEF Advances
  <2>2. Reached(w, t) /\ w.gScore[t] <= v.gScore[t]
    BY <2>1 DEF Advances
  <2>3. st.gScore[t] \in Nat /\ v.gScore[t] \in Nat /\ w.gScore[t] \in Nat
    BY <1>2, <2>1, <2>2 DEF Reached
  <2> QED BY <2>1, <2>2, <2>3
<1> QED BY <1>1, <1>2 DEF Advances

(* The tile that is expanded is a tile of the search.                       *)
Expands(c, st, closed) ==
  /\ kind \in MapKinds /\ Begun /\ c \in closed
  /\ Sound(st, closed) /\ Bounds(st, closed, Estimate(st, c))

LEMMA VisitClosed ==
  ASSUME NEW c, NEW st, NEW closed, Expands(c, st, closed),
         NEW n \in closed, LegalStep(c, n)
  PROVE  Reached(st, n) /\ st.gScore[n] <= st.gScore[c] + Cost(c, n)
<1>1. /\ c \in Tiles /\ n \in Tiles /\ goal \in Tiles /\ Reached(st, c) /\ Reached(st, n)
      /\ Sound(st, closed) /\ kind \in MapKinds
  BY WalkableTile DEF Expands, Sound, Begun
<1>2. Estimate(st, n) <= Estimate(st, c)
  BY DEF Expands, Bounds
<1>3. /\ st.gScore[c] \in Nat /\ Estimate(st, c) = st.gScore[c] + Distance(c, goal)
      /\ Distance(c, goal) \in Nat
  BY <1>1, SoundNumbers
<1>4. /\ st.gScore[n] \in Nat /\ Estimate(st, n) = st.gScore[n] + Distance(n, goal)
      /\ Distance(n, goal) \in Nat
  BY <1>1, SoundNumbers
<1>5. Distance(c, goal) <= Cost(c, n) + Distance(n, goal)
  BY <1>1, Consistent
<1>6. Cost(c, n) \in Nat
  BY CostIs
<1> QED BY <1>1, <1>2, <1>3, <1>4, <1>5, <1>6

LEMMA VisitOpen ==
  ASSUME NEW c, NEW st, NEW closed, Expands(c, st, closed),
         NEW n \in Tiles \ closed, LegalStep(c, n),
         NEW g, g = st.gScore[c] + MoveCost(c, n),
         ~ Reached(st, n) \/ ~ (g >= st.gScore[n]),
         NEW v, v = [openSet  |-> Push(st.openSet, n, g + Distance(n, goal)),
                     cameFrom |-> [st.cameFrom EXCEPT ![n] = c],
                     gScore   |-> [st.gScore EXCEPT ![n] = g]]
  PROVE  /\ Sound(v, closed) /\ Bounds(v, closed, Estimate(st, c)) /\ Advances(st, v, closed)
         /\ Reached(v, n) /\ v.gScore[n] <= st.gScore[c] + Cost(c, n)
<1>1. /\ c \in Tiles /\ n \in Tiles /\ goal \in Tiles /\ start \in Tiles /\ closed \subseteq Tiles
      /\ Reached(st, c) /\ Sound(st, closed) /\ kind \in MapKinds /\ c \in closed
  BY WalkableTile DEF Expands, Sound, Begun
<1>2. /\ st.gScore[c] \in Nat /\ Estimate(st, c) = st.gScore[c] + Distance(c, goal)
      /\ Distance(c, goal) \in Nat
  BY <1>1, SoundNumbers
<1>3. PICK p : p = g + Distance(n, goal)
  OBVIOUS
<1>4. /\ g = st.gScore[c] + Cost(c, n) /\ g \in Nat /\ Distance(n, goal) \in Nat /\ p \in Nat
      /\ Cost(c, n) \in Nat
  <2>1. MoveCost(c, n) = Cost(c, n)
    BY <1>1, MoveCostIs
  <2>2. Distance(n, goal) \in Nat
    BY <1>1, DistanceIs
  <2>3. Cost(c, n) \in Nat
    BY CostIs
  <2> QED BY <1>2, <1>3, <2>1, <2>2, <2>3
<1>5. g # Nil
  BY <1>4, PathAssumption
<1>6. PICK q, cf, gs : q = st.openSet /\ cf = st.cameFrom /\ gs = st.gScore
  OBVIOUS
<1>7. /\ Good(q) /\ cf \in [Tiles -> Tiles \cup {Nil}] /\ gs \in [Tiles -> Nat \cup {Nil}]
  BY <1>1, <1>6 DEF Sound, SearchStates
<1>8. PICK r, cf2, gs2 : /\ r = Push(q, n, p) /\ cf2 = [cf EXCEPT ![n] = c]
                         /\ gs2 = [gs EXCEPT ![n] = g]
  OBVIOUS
<1>9. v = [openSet |-> r, cameFrom |-> cf2, gScore |-> gs2]
  BY <1>3, <1>6, <1>8
<1>10. v.openSet = r /\ v.cameFrom = cf2 /\ v.gScore = gs2
  BY <1>9
<1>11. Pushed(q, n, p, r)
  BY <1>4, <1>7, <1>8, PushIs
<1>12. /\ Good(r) /\ Holds(r, n) /\ Priority(r, n) = p
       /\ \A t \in Tiles : t # n => /\ Holds(q, t) <=> Holds(r, t)
                                    /\ Holds(q, t) => Priority(q, t) = Priority(r, t)
  BY <1>11 DEF Pushed, SameBut
<1>13. /\ cf2 \in [Tiles -> Tiles \cup {Nil}] /\ gs2 \in [Tiles -> Nat \cup {Nil}]
       /\ cf2[n] = c /\ gs2[n] = g
       /\ \A t \in Tiles : t # n => cf2[t] = cf[t] /\ gs2[t] = gs[t]
  BY <1>1, <1>4, <1>7, <1>8
<1>14. v \in SearchStates
  <2>1. r \in Queue
    BY <1>12 DEF Good
  <2>2. cf2 \in [Tiles -> Tiles \cup {Nil}] /\ gs2 \in [Tiles -> Nat \cup {Nil}]
    BY <1>13
  <2>3. [openSet |-> r, cameFrom |-> cf2, gScore |-> gs2] \in SearchStates
    BY <2>1, <2>2, Zenon DEF SearchStates
  <2> QED BY <1>9, <2>3
<1>15. n # start
  <2>1. ASSUME n = start PROVE FALSE
    <3>1. st.gScore[n] = 0 /\ 0 # Nil
      BY <1>1, <2>1, PathAssumption DEF Sound
    <3> QED BY <1>4, <3>1 DEF Reached
  <2> QED BY <2>1
<1>16. ASSUME NEW t \in Tiles, t # n
       PROVE  /\ Reached(v, t) <=> Reached(st, t)
              /\ Estimate(v, t) = Estimate(st, t)
  BY <1>6, <1>10, <1>13, <1>16 DEF Reached, Estimate
<1>17. Reached(v, n) /\ Estimate(v, n) = p
  BY <1>3, <1>5, <1>10, <1>13 DEF Reached, Estimate
<1>18. /\ \A t \in Tiles :
            /\ Reached(st, t) <=> Holds(q, t) \/ t \in closed
            /\ ~ (Holds(q, t) /\ t \in closed)
            /\ Reached(st, t) => IsWalkable(t)
            /\ Holds(q, t) => Priority(q, t) = Estimate(st, t)
            /\ Reached(st, t) /\ t # start => Linked(st, closed, t)
       /\ gs[start] = 0 /\ cf[start] = Nil
  BY <1>1, <1>6 DEF Sound
<1>19. IsWalkable(n)
  BY LegalIs
<1>20. ASSUME NEW t \in Tiles, Reached(v, t), t # start PROVE Linked(v, closed, t)
  <2>1. CASE t = n
    BY <1>1, <1>2, <1>4, <1>6, <1>10, <1>13, <2>1 DEF Linked
  <2>2. CASE t # n
    <3>1. Linked(st, closed, t)
      BY <1>16, <1>18, <1>20, <2>2
    <3>2. /\ cf[t] \in closed /\ LegalStep(cf[t], t) /\ gs[cf[t]] \in Nat
          /\ gs[t] = gs[cf[t]] + Cost(cf[t], t)
      BY <1>6, <3>1 DEF Linked
    <3>3. cf2[t] = cf[t] /\ gs2[t] = gs[t] /\ gs2[cf[t]] = gs[cf[t]]
      BY <1>1, <1>13, <2>2, <3>2
    <3> QED BY <1>10, <3>2, <3>3 DEF Linked
  <2> QED BY <2>1, <2>2
<1>21. ASSUME NEW t \in Tiles
       PROVE  /\ Reached(v, t) <=> Holds(r, t) \/ t \in closed
              /\ ~ (Holds(r, t) /\ t \in closed)
              /\ Reached(v, t) => IsWalkable(t)
              /\ Holds(r, t) => Priority(r, t) = Estimate(v, t)
  <2>1. CASE t = n
    BY <1>12, <1>17, <1>19, <2>1
  <2>2. CASE t # n
    BY <1>12, <1>16, <1>18, <2>2
  <2> QED BY <2>1, <2>2
<1>22. Sound(v, closed)
  BY <1>1, <1>10, <1>12, <1>13, <1>14, <1>15, <1>18, <1>20, <1>21 DEF Sound
<1>23. Bounds(v, closed, Estimate(st, c))
  <2>1. \A s \in closed : Estimate(v, s) <= Estimate(st, c)
    BY <1>1, <1>16 DEF Expands, Bounds
  <2>2. ASSUME NEW t \in Tiles, Holds(r, t) PROVE Estimate(st, c) <= Estimate(v, t)
    <3>1. CASE t = n
      <4>1. Distance(c, goal) <= Cost(c, n) + Distance(n, goal)
        BY <1>1, Consistent
      <4> QED BY <1>2, <1>3, <1>4, <1>17, <3>1, <4>1
    <3>2. CASE t # n
      BY <1>6, <1>12, <1>16, <2>2, <3>2 DEF Expands, Bounds
    <3> QED BY <3>1, <3>2
  <2>3. \A t \in Tiles : Holds(v.openSet, t) => Estimate(st, c) <= Estimate(v, t)
    BY <1>10, <2>2
  <2> QED BY <2>1, <2>3, Zenon DEF Bounds
<1>24. Advances(st, v, closed)
  <2>1. \A t \in closed : gs2[t] = gs[t]
    BY <1>1, <1>13
  <2>2. ASSUME NEW t \in Tiles, Reached(st, t) PROVE Reached(v, t) /\ gs2[t] <= gs[t]
    <3>1. gs[t] \in Nat
      BY <1>1, <1>6, <2>2, SoundNumbers
    <3>2. CASE t = n
      BY <1>4, <1>6, <1>13, <1>17, <2>2, <3>1, <3>2
    <3>3. CASE t # n
      BY <1>13, <1>16, <2>2, <3>1, <3>3
    <3> QED BY <3>2, <3>3
  <2> QED BY <1>6, <1>10, <2>1, <2>2 DEF Advances
<1>25. v.gScore[n] <= st.gScore[c] + Cost(c, n)
  BY <1>4, <1>10, <1>13
<1> QED BY <1>17, <1>22, <1>23, <1>24, <1>25

LEMMA VisitIs ==
  ASSUME NEW c, NEW st, NEW closed, closed = closedSet \cup {c}, Expands(c, st, closed),
         NEW n \in Tiles, LegalStep(c, n)
  PROVE  /\ Expands(c, Visit(c, st, n), closed) /\ Advances(st, Visit(c, st, n), closed)
         /\ Reached(Visit(c, st, n), n)
         /\ Visit(c, st, n).gScore[n] <= st.gScore[c] + Cost(c, n)
<1>1. PICK g : g = st.gScore[c] + MoveCost(c, n)
  OBVIOUS
<1>2. PICK v, w : /\ v = Visit(c, st, n)
                  /\ w = [openSet  |-> Push(st.openSet, n, g + Distance(n, goal)),
                          cameFrom |-> [st.cameFrom EXCEPT ![n] = c],
                          gScore   |-> [st.gScore EXCEPT ![n] = g]]
  OBVIOUS
<1>3. v = IF n \in closed THEN st
          ELSE IF st.gScore[n] # Nil /\ g >= st.gScore[n] THEN st ELSE w
  BY <1>1, <1>2 DEF Visit
<1>4. Sound(st, closed) /\ goal \in Tiles /\ c \in Tiles /\ c \in closed /\ Reached(st, c)
  BY WalkableTile DEF Expands, Sound, Begun
<1>5. Advances(st, st, closed)
  BY <1>4, SoundNumbers DEF Advances
<1>6. CASE n \in closed
  BY <1>2, <1>3, <1>5, <1>6, VisitClosed
<1>7. CASE n \notin closed /\ Reached(st, n) /\ g >= st.gScore[n]
  <2>1. v = st
    BY <1>3, <1>7 DEF Reached
  <2>2. MoveCost(c, n) = Cost(c, n)
    BY <1>4, MoveCostIs DEF Expands
  <2>3. st.gScore[n] \in Nat /\ st.gScore[c] \in Nat /\ Cost(c, n) \in Nat
    BY <1>4, <1>7, SoundNumbers, CostIs
  <2> QED BY <1>1, <1>2, <1>5, <1>7, <2>1, <2>2, <2>3
<1>8. CASE n \notin closed /\ ~ (Reached(st, n) /\ g >= st.gScore[n])
  <2>1. v = w
    BY <1>3, <1>8 DEF Reached
  <2>2. /\ Sound(w, closed) /\ Bounds(w, closed, Estimate(st, c)) /\ Advances(st, w, closed)
        /\ Reached(w, n) /\ w.gScore[n] <= st.gScore[c] + Cost(c, n)
    <3>1. n \in Tiles \ closed
      BY <1>8
    <3>2. ~ Reached(st, n) \/ ~ (g >= st.gScore[n])
      BY <1>8
    <3> QED BY <1>1, <1>2, <3>1, <3>2, VisitOpen
  <2>3. Estimate(w, c) = Estimate(st, c)
    BY <1>4, <2>2 DEF Advances, Estimate
  <2> QED BY <1>2, <1>4, <2>1, <2>2, <2>3 DEF Expands
<1> QED BY <1>6, <1>7, <1>8

(* The tile with the lowest priority is taken out of the queue.             *)
Taken == [openSet |-> Popped(openSet), cameFrom |-> cameFrom, gScore |-> gScore]

LEMMA TakenIs ==
  ASSUME kind \in MapKinds, Begun, Explored(This, closedSet), openSet.heap # <<>>
  PROVE  /\ Current \in Tiles \ closedSet
         /\ Expands(Current, Taken, closedSet \cup {Current})
         /\ Advances(This, Taken, closedSet)
<1>1. PICK c, p, closed : c = Current /\ p = Popped(openSet) /\ closed = closedSet \cup {c}
  OBVIOUS
<1>2. /\ This.openSet = openSet /\ This.cameFrom = cameFrom /\ This.gScore = gScore
      /\ Taken.openSet = p /\ Taken.cameFrom = cameFrom /\ Taken.gScore = gScore
      /\ Taken = [openSet |-> p, cameFrom |-> cameFrom, gScore |-> gScore]
  BY <1>1 DEF This, Taken
<1>3. /\ Sound(This, closedSet) /\ Good(openSet) /\ closedSet \subseteq Tiles
      /\ cameFrom \in [Tiles -> Tiles \cup {Nil}] /\ gScore \in [Tiles -> Nat \cup {Nil}]
      /\ gScore[start] = 0 /\ cameFrom[start] = Nil /\ goal \in Tiles
  BY <1>2, WalkableTile DEF Explored, Sound, SearchStates, Begun
<1>4. /\ c \in Tiles /\ Holds(openSet, c) /\ Good(p) /\ ~ Holds(p, c)
      /\ \A t \in Tiles : t # c => /\ Holds(openSet, t) <=> Holds(p, t)
                                   /\ Holds(openSet, t) => Priority(openSet, t) = Priority(p, t)
  BY <1>1, <1>3, PoppedIs DEF Current, SameBut
<1>5. /\ \A t \in Tiles : (Reached(Taken, t) <=> Reached(This, t)) /\ Estimate(Taken, t) = Estimate(This, t)
  BY <1>2 DEF Reached, Estimate
<1>6. \A t \in Tiles :
        /\ Reached(This, t) <=> Holds(openSet, t) \/ t \in closedSet
        /\ ~ (Holds(openSet, t) /\ t \in closedSet)
        /\ Reached(This, t) => IsWalkable(t)
        /\ Holds(openSet, t) => Priority(openSet, t) = Estimate(This, t)
        /\ Reached(This, t) /\ t # start => Linked(This, closedSet, t)
  BY <1>2, <1>3 DEF Sound
<1>7. c \notin closedSet /\ closed \subseteq Tiles /\ c \in closed
  BY <1>1, <1>3, <1>4, <1>6
<1>8. Taken \in SearchStates
  <2>1. p \in Queue
    BY <1>4 DEF Good
  <2>2. [openSet |-> p, cameFrom |-> cameFrom, gScore |-> gScore] \in SearchStates
    BY <1>3, <2>1, Zenon DEF SearchStates
  <2> QED BY <1>2, <2>2
<1>9. ASSUME NEW t \in Tiles
      PROVE  /\ Reached(Taken, t) <=> Holds(p, t) \/ t \in closed
             /\ ~ (Holds(p, t) /\ t \in closed)
             /\ Reached(Taken, t) => IsWalkable(t)
             /\ Holds(p, t) => Priority(p, t) = Estimate(Taken, t)
             /\ Reached(Taken, t) /\ t # start => Linked(Taken, closed, t)
  <2>1. CASE t = c
    <3>1. Linked(This, closedSet, t) => Linked(Taken, closed, t)
      BY <1>1, <1>2 DEF Linked
    <3> QED BY <1>4, <1>5, <1>6, <1>7, <2>1, <3>1
  <2>2. CASE t # c
    <3>1. Linked(This, closedSet, t) => Linked(Taken, closed, t)
      BY <1>1, <1>2 DEF Linked
    <3>2. t \in closed <=> t \in closedSet
      BY <1>1, <2>2
    <3> QED BY <1>4, <1>5, <1>6, <2>2, <3>1, <3>2
  <2> QED BY <2>1, <2>2
<1>10. Sound(Taken, closed)
  BY <1>2, <1>3, <1>4, <1>7, <1>8, <1>9 DEF Sound
<1>11. Bounds(Taken, closed, Estimate(Taken, c))
  <2>1. Estimate(This, c) \in Nat
    BY <1>3, <1>4, <1>6, SoundNumbers
  <2>2. ASSUME NEW s \in closed PROVE Estimate(Taken, s) <= Estimate(Taken, c)
    <3>1. CASE s = c
      BY <1>4, <1>5, <2>1, <3>1
    <3>2. CASE s # c
      <4>1. s \in closedSet /\ s \in Tiles
        BY <1>1, <1>7, <3>2
      <4>2. Estimate(This, s) <= Estimate(This, c)
        BY <1>2, <1>4, <4>1 DEF Explored
      <4> QED BY <1>4, <1>5, <4>1, <4>2
    <3> QED BY <3>1, <3>2
  <2>3. ASSUME NEW t \in Tiles, Holds(p, t) PROVE Estimate(Taken, c) <= Estimate(Taken, t)
    <3>1. Holds(openSet, t)
      BY <1>4, <2>3
    <3>2. Priority(openSet, c) <= Priority(openSet, t)
      BY <1>1, <1>3, <3>1, FirstIs DEF Current
    <3> QED BY <1>4, <1>5, <1>6, <3>1, <3>2
  <2>4. \A t \in Tiles : Holds(Taken.openSet, t) => Estimate(Taken, c) <= Estimate(Taken, t)
    BY <1>2, <2>3
  <2> QED BY <2>2, <2>4, Zenon DEF Bounds
<1>12. Advances(This, Taken, closedSet)
  <2>1. \A t \in Tiles : Reached(This, t) => Taken.gScore[t] <= This.gScore[t]
    <3> SUFFICES ASSUME NEW t \in Tiles, Reached(This, t) PROVE gScore[t] <= gScore[t]
      BY <1>2
    <3>1. gScore[t] \in Nat
      BY <1>2, <1>3 DEF Reached
    <3> QED BY <3>1
  <2> QED BY <1>2, <1>5, <2>1 DEF Advances
<1> QED BY <1>1, <1>4, <1>7, <1>10, <1>11, <1>12 DEF Expands

LEMMA ExpandedIs ==
  ASSUME NEW c, NEW closed, closed = closedSet \cup {c}, Expands(c, Taken, closed),
         NEW nb \in Seq(Tiles), \A j \in 1 .. Len(nb) : LegalStep(c, nb[j])
  PROVE  /\ Expands(c, Expanded(c, nb), closed)
         /\ Advances(Taken, Expanded(c, nb), closed)
         /\ \A j \in 1 .. Len(nb) :
              /\ Reached(Expanded(c, nb), nb[j])
              /\ Expanded(c, nb).gScore[nb[j]] <= gScore[c] + Cost(c, nb[j])
<1> DEFINE n == Len(nb)
           S == {s \in SearchStates : Expands(c, s, closed) /\ Advances(Taken, s, closed)}
           step == [k \in 1 .. n |-> [s \in S |-> Visit(c, s, nb[k])]]
           Eq(f) == f = [k \in 0 .. n |-> IF k = 0
                           THEN [openSet |-> Popped(openSet), cameFrom |-> cameFrom, gScore |-> gScore]
                           ELSE Visit(c, f[k - 1], nb[k])]
           st == CHOOSE f : Eq(f)
           Near(s, j) == Reached(s, nb[j]) /\ s.gScore[nb[j]] <= gScore[c] + Cost(c, nb[j])
<1>1. n \in Nat /\ \A j \in 1 .. n : nb[j] \in Tiles
  BY LenProperties, ElementOfSeq
<1>2. /\ Sound(Taken, closed) /\ Taken \in SearchStates /\ goal \in Tiles /\ kind \in MapKinds
      /\ c \in Tiles /\ c \in closed /\ closed \subseteq Tiles /\ Reached(Taken, c)
      /\ Taken.gScore = gScore
  BY WalkableTile DEF Expands, Sound, Begun, Taken
<1>3. Taken \in S
  <2>1. Advances(Taken, Taken, closed)
    BY <1>2, SoundNumbers DEF Advances
  <2> QED BY <1>2, <2>1
<1>4. ASSUME NEW s \in S PROVE s.gScore \in [Tiles -> Nat \cup {Nil}] /\ s.gScore[c] = gScore[c]
  BY <1>2 DEF SearchStates, Advances
<1>5. ASSUME NEW s \in S, NEW k \in 1 .. n
      PROVE  /\ Visit(c, s, nb[k]) \in S /\ Near(Visit(c, s, nb[k]), k)
             /\ Advances(s, Visit(c, s, nb[k]), closed)
  <2>1. PICK v : v = Visit(c, s, nb[k])
    OBVIOUS
  <2>2. Expands(c, s, closed) /\ nb[k] \in Tiles /\ LegalStep(c, nb[k])
    BY <1>1
  <2>3. /\ Expands(c, v, closed) /\ Advances(s, v, closed) /\ Reached(v, nb[k])
        /\ v.gScore[nb[k]] <= s.gScore[c] + Cost(c, nb[k])
    BY <2>1, <2>2, VisitIs
  <2>4. v \in SearchStates
    BY <2>3 DEF Expands, Sound
  <2>5. /\ Taken.gScore \in [Tiles -> Nat \cup {Nil}] /\ s.gScore \in [Tiles -> Nat \cup {Nil}]
        /\ v.gScore \in [Tiles -> Nat \cup {Nil}]
    BY <1>2, <1>4, <2>4 DEF SearchStates
  <2>6. Advances(Taken, s, closed)
    OBVIOUS
  <2>7. Advances(Taken, v, closed)
    BY <2>3, <2>5, <2>6, AdvancesTransitive
  <2> QED BY <1>4, <2>1, <2>3, <2>4, <2>7
<1>6. step \in [1 .. n -> [S -> S]]
  BY <1>5
<1> HIDE DEF S, n
<1>7. \E f : IsLoop(n, S, Taken, step, f)
  <2> HIDE DEF step
  <2> QED BY <1>1, <1>3, <1>6, LoopExists DEF Rounds
<1>8. PICK f : f \in [0 .. n -> S] /\ f[0] = Taken /\ \A k \in 1 .. n : f[k] = step[k][f[k - 1]]
  BY <1>7 DEF IsLoop
<1>9. ASSUME NEW k \in 0 .. n PROVE f[k] = IF k = 0 THEN Taken ELSE Visit(c, f[k - 1], nb[k])
  <2>1. CASE k = 0
    BY <1>8, <2>1
  <2>2. CASE k # 0
    <3>1. k \in 1 .. n /\ k - 1 \in 0 .. n
      BY <1>1, <2>2
    <3>2. f[k - 1] \in S /\ f[k] = step[k][f[k - 1]]
      BY <1>8, <3>1
    <3> QED BY <2>2, <3>1, <3>2
  <2> QED BY <2>1, <2>2
<1>10. Eq(f)
  <2>1. f = [k \in 0 .. n |-> f[k]]
    BY <1>8
  <2> QED BY <1>9, <2>1 DEF Taken
<1>11. Eq(st)
  <2> HIDE DEF Eq
  <2> QED BY <1>10, Zenon
<1>12. st[0] = Taken /\ \A k \in 1 .. n : st[k] = Visit(c, st[k - 1], nb[k])
  <2>1. \A k \in 0 .. n : st[k] = IF k = 0 THEN Taken ELSE Visit(c, st[k - 1], nb[k])
    <3> HIDE DEF st
    <3> QED BY <1>11 DEF Taken
  <2> HIDE DEF st
  <2>2. \A k \in 1 .. n : k \in 0 .. n /\ k # 0
    BY <1>1
  <2> QED BY <1>1, <2>1, <2>2
<1>13. Expanded(c, nb) = st[n]
  BY DEF Expanded, n
<1> HIDE DEF st
<1> DEFINE T == {k \in 0 .. n : st[k] \in S /\ \A j \in 1 .. k : Near(st[k], j)}
<1>14. 0 \in T
  BY <1>1, <1>3, <1>12
<1>15. ASSUME NEW k \in 1 .. n, k - 1 \in T PROVE k \in T
  <2>1. PICK s, v : s = st[k - 1] /\ v = st[k]
    OBVIOUS
  <2>2. s \in S /\ v = Visit(c, s, nb[k]) /\ \A j \in 1 .. k - 1 : Near(s, j)
    BY <1>12, <1>15, <2>1
  <2>3. v \in S /\ Near(v, k) /\ Advances(s, v, closed)
    BY <1>5, <2>2
  <2>4. ASSUME NEW j \in 1 .. k - 1 PROVE Near(v, j)
    <3>1. Near(s, j) /\ nb[j] \in Tiles /\ nb[k] \in Tiles
      BY <1>1, <2>2
    <3>2. Reached(v, nb[j]) /\ v.gScore[nb[j]] <= s.gScore[nb[j]]
      BY <2>3, <3>1 DEF Advances
    <3>3. s.gScore[nb[j]] \in Nat /\ v.gScore[nb[j]] \in Nat
      BY <1>4, <2>2, <2>3, <3>1, <3>2 DEF Reached
    <3>4. gScore[c] \in Nat /\ Cost(c, nb[j]) \in Nat
      BY <1>2, SoundNumbers, CostIs
    <3> QED BY <3>1, <3>2, <3>3, <3>4
  <2>5. \A j \in 1 .. k : j \in 1 .. k - 1 \/ j = k
    BY <1>1
  <2> HIDE DEF Near
  <2> QED BY <1>1, <2>1, <2>3, <2>4, <2>5
<1>16. n \in T
  <2> HIDE DEF T
  <2>1. \A k \in 0 .. n : k \in T
    BY <1>1, <1>14, <1>15, LoopInduction
  <2> QED BY <1>1, <2>1
<1> QED BY <1>13, <1>16 DEF S, n

LEMMA ExpandKeeps ==
  ASSUME kind \in MapKinds, Begun, Explored(This, closedSet), openSet.heap # <<>>,
         NEW st, st = Expanded(Current, GetNeighbors(Current))
  PROVE  Explored(st, closedSet \cup {Current})
<1>1. PICK c, closed, nb : c = Current /\ closed = closedSet \cup {c} /\ nb = GetNeighbors(c)
  OBVIOUS
<1>2. /\ c \in Tiles /\ c \in closed /\ closedSet \subseteq closed
      /\ Expands(c, Taken, closed) /\ Advances(This, Taken, closedSet)
  BY <1>1, TakenIs
<1>3. Sound(Taken, closed) /\ goal \in Tiles /\ Reached(Taken, c) /\ IsWalkable(c) /\ closed \subseteq Tiles
  BY <1>2, WalkableTile DEF Expands, Sound, Begun
<1>4. nb \in Seq(Tiles) /\ \A t : Member(nb, t) <=> t \in Tiles /\ LegalStep(c, t)
  BY <1>1, <1>3, GetNeighborsAre
<1>5. \A j \in 1 .. Len(nb) : LegalStep(c, nb[j])
  BY <1>4 DEF Member
<1>6. st = Expanded(c, nb)
  BY <1>1
<1>7. /\ Expands(c, st, closed) /\ Advances(Taken, st, closed)
      /\ \A j \in 1 .. Len(nb) :
           Reached(st, nb[j]) /\ st.gScore[nb[j]] <= gScore[c] + Cost(c, nb[j])
  BY <1>1, <1>2, <1>4, <1>5, <1>6, ExpandedIs
<1>8. Sound(st, closed) /\ Bounds(st, closed, Estimate(st, c))
  BY <1>7 DEF Expands
<1>9. ASSUME NEW s \in closed, NEW t \in Tiles, Holds(st.openSet, t)
      PROVE  Estimate(st, s) <= Estimate(st, t)
  <2>1. Estimate(st, s) <= Estimate(st, c) /\ Estimate(st, c) <= Estimate(st, t)
    BY <1>8, <1>9 DEF Bounds
  <2>2. Reached(st, s) /\ Reached(st, c) /\ Reached(st, t)
    BY <1>2, <1>3, <1>8, <1>9 DEF Sound
  <2>3. Estimate(st, s) \in Nat /\ Estimate(st, c) \in Nat /\ Estimate(st, t) \in Nat
    BY <1>2, <1>3, <1>8, <2>2, SoundNumbers
  <2> QED BY <2>1, <2>3
<1>10. Taken.gScore = gScore /\ This.gScore = gScore
  BY DEF Taken, This
<1>11. ASSUME NEW s \in closed \ {goal} PROVE Complete(st, s)
  <2>1. st.gScore[s] = gScore[s]
    BY <1>7, <1>10 DEF Advances
  <2>2. CASE s = c
    <3>1. ASSUME NEW t \in Tiles, LegalStep(c, t)
          PROVE  Reached(st, t) /\ st.gScore[t] <= gScore[c] + Cost(c, t)
      <4>1. PICK j \in 1 .. Len(nb) : nb[j] = t
        BY <1>4, <3>1 DEF Member
      <4> QED BY <1>7, <4>1
    <3> QED BY <2>1, <2>2, <3>1 DEF Complete
  <2>3. CASE s # c
    <3>1. s \in closedSet \ {goal} /\ s \in Tiles
      BY <1>1, <1>3, <2>3
    <3>2. Complete(This, s)
      BY <3>1 DEF Explored
    <3>3. ASSUME NEW t \in Tiles, LegalStep(s, t)
          PROVE  Reached(st, t) /\ st.gScore[t] <= gScore[s] + Cost(s, t)
      <4>1. Reached(This, t) /\ gScore[t] <= gScore[s] + Cost(s, t)
        BY <1>10, <3>2, <3>3 DEF Complete
      <4>2. Reached(Taken, t) /\ Reached(Taken, s)
        BY <1>1, <1>3, <1>10, <3>1, <4>1 DEF Reached, Sound
      <4>3. Reached(st, t) /\ st.gScore[t] <= gScore[t]
        BY <1>7, <1>10, <4>2 DEF Advances
      <4>4. gScore[t] \in Nat /\ gScore[s] \in Nat
        BY <1>3, <1>10, <3>1, <4>2, SoundNumbers
      <4>5. st.gScore[t] \in Nat /\ Cost(s, t) \in Nat
        BY <1>3, <1>8, <4>3, SoundNumbers, CostIs
      <4> QED BY <4>1, <4>3, <4>4, <4>5
    <3> QED BY <2>1, <3>3 DEF Complete
  <2> QED BY <2>2, <2>3
<1> QED BY <1>1, <1>8, <1>9, <1>11 DEF Explored

LEMMA FoundKeeps ==
  ASSUME kind \in MapKinds, Begun, Explored(This, closedSet), openSet.heap # <<>>, Current = goal
  PROVE  Explored(Taken, closedSet \cup {goal})
<1>1. PICK closed : closed = closedSet \cup {goal}
  OBVIOUS
<1>2. Expands(goal, Taken, closed)
  BY <1>1, TakenIs
<1>3. Sound(Taken, closed) /\ Bounds(Taken, closed, Estimate(Taken, goal)) /\ goal \in Tiles
      /\ goal \in closed /\ closed \subseteq Tiles
  BY <1>2, WalkableTile DEF Expands, Sound, Begun
<1>4. ASSUME NEW s \in closed, NEW t \in Tiles, Holds(Taken.openSet, t)
      PROVE  Estimate(Taken, s) <= Estimate(Taken, t)
  <2>1. Estimate(Taken, s) <= Estimate(Taken, goal) /\ Estimate(Taken, goal) <= Estimate(Taken, t)
    BY <1>3, <1>4 DEF Bounds
  <2>2. Reached(Taken, s) /\ Reached(Taken, goal) /\ Reached(Taken, t)
    BY <1>3, <1>4 DEF Sound
  <2>3. Estimate(Taken, s) \in Nat /\ Estimate(Taken, goal) \in Nat /\ Estimate(Taken, t) \in Nat
    BY <1>3, <2>2, SoundNumbers
  <2> QED BY <2>1, <2>3
<1>5. ASSUME NEW s \in closed \ {goal} PROVE Complete(Taken, s)
  <2>1. Complete(This, s)
    BY <1>1 DEF Explored
  <2> QED BY <2>1 DEF Complete, Reached, This, Taken
<1> QED BY <1>1, <1>3, <1>4, <1>5 DEF Explored

LEMMA TilesFinite == IsFiniteSet(Tiles) /\ Cardinality(Tiles) \in Nat
<1>1. IsFiniteSet(1 .. width) /\ IsFiniteSet(1 .. height)
  BY FS_Interval, PathAssumption
<1>2. IsFiniteSet(Tiles)
  BY <1>1, FS_Product DEF Tiles
<1> QED BY <1>2, FS_CardinalityType

LEMMA PigeonHole ==
  ASSUME NEW p \in Seq(Tiles), \A i, j \in 1 .. Len(p) : p[i] = p[j] => i = j
  PROVE  Len(p) <= Cardinality(Tiles)
<1>1. Len(p) \in Nat /\ Cardinality(Tiles) \in Nat
  BY TilesFinite, LenProperties
<1>2. IsFiniteSet(1 .. Len(p)) /\ Cardinality(1 .. Len(p)) = Len(p)
  <2>1. PICK m : m = Len(p)
    OBVIOUS
  <2>2. m \in Nat /\ m \in Int /\ 1 \in Int
    BY <1>1, <2>1
  <2>3. IsFiniteSet(1 .. m) /\ Cardinality(1 .. m) = IF 1 > m THEN 0 ELSE m - 1 + 1
    BY <2>2, FS_Interval, Zenon
  <2>4. (IF 1 > m THEN 0 ELSE m - 1 + 1) = m
    BY <2>2
  <2> QED BY <2>1, <2>3, <2>4
<1>3. p \in [1 .. Len(p) -> Tiles]
  BY LenProperties
<1> SUFFICES ASSUME Cardinality(Tiles) < Cardinality(1 .. Len(p)) PROVE FALSE
  BY <1>1, <1>2
<1>4. \E i, j \in 1 .. Len(p) : i # j /\ p[i] = p[j]
  BY <1>2, <1>3, TilesFinite, FS_PigeonHole, Zenon
<1> QED BY <1>4

(* The path while it grows back from the goal.                              *)
Chain(st, p) ==
  /\ p \in Seq(Tiles) /\ Len(p) \in Nat \ {0} /\ p[Len(p)] = goal
  /\ \A i \in 1 .. Len(p) - 1 : p[i] = st.cameFrom[p[i + 1]]
  /\ \A i \in 1 .. Len(p) : Reached(st, p[i]) /\ st.gScore[p[1]] <= st.gScore[p[i]]
  /\ \A i, j \in 1 .. Len(p) : p[i] = p[j] => i = j

LEMMA ChainGrows ==
  ASSUME NEW st, NEW closed, Sound(st, closed), Begun, NEW p, Chain(st, p), p[1] # start,
         NEW u, u = st.cameFrom[p[1]], NEW r, r = <<u>> \o p
  PROVE  u # Nil /\ Chain(st, r) /\ Len(r) = Len(p) + 1
<1>1. PICK n, g, cf : n = Len(p) /\ g = st.gScore /\ cf = st.cameFrom
  OBVIOUS
<1>2. /\ p \in Seq(Tiles) /\ n \in Nat \ {0} /\ p[n] = goal
      /\ \A i \in 1 .. n - 1 : p[i] = cf[p[i + 1]]
      /\ \A i \in 1 .. n : Reached(st, p[i]) /\ g[p[1]] <= g[p[i]] /\ p[i] \in Tiles
      /\ \A i, j \in 1 .. n : p[i] = p[j] => i = j
  <2>1. \A i \in 1 .. n : p[i] \in Tiles
    BY <1>1, ElementOfSeq DEF Chain
  <2> QED BY <1>1, <2>1 DEF Chain
<1>3. 1 \in 1 .. n /\ goal \in Tiles
  BY <1>2, WalkableTile DEF Begun
<1>4. Linked(st, closed, p[1]) /\ closed \subseteq Tiles
  BY <1>2, <1>3 DEF Sound
<1>5. u \in closed /\ u \in Tiles /\ Reached(st, u)
  BY <1>4 DEF Linked, Sound
<1>6. g[u] \in Nat /\ \A i \in 1 .. n : g[p[i]] \in Nat
  BY <1>1, <1>2, <1>3, <1>5, SoundNumbers
<1>7. g[u] < g[p[1]]
  <2>1. g[p[1]] = g[u] + Cost(u, p[1])
    BY <1>1, <1>4 DEF Linked
  <2>2. Cost(u, p[1]) \in {1000, 1414}
    BY CostIs
  <2> QED BY <1>3, <1>6, <2>1, <2>2
<1>8. ASSUME NEW i \in 1 .. n PROVE g[u] <= g[p[i]] /\ u # p[i]
  <2>1. g[p[1]] <= g[p[i]] /\ g[p[i]] \in Nat /\ g[p[1]] \in Nat
    BY <1>2, <1>3, <1>6
  <2> QED BY <1>6, <1>7, <2>1
<1>9. /\ r \in Seq(Tiles) /\ Len(r) = n + 1 /\ r[1] = u
      /\ \A i \in 1 .. n : r[i + 1] = p[i]
  <2>1. <<u>> \in Seq(Tiles) /\ Len(<<u>>) = 1 /\ <<u>>[1] = u
    BY <1>5
  <2>2. /\ r \in Seq(Tiles) /\ Len(r) = 1 + n
        /\ \A i \in 1 .. 1 + n : r[i] = IF i <= 1 THEN <<u>>[i] ELSE p[i - 1]
    BY <1>1, <1>2, <2>1, ConcatProperties
  <2>3. r[1] = u
    BY <1>2, <2>1, <2>2
  <2>4. ASSUME NEW i \in 1 .. n PROVE r[i + 1] = p[i]
    <3>1. i + 1 \in 1 .. 1 + n /\ ~ (i + 1 <= 1) /\ (i + 1) - 1 = i
      BY <1>2
    <3> QED BY <2>2, <3>1
  <2> QED BY <1>2, <2>2, <2>3, <2>4
<1>10. ASSUME NEW k \in 1 .. n + 1 PROVE k = 1 \/ (k - 1 \in 1 .. n /\ r[k] = p[k - 1])
  <2>1. CASE k # 1
    <3>1. k - 1 \in 1 .. n /\ (k - 1) + 1 = k
      BY <1>2, <2>1
    <3> QED BY <1>9, <3>1
  <2> QED BY <2>1
<1>11. r[n + 1] = goal
  BY <1>2, <1>9
<1>12. ASSUME NEW i \in 1 .. n PROVE r[i] = cf[r[i + 1]]
  <2>1. CASE i = 1
    BY <1>1, <1>3, <1>9, <2>1
  <2>2. CASE i # 1
    <3>1. i - 1 \in 1 .. n - 1 /\ (i - 1) + 1 = i /\ i \in 1 .. n + 1
      BY <1>2, <2>2
    <3>2. p[i - 1] = cf[p[i]]
      BY <1>2, <3>1
    <3>3. r[i] = p[i - 1] /\ r[i + 1] = p[i]
      BY <1>9, <1>10, <2>2, <3>1
    <3> QED BY <3>2, <3>3
  <2> QED BY <2>1, <2>2
<1>13. ASSUME NEW k \in 1 .. n + 1 PROVE Reached(st, r[k]) /\ g[r[1]] <= g[r[k]]
  <2>1. CASE k = 1
    BY <1>5, <1>6, <1>9, <2>1
  <2>2. CASE k # 1
    BY <1>2, <1>8, <1>9, <1>10, <2>2
  <2> QED BY <2>1, <2>2
<1>14. ASSUME NEW i \in 1 .. n + 1, NEW j \in 1 .. n + 1, r[i] = r[j] PROVE i = j
  <2>1. CASE i = 1 /\ j = 1
    BY <2>1
  <2>2. CASE i = 1 /\ j # 1
    BY <1>8, <1>9, <1>10, <1>14, <2>2
  <2>3. CASE i # 1 /\ j = 1
    BY <1>8, <1>9, <1>10, <1>14, <2>3
  <2>4. CASE i # 1 /\ j # 1
    <3>1. i - 1 \in 1 .. n /\ j - 1 \in 1 .. n /\ p[i - 1] = p[j - 1]
      BY <1>10, <1>14, <2>4
    <3>2. i - 1 = j - 1
      BY <1>2, <3>1
    <3> QED BY <3>2
  <2> QED BY <2>1, <2>2, <2>3, <2>4
<1>15. u # Nil
  BY <1>5, PathAssumption
<1>16. (n + 1) - 1 = n /\ n + 1 \in Nat \ {0}
  BY <1>2
<1> QED BY <1>1, <1>9, <1>11, <1>12, <1>13, <1>14, <1>15, <1>16 DEF Chain

LEMMA ReconstructIs ==
  ASSUME NEW st, NEW closed, Sound(st, closed), Begun, Reached(st, goal), st.cameFrom = cameFrom
  PROVE  Trail(st, ReconstructPath(goal))
<1> DEFINE n == Cardinality(Tiles)
           S == {p \in Seq(Tiles) : Chain(st, p)}
           step == [k \in 1 .. n |-> [p \in S |-> ComesFrom(p)]]
           Eq(f) == f = [k \in 0 .. n |-> IF k = 0 THEN <<goal>> ELSE ComesFrom(f[k - 1])]
           trail == CHOOSE f : Eq(f)
<1>1. n \in Nat /\ goal \in Tiles /\ st.cameFrom[start] = Nil
  BY TilesFinite, WalkableTile DEF Sound, Begun
<1>2. <<goal>> \in S /\ Len(<<goal>>) = 1
  <2>1. PICK p : p = <<goal>>
    OBVIOUS
  <2>2. p \in Seq(Tiles) /\ Len(p) = 1 /\ p[1] = goal
    BY <1>1, <2>1
  <2>3. st.gScore[goal] \in Nat
    BY <1>1, SoundNumbers
  <2>4. \A i \in 1 .. Len(p) : i = 1
    BY <2>2
  <2>5. Len(p) \in Nat \ {0} /\ p[Len(p)] = goal /\ \A i \in 1 .. Len(p) - 1 : FALSE
    BY <2>2
  <2>6. \A i \in 1 .. Len(p) : Reached(st, p[i]) /\ st.gScore[p[1]] <= st.gScore[p[i]]
    BY <2>2, <2>3, <2>4
  <2>7. Chain(st, p)
    BY <2>2, <2>4, <2>5, <2>6 DEF Chain
  <2> QED BY <2>1, <2>2, <2>7
<1>3. ASSUME NEW p \in S
      PROVE  /\ ComesFrom(p) \in S
             /\ p[1] = start => ComesFrom(p) = p
             /\ p[1] # start => Len(ComesFrom(p)) = Len(p) + 1
             /\ Len(p) \in 1 .. n
  <2>1. Chain(st, p) /\ p \in Seq(Tiles) /\ Len(p) \in Nat \ {0}
    BY DEF Chain
  <2>2. Head(p) = p[1]
    <3>1. p # <<>>
      BY <2>1, EmptySeq
    <3> QED BY <2>1, <3>1
  <2>3. PICK u, r : u = cameFrom[p[1]] /\ r = <<u>> \o p
    OBVIOUS
  <2>4. ComesFrom(p) = IF u = Nil THEN p ELSE r
    BY <2>2, <2>3 DEF ComesFrom
  <2>5. CASE p[1] = start
    <3>1. u = Nil
      BY <1>1, <2>3, <2>5
    <3>2. ComesFrom(p) = p
      BY <2>4, <3>1
    <3>3. Len(p) <= n
      BY <2>1, PigeonHole DEF Chain
    <3> QED BY <1>1, <2>1, <2>5, <3>2, <3>3
  <2>6. CASE p[1] # start
    <3>1. u # Nil /\ Chain(st, r) /\ Len(r) = Len(p) + 1
      BY <2>1, <2>3, <2>6, ChainGrows
    <3>2. ComesFrom(p) = r /\ r \in Seq(Tiles)
      BY <2>4, <3>1 DEF Chain
    <3>3. Len(p) <= n
      BY <2>1, PigeonHole DEF Chain
    <3> QED BY <1>1, <2>1, <2>6, <3>1, <3>2, <3>3
  <2> QED BY <2>5, <2>6
<1>4. step \in [1 .. n -> [S -> S]]
  BY <1>3
<1> HIDE DEF S, n
<1>5. \E f : IsLoop(n, S, <<goal>>, step, f)
  <2> HIDE DEF step
  <2> QED BY <1>1, <1>2, <1>4, LoopExists DEF Rounds
<1>6. PICK f : f \in [0 .. n -> S] /\ f[0] = <<goal>> /\ \A k \in 1 .. n : f[k] = step[k][f[k - 1]]
  BY <1>5 DEF IsLoop
<1>7. ASSUME NEW k \in 0 .. n PROVE f[k] = IF k = 0 THEN <<goal>> ELSE ComesFrom(f[k - 1])
  <2>1. CASE k = 0
    BY <1>6, <2>1
  <2>2. CASE k # 0
    <3>1. k \in 1 .. n /\ k - 1 \in 0 .. n
      BY <1>1, <2>2
    <3>2. f[k - 1] \in S /\ f[k] = step[k][f[k - 1]]
      BY <1>6, <3>1
    <3> QED BY <2>2, <3>1, <3>2
  <2> QED BY <2>1, <2>2
<1>8. Eq(f)
  <2>1. f = [k \in 0 .. n |-> f[k]]
    BY <1>6
  <2> QED BY <1>7, <2>1
<1>9. Eq(trail)
  <2> HIDE DEF Eq
  <2> QED BY <1>8, Zenon
<1>10. trail[0] = <<goal>> /\ \A k \in 1 .. n : trail[k] = ComesFrom(trail[k - 1])
  <2>1. \A k \in 0 .. n : trail[k] = IF k = 0 THEN <<goal>> ELSE ComesFrom(trail[k - 1])
    <3> HIDE DEF trail
    <3> QED BY <1>9
  <2> HIDE DEF trail
  <2>2. \A k \in 1 .. n : k \in 0 .. n /\ k # 0
    BY <1>1
  <2> QED BY <1>1, <2>1, <2>2
<1>11. ReconstructPath(goal) = trail[n]
  BY DEF ReconstructPath, n
<1> HIDE DEF trail
<1> DEFINE T == {k \in 0 .. n : trail[k] \in S /\ (trail[k][1] = start \/ Len(trail[k]) = k + 1)}
<1>12. 0 \in T
  BY <1>1, <1>2, <1>10
<1>13. ASSUME NEW k \in 1 .. n, k - 1 \in T PROVE k \in T
  <2>1. PICK p, r : p = trail[k - 1] /\ r = trail[k]
    OBVIOUS
  <2>2. p \in S /\ (p[1] = start \/ Len(p) = (k - 1) + 1) /\ r = ComesFrom(p)
    BY <1>10, <1>13, <2>1
  <2>3. r \in S /\ (p[1] = start => r = p) /\ (p[1] # start => Len(r) = Len(p) + 1)
    BY <1>3, <2>2
  <2>4. r[1] = start \/ Len(r) = k + 1
    <3>1. (k - 1) + 1 = k
      BY <1>1
    <3> QED BY <2>2, <2>3, <3>1
  <2> QED BY <1>1, <2>1, <2>3, <2>4
<1>14. n \in T
  <2> HIDE DEF T
  <2>1. \A k \in 0 .. n : k \in T
    BY <1>1, <1>12, <1>13, LoopInduction
  <2> QED BY <1>1, <2>1
<1>15. PICK p : p = trail[n]
  OBVIOUS
<1>16. p \in S /\ (p[1] = start \/ Len(p) = n + 1)
  BY <1>14, <1>15
<1>17. Len(p) \in 1 .. n /\ p[1] = start
  <2>1. Len(p) \in 1 .. n
    BY <1>3, <1>16
  <2> QED BY <1>1, <1>16, <2>1
<1> QED BY <1>11, <1>15, <1>16, <1>17 DEF Trail, Chain, S, n

-----------------------------------------------------------------------------
(* The invariant is one of every step.                                      *)
LEMMA MapUnchanged ==
  ASSUME UNCHANGED args
  PROVE  /\ \A s, t : LegalStep(s, t)' <=> LegalStep(s, t)
         /\ \A s, t : Distance(s, t)' = Distance(s, t)
         /\ \A s, t : Cost(s, t)' = Cost(s, t)
         /\ \A t : IsWalkable(t)' <=> IsWalkable(t)
         /\ start' = start /\ goal' = goal
BY DEF args, LegalStep, Touches, Cost, Distance, IsWalkable, SquareDistance, HexDistance

LEMMA SearchUnchanged ==
  ASSUME UNCHANGED args, NEW st, NEW c, NEW p
  PROVE  /\ Begun' <=> Begun
         /\ Explored(st, c)' <=> Explored(st, c)
         /\ Trail(st, p)' <=> Trail(st, p)
BY MapUnchanged DEF Begun, Explored, Sound, Linked, Complete, Trail, Estimate, Reached

LEMMA InitInv ==
  ASSUME Init
  PROVE  PathInv
<1>1. /\ kind \in Kinds /\ walls \subseteq WallSites /\ start \in Starts /\ goal \in Goals
      /\ done = ~ Begun /\ done \in BOOLEAN /\ closedSet = {}
      /\ cameFrom = [t \in Tiles |-> Nil]
      /\ gScore = [t \in Tiles |-> IF t = start /\ ~ done THEN 0 ELSE Nil]
      /\ openSet = IF done THEN EmptyQueue ELSE Push(EmptyQueue, start, Distance(start, goal))
      /\ path = Nil
  BY DEF Init, Begun
<1>2. ASSUME ~ Begun
      PROVE  done /\ openSet = EmptyQueue /\ gScore = [t \in Tiles |-> Nil]
  BY <1>1, <1>2
<1>3. ASSUME Begun PROVE Explored(This, {})
  <2>1. /\ start \in Tiles /\ goal \in Tiles /\ ~ done /\ IsWalkable(start)
        /\ gScore = [t \in Tiles |-> IF t = start THEN 0 ELSE Nil]
    BY <1>1, <1>3, WalkableTile DEF Begun
  <2>2. PICK d : d = Distance(start, goal)
    OBVIOUS
  <2>3. d \in Nat /\ 0 # Nil
    BY <2>1, <2>2, DistanceIs, PathAssumption
  <2>4. openSet = Push(EmptyQueue, start, d)
    BY <1>1, <2>1, <2>2
  <2>5. Pushed(EmptyQueue, start, d, openSet)
    BY <2>1, <2>3, <2>4, EmptyIs, PushIs
  <2>6. /\ Good(openSet) /\ Holds(openSet, start) /\ Priority(openSet, start) = d
        /\ \A t \in Tiles : t # start => ~ Holds(openSet, t)
    BY <2>5, EmptyIs DEF Pushed, SameBut
  <2>7. /\ This.openSet = openSet /\ This.cameFrom = cameFrom /\ This.gScore = gScore
        /\ This = [openSet |-> openSet, cameFrom |-> cameFrom, gScore |-> gScore]
    BY DEF This
  <2>8. /\ cameFrom \in [Tiles -> Tiles \cup {Nil}] /\ gScore \in [Tiles -> Nat \cup {Nil}]
        /\ gScore[start] = 0 /\ cameFrom[start] = Nil
        /\ \A t \in Tiles : t # start => gScore[t] = Nil
    BY <1>1, <2>1
  <2>9. This \in SearchStates
    <3>1. openSet \in Queue
      BY <2>6 DEF Good
    <3>2. [openSet |-> openSet, cameFrom |-> cameFrom, gScore |-> gScore] \in SearchStates
      BY <2>8, <3>1, Zenon DEF SearchStates
    <3> QED BY <2>7, <3>2
  <2>10. ASSUME NEW t \in Tiles
         PROVE  /\ Reached(This, t) <=> t = start
                /\ Holds(openSet, t) <=> t = start
    BY <2>3, <2>6, <2>7, <2>8 DEF Reached
  <2>11. Estimate(This, start) = d
    BY <2>2, <2>3, <2>7, <2>8 DEF Estimate
  <2>12. Sound(This, {})
    BY <2>1, <2>6, <2>7, <2>8, <2>9, <2>10, <2>11 DEF Sound
  <2> QED BY <2>12 DEF Explored
<1> QED BY <1>1, <1>2, <1>3 DEF PathInv

LEMMA StepInv ==
  ASSUME PathInv, [Next]_vars
  PROVE  PathInv'
<1>1. /\ kind \in Kinds /\ walls \subseteq WallSites /\ start \in Starts /\ goal \in Goals
      /\ done \in BOOLEAN /\ kind \in MapKinds
  BY PathAssumption DEF PathInv
<1>2. ASSUME UNCHANGED args
      PROVE  /\ kind' \in Kinds /\ walls' \subseteq WallSites /\ start' \in Starts /\ goal' \in Goals
             /\ goal' = goal /\ (Begun' <=> Begun)
  BY <1>1, <1>2, SearchUnchanged DEF args
<1>3. PICK st, closed : st = This' /\ closed = closedSet'
  OBVIOUS
<1>4. CASE Expand
  <2>1. /\ ~ done /\ openSet.heap # <<>> /\ Current # goal /\ UNCHANGED args
        /\ closed = closedSet \cup {Current} /\ path' = path /\ done' = done
        /\ st = [openSet  |-> Expanded(Current, GetNeighbors(Current)).openSet,
                 cameFrom |-> Expanded(Current, GetNeighbors(Current)).cameFrom,
                 gScore   |-> Expanded(Current, GetNeighbors(Current)).gScore]
    BY <1>3, <1>4 DEF Expand, This
  <2>2. Begun /\ Explored(This, closedSet) /\ path = Nil /\ goal \notin closedSet
    BY <2>1 DEF PathInv
  <2>3. PICK e : e = Expanded(Current, GetNeighbors(Current))
    OBVIOUS
  <2>4. Explored(e, closed)
    BY <1>1, <2>1, <2>2, <2>3, ExpandKeeps
  <2>5. e = st
    <3>1. e \in [openSet : Queue, cameFrom : [Tiles -> Tiles \cup {Nil}], gScore : [Tiles -> Nat \cup {Nil}]]
      BY <2>4 DEF Explored, Sound, SearchStates
    <3>2. e = [openSet |-> e.openSet, cameFrom |-> e.cameFrom, gScore |-> e.gScore]
      BY <3>1
    <3> QED BY <2>1, <2>3, <3>2
  <2>6. Explored(st, closed)'
    BY <2>1, <2>4, <2>5, SearchUnchanged
  <2>7. Explored(This, closedSet)'
    BY <1>3, <2>6
  <2>8. goal' \notin closedSet'
    BY <1>2, <1>3, <2>1, <2>2
  <2> QED BY <1>1, <1>2, <2>1, <2>2, <2>7, <2>8 DEF PathInv
<1>5. CASE Found
  <2>1. /\ ~ done /\ openSet.heap # <<>> /\ Current = goal /\ UNCHANGED args
        /\ closed = closedSet \cup {goal} /\ path' = ReconstructPath(goal) /\ done' = TRUE
        /\ st = Taken
    BY <1>3, <1>5 DEF Found, This, Taken
  <2>2. Begun /\ Explored(This, closedSet)
    BY <2>1 DEF PathInv
  <2>3. Explored(st, closed)
    BY <1>1, <2>1, <2>2, FoundKeeps
  <2>4. Sound(st, closed) /\ goal \in Tiles /\ goal \in closed /\ Reached(st, goal)
        /\ st.cameFrom = cameFrom
    BY <2>1, <2>2, <2>3, WalkableTile DEF Explored, Sound, Begun, Taken
  <2>5. PICK p : p = path'
    OBVIOUS
  <2>6. Trail(st, p)
    BY <2>1, <2>2, <2>4, <2>5, ReconstructIs
  <2>7. Explored(st, closed)' /\ Trail(st, p)'
    BY <2>1, <2>3, <2>6, SearchUnchanged
  <2>8. Explored(This, closedSet)' /\ Trail(This, path)'
    BY <1>3, <2>5, <2>7
  <2>9. p # Nil /\ goal' \in closedSet'
    <3>1. ASSUME p = Nil PROVE FALSE
      <4>1. p \in Seq(Tiles)
        BY <2>6 DEF Trail
      <4> QED BY <3>1, <4>1, PathAssumption
    <3> QED BY <1>2, <1>3, <2>1, <3>1
  <2> QED BY <1>1, <1>2, <2>1, <2>2, <2>5, <2>8, <2>9 DEF PathInv
<1>6. CASE NotFound
  <2>1. /\ ~ done /\ openSet.heap = <<>> /\ UNCHANGED <<args, openSet, closedSet, cameFrom, gScore, path>>
        /\ done' = TRUE /\ UNCHANGED args /\ st = This /\ closed = closedSet
    BY <1>3, <1>6 DEF NotFound, This
  <2>2. Begun /\ Explored(This, closedSet) /\ path = Nil /\ goal \notin closedSet
    BY <2>1 DEF PathInv
  <2>3. ASSUME NEW t \in Tiles, Holds(openSet, t) PROVE FALSE
    <3>1. Placed(openSet)
      BY <2>2 DEF Explored, Sound, Good, This
    <3>2. openSet.positionMap[t] \in 1 .. Len(openSet.heap)
      BY <2>3, <3>1 DEF Placed, Holds
    <3> QED BY <2>1, <3>2
  <2>4. Explored(This, closedSet)'
    <3>1. Explored(st, closed)'
      BY <2>1, <2>2, SearchUnchanged
    <3> QED BY <1>3, <3>1
  <2>5. \A t \in Tiles : ~ Holds(openSet', t)
    BY <2>1, <2>3
  <2> QED BY <1>1, <1>2, <1>3, <2>1, <2>2, <2>4, <2>5 DEF PathInv
<1>7. CASE UNCHANGED vars
  <2>1. /\ UNCHANGED args /\ st = This /\ closed = closedSet /\ path' = path /\ done' = done
        /\ openSet' = openSet /\ cameFrom' = cameFrom /\ gScore' = gScore /\ closedSet' = closedSet
    BY <1>3, <1>7 DEF vars, This
  <2>2. CASE ~ Begun
    BY <1>1, <1>2, <2>1, <2>2 DEF PathInv
  <2>3. CASE Begun
    <3>1. PICK p : p = path
      OBVIOUS
    <3>2. Explored(st, closed) /\ (p # Nil => Trail(st, p))
      BY <2>1, <2>3, <3>1 DEF PathInv
    <3>3. Explored(st, closed)' /\ (p # Nil => Trail(st, p)')
      BY <2>1, <3>2, SearchUnchanged
    <3>4. Explored(This, closedSet)' /\ (path' # Nil => Trail(This, path)')
      BY <1>3, <2>1, <3>1, <3>3
    <3> QED BY <1>1, <1>2, <2>1, <2>3, <3>4 DEF PathInv
  <2> QED BY <2>2, <2>3
<1> QED BY <1>4, <1>5, <1>6, <1>7 DEF Next

LEMMA PathInvariant == Spec => []PathInv
<1>1. Init => PathInv
  BY InitInv
<1>2. PathInv /\ [Next]_vars => PathInv'
  BY StepInv
<1> QED BY <1>1, <1>2, PTL DEF Spec

(* What the invariant says whether FindPath searches or not.                *)
LEMMA SearchFields ==
  ASSUME PathInv
  PROVE  /\ Good(openSet) /\ closedSet \subseteq Tiles
         /\ cameFrom \in [Tiles -> Tiles \cup {Nil}] /\ gScore \in [Tiles -> Nat \cup {Nil}]
         /\ \A t \in Tiles : Holds(openSet, t) => t \notin closedSet
<1>1. CASE ~ Begun
  BY <1>1, EmptyIs DEF PathInv
<1>2. CASE Begun
  <2>1. Sound(This, closedSet)
    BY <1>2 DEF PathInv, Explored
  <2> QED BY <2>1 DEF Sound, SearchStates, This
<1> QED BY <1>1, <1>2

LEMMA TypeFollows ==
  ASSUME PathInv
  PROVE  TypeOK
<1>1. openSet.heap \in Seq(Node) /\ openSet.positionMap \in [Tiles -> Nat \cup {Nil}]
  BY SearchFields, QueueType DEF Good
<1>2. path \in Seq(Tiles) \cup {Nil}
  BY DEF PathInv, Trail
<1> QED BY <1>1, <1>2, SearchFields DEF TypeOK, PathInv

(* Every variable of the search keeps its type.                             *)
THEOREM TypeCorrect == Spec => []TypeOK
<1>1. PathInv => TypeOK
  BY TypeFollows
<1> QED BY <1>1, PathInvariant, PTL

(* The queue of FindPath is a heap with the right positions after any mix   *)
(* of Push, Pop and changes of priority, and holds no closed tile.          *)
THEOREM QueueIsHeap == Spec => []HeapOrdered
<1>1. PathInv => HeapOrdered
  BY SearchFields DEF HeapOrdered, Good, Placed, Ordered, Holds
<1> QED BY <1>1, PathInvariant, PTL

LEMMA PathIsLegal ==
  ASSUME PathInv
  PROVE  LegalPath
<1> SUFFICES ASSUME path # Nil
             PROVE  /\ path[1] = start /\ path[Len(path)] = goal
                    /\ \A i \in 1 .. Len(path) - 1 : LegalStep(path[i], path[i + 1])
                    /\ \A i, j \in 1 .. Len(path) : path[i] = path[j] => i = j
  BY DEF LegalPath
<1>1. Sound(This, closedSet) /\ Trail(This, path)
  BY DEF PathInv, Explored
<1>2. ASSUME NEW i \in 1 .. Len(path) - 1 PROVE LegalStep(path[i], path[i + 1])
  <2>1. i \in 1 .. Len(path) /\ i + 1 \in 1 .. Len(path) /\ path \in Seq(Tiles)
    BY <1>1 DEF Trail
  <2>2. PICK s, t : s = path[i] /\ t = path[i + 1]
    OBVIOUS
  <2>3. s \in Tiles /\ t \in Tiles /\ Reached(This, t) /\ s = This.cameFrom[t]
    BY <1>1, <2>1, <2>2, ElementOfSeq DEF Trail
  <2>4. t # start
    BY <1>1, <2>3, PathAssumption DEF Sound
  <2>5. Linked(This, closedSet, t)
    BY <1>1, <2>3, <2>4 DEF Sound
  <2> QED BY <2>2, <2>3, <2>5 DEF Linked
<1> QED BY <1>1, <1>2 DEF Trail

(* A path that FindPath returns leads from the start to the goal in legal   *)
(* steps and through no tile twice.                                        *)
THEOREM PathsAreLegal == Spec => []LegalPath
<1>1. PathInv => LegalPath
  BY PathIsLegal
<1> QED BY <1>1, PathInvariant, PTL

-----------------------------------------------------------------------------
(* The path is a cheapest one: the definition of the cheapest ways.         *)
Ways == SUBSET (Tiles \X Nat)

Longer(ways) ==
  ways \cup UNION {{<<t, w[2] + Cost(w[1], t)>> : t \in {t \in Tiles : LegalStep(w[1], t)}} : w \in ways}

LEMMA WayIs ==
  ASSUME NEW ways \in Ways, NEW w \in ways
  PROVE  w = <<w[1], w[2]>> /\ w[1] \in Tiles /\ w[2] \in Nat
BY DEF Ways

LEMMA LongerIs ==
  ASSUME NEW ways \in Ways
  PROVE  /\ Longer(ways) \in Ways /\ ways \subseteq Longer(ways)
         /\ \A v \in ways, t \in Tiles :
              LegalStep(v[1], t) => <<t, v[2] + Cost(v[1], t)>> \in Longer(ways)
         /\ \A w \in Longer(ways) :
              \/ w \in ways
              \/ \E v \in ways : /\ LegalStep(v[1], w[1]) /\ w[2] = v[2] + Cost(v[1], w[1])
                                 /\ w[1] \in Tiles
<1> DEFINE From(w) == {<<t, w[2] + Cost(w[1], t)>> : t \in {t \in Tiles : LegalStep(w[1], t)}}
<1>1. Longer(ways) = ways \cup UNION {From(w) : w \in ways}
  BY DEF Longer
<1>2. ASSUME NEW v \in ways, NEW w \in From(v)
      PROVE  /\ w \in Tiles \X Nat /\ LegalStep(v[1], w[1]) /\ w[2] = v[2] + Cost(v[1], w[1])
             /\ w[1] \in Tiles
  <2>1. PICK t \in Tiles : LegalStep(v[1], t) /\ w = <<t, v[2] + Cost(v[1], t)>>
    OBVIOUS
  <2>2. v[2] \in Nat /\ Cost(v[1], t) \in Nat
    BY WayIs, CostIs
  <2> QED BY <2>1, <2>2
<1>3. ASSUME NEW v \in ways, NEW t \in Tiles, LegalStep(v[1], t)
      PROVE  <<t, v[2] + Cost(v[1], t)>> \in From(v)
  BY <1>3
<1> HIDE DEF From
<1>4. Longer(ways) \in Ways
  BY <1>1, <1>2 DEF Ways
<1>5. ASSUME NEW w \in Longer(ways), w \notin ways
      PROVE  \E v \in ways : /\ LegalStep(v[1], w[1]) /\ w[2] = v[2] + Cost(v[1], w[1])
                             /\ w[1] \in Tiles
  <2>1. PICK v \in ways : w \in From(v)
    BY <1>1, <1>5
  <2> QED BY <1>2, <2>1
<1> QED BY <1>1, <1>3, <1>4, <1>5

LEMMA BetterIs ==
  ASSUME NEW ways \in Ways
  PROVE  /\ Better(ways) \in Ways /\ Better(ways) \subseteq Longer(ways)
         /\ \A v, w \in Better(ways) : v[1] = w[1] => v[2] = w[2]
         /\ \A v \in Longer(ways) : \E w \in Better(ways) : w[1] = v[1] /\ w[2] <= v[2]
<1>1. PICK longer : longer = Longer(ways)
  OBVIOUS
<1>2. longer \in Ways
  BY <1>1, LongerIs
<1>3. Better(ways) = {w \in longer : \A v \in longer : v[1] = w[1] => w[2] <= v[2]}
  BY <1>1 DEF Better, Longer
<1>4. Better(ways) \in Ways /\ Better(ways) \subseteq longer
  BY <1>2, <1>3 DEF Ways
<1>5. ASSUME NEW v \in Better(ways), NEW w \in Better(ways), v[1] = w[1] PROVE v[2] = w[2]
  <2>1. v[2] <= w[2] /\ w[2] <= v[2]
    BY <1>3, <1>5
  <2>2. v[2] \in Nat /\ w[2] \in Nat
    BY <1>4, WayIs
  <2> QED BY <2>1, <2>2
<1>6. ASSUME NEW v \in longer PROVE \E w \in Better(ways) : w[1] = v[1] /\ w[2] <= v[2]
  <2> DEFINE Costs == {w[2] : w \in {w \in longer : w[1] = v[1]}}
  <2>1. Costs \in SUBSET Nat
    BY <1>2, WayIs
  <2>2. v[2] \in Costs
    OBVIOUS
  <2>3. PICK x \in Costs : \A y \in Costs : x <= y
    <3> HIDE DEF Costs
    <3>1. Costs # {}
      BY <2>2
    <3> QED BY <2>1, <3>1, LeastNat, Zenon
  <2>4. PICK w \in longer : w[1] = v[1] /\ w[2] = x
    BY <2>3
  <2>5. ASSUME NEW u \in longer, u[1] = w[1] PROVE w[2] <= u[2]
    <3>1. u[2] \in Costs
      BY <2>4, <2>5
    <3> HIDE DEF Costs
    <3> QED BY <2>3, <2>4, <3>1
  <2>6. w \in Better(ways)
    BY <1>3, <2>5
  <2>7. w[2] <= v[2]
    <3> HIDE DEF Costs
    <3> QED BY <2>2, <2>3, <2>4
  <2> QED BY <2>4, <2>6, <2>7
<1> QED BY <1>1, <1>4, <1>5, <1>6

(* The search of the definition, which is made of rounds of Better.         *)
IsSearch(W) ==
  /\ W \in [0 .. Cardinality(Tiles) -> Ways] /\ W[0] = {<<start, 0>>}
  /\ \A k \in 1 .. Cardinality(Tiles) : W[k] = Better(W[k - 1])
  /\ Cheapest = W[Cardinality(Tiles)]

LEMMA CheapestIs ==
  ASSUME start \in Tiles
  PROVE  \E W : IsSearch(W)
<1> DEFINE n == Cardinality(Tiles)
           S == {s \in [ways : Ways, over : BOOLEAN] : s.over => Better(s.ways) = s.ways}
           a == [ways |-> {<<start, 0>>}, over |-> FALSE]
           step == [k \in 1 .. n |-> [s \in S |-> Search(s)]]
           Eq(f) == f = [k \in 0 .. n |-> IF k = 0 THEN [ways |-> {<<start, 0>>}, over |-> FALSE]
                                          ELSE Search(f[k - 1])]
           s == CHOOSE f : Eq(f)
<1>1. n \in Nat
  BY TilesFinite
<1>2. a \in S /\ a.ways = {<<start, 0>>}
  <2>1. {<<start, 0>>} \in Ways
    BY DEF Ways
  <2> QED BY <2>1
<1>3. ASSUME NEW x \in S PROVE Search(x) \in S /\ Search(x).ways = Better(x.ways)
  <2>1. CASE x.over
    <3>1. Search(x) = x
      BY <2>1 DEF Search
    <3> QED BY <2>1, <3>1
  <2>2. CASE ~ x.over
    <3>1. PICK b, r : b = Better(x.ways) /\ r = [ways |-> b, over |-> b = x.ways]
      OBVIOUS
    <3>2. Search(x) = r
      BY <2>2, <3>1 DEF Search
    <3>3. b \in Ways
      BY <3>1, BetterIs
    <3>4. r.ways = b /\ (r.over <=> b = x.ways) /\ r \in [ways : Ways, over : BOOLEAN]
      BY <3>1, <3>3
    <3>5. r.over => Better(r.ways) = r.ways
      BY <3>1, <3>4
    <3> QED BY <3>1, <3>2, <3>4, <3>5
  <2> QED BY <2>1, <2>2
<1>4. step \in [1 .. n -> [S -> S]]
  BY <1>3
<1>5. \A x \in S : x.ways \in Ways
  OBVIOUS
<1> HIDE DEF S, n
<1>6. \E f : IsLoop(n, S, a, step, f)
  <2> HIDE DEF step, a
  <2> QED BY <1>1, <1>2, <1>4, LoopExists DEF Rounds
<1>7. PICK f : f \in [0 .. n -> S] /\ f[0] = a /\ \A k \in 1 .. n : f[k] = step[k][f[k - 1]]
  BY <1>6 DEF IsLoop
<1>8. ASSUME NEW k \in 0 .. n PROVE f[k] = IF k = 0 THEN a ELSE Search(f[k - 1])
  <2>1. CASE k = 0
    BY <1>7, <2>1
  <2>2. CASE k # 0
    <3>1. k \in 1 .. n /\ k - 1 \in 0 .. n
      BY <1>1, <2>2
    <3>2. f[k - 1] \in S /\ f[k] = step[k][f[k - 1]]
      BY <1>7, <3>1
    <3> QED BY <2>2, <3>1, <3>2
  <2> QED BY <2>1, <2>2
<1>9. Eq(f)
  <2>1. f = [k \in 0 .. n |-> f[k]]
    BY <1>7
  <2> QED BY <1>8, <2>1
<1>10. Eq(s)
  <2> HIDE DEF Eq
  <2> QED BY <1>9, Zenon
<1>11. s[0] = a /\ \A k \in 1 .. n : s[k] = Search(s[k - 1])
  <2>1. \A k \in 0 .. n : s[k] = IF k = 0 THEN a ELSE Search(s[k - 1])
    <3> HIDE DEF s
    <3> QED BY <1>10
  <2> HIDE DEF s, a
  <2>2. \A k \in 1 .. n : k \in 0 .. n /\ k # 0
    BY <1>1
  <2> QED BY <1>1, <2>1, <2>2
<1>12. Cheapest = s[n].ways
  BY DEF Cheapest, n
<1> HIDE DEF s, a
<1> DEFINE T == {k \in 0 .. n : s[k] \in S}
<1>13. \A k \in 0 .. n : k \in T
  <2>1. 0 \in T
    BY <1>1, <1>2, <1>11
  <2>2. \A k \in 1 .. n : k - 1 \in T => k \in T
    BY <1>1, <1>3, <1>11
  <2> HIDE DEF T
  <2> QED BY <1>1, <2>1, <2>2, LoopInduction
<1>14. \A k \in 0 .. n : s[k] \in S /\ s[k].ways \in Ways
  BY <1>5, <1>13
<1> DEFINE W == [k \in 0 .. n |-> s[k].ways]
<1>15. W \in [0 .. n -> Ways]
  BY <1>14
<1>16. ASSUME NEW k \in 1 .. n PROVE W[k] = Better(W[k - 1])
  <2>1. k \in 0 .. n /\ k - 1 \in 0 .. n
    BY <1>1
  <2>2. s[k].ways = Better(s[k - 1].ways)
    BY <1>3, <1>11, <1>14, <2>1
  <2> QED BY <2>1, <2>2
<1>17. W[0] = {<<start, 0>>} /\ Cheapest = W[n]
  BY <1>1, <1>2, <1>11, <1>12
<1> HIDE DEF W
<1>18. IsSearch(W)
  BY <1>15, <1>16, <1>17 DEF IsSearch, n
<1> QED BY <1>18

LEMMA SearchInduction ==
  ASSUME NEW W, IsSearch(W), NEW P, {<<start, 0>>} \in P,
         \A k \in 1 .. Cardinality(Tiles) : W[k - 1] \in P => Better(W[k - 1]) \in P
  PROVE  Cheapest \in P
<1> DEFINE n == Cardinality(Tiles)
           T == {k \in 0 .. n : W[k] \in P}
<1>1. n \in Nat
  BY TilesFinite
<1>2. 0 \in T
  <2>1. W[0] = {<<start, 0>>}
    BY DEF IsSearch
  <2>2. W[0] \in P
    BY <2>1, Zenon
  <2> QED BY <1>1, <2>2
<1>3. ASSUME NEW k \in 1 .. n, k - 1 \in T PROVE k \in T
  <2>1. W[k] = Better(W[k - 1]) /\ W[k - 1] \in P
    BY <1>3 DEF IsSearch
  <2>2. W[k] \in P
    BY <2>1
  <2>3. k \in 0 .. n
    BY <1>1
  <2> QED BY <2>2, <2>3
<1>4. n \in T
  <2> HIDE DEF T
  <2>1. \A k \in 0 .. n : k \in T
    <3> HIDE DEF n
    <3> QED BY <1>1, <1>2, <1>3, LoopInduction
  <2> QED BY <1>1, <2>1
<1> QED BY <1>4 DEF IsSearch

LEMMA SearchWays ==
  ASSUME NEW W, IsSearch(W), NEW k \in 1 .. Cardinality(Tiles)
  PROVE  W[k - 1] \in Ways /\ W[k] \in Ways /\ W[k] = Better(W[k - 1])
<1>1. Cardinality(Tiles) \in Nat
  BY TilesFinite
<1>2. k - 1 \in 0 .. Cardinality(Tiles) /\ k \in 0 .. Cardinality(Tiles)
  BY <1>1
<1> QED BY <1>2 DEF IsSearch

(* When the queue is empty, no way leads out of the closed tiles.           *)
LEMMA NoWay ==
  ASSUME Begun, Explored(This, closedSet), goal \notin closedSet,
         \A t \in Tiles : ~ Holds(openSet, t)
  PROVE  CheapestTo(goal) = {}
<1>1. Sound(This, closedSet) /\ start \in Tiles /\ goal \in Tiles /\ closedSet \subseteq Tiles
  BY WalkableTile DEF Explored, Sound, Begun
<1>2. \A t \in Tiles : Reached(This, t) => t \in closedSet
  BY <1>1 DEF Sound, This
<1>3. PICK W : IsSearch(W)
  BY <1>1, CheapestIs
<1> DEFINE P == {ways \in Ways : \A w \in ways : w[1] \in closedSet}
<1>4. {<<start, 0>>} \in P
  <2>1. Reached(This, start)
    BY <1>1, PathAssumption DEF Sound, Reached
  <2> QED BY <1>1, <1>2, <2>1 DEF Ways
<1>5. ASSUME NEW ways \in P PROVE Better(ways) \in P
  <2>1. ways \in Ways /\ \A v \in ways : v[1] \in closedSet
    OBVIOUS
  <2>2. ASSUME NEW w \in Better(ways), w \notin ways PROVE w[1] \in closedSet
    <3>1. w \in Longer(ways)
      BY <2>1, BetterIs
    <3>2. PICK v \in ways : LegalStep(v[1], w[1]) /\ w[1] \in Tiles
      BY <2>1, <2>2, <3>1, LongerIs
    <3>3. v[1] \in closedSet \ {goal}
      BY <2>1
    <3>4. Complete(This, v[1])
      BY <3>3 DEF Explored
    <3> QED BY <1>2, <3>2, <3>4 DEF Complete
  <2>3. Better(ways) \in Ways
    BY <2>1, BetterIs
  <2> QED BY <2>1, <2>2, <2>3
<1> HIDE DEF P
<1>6. Cheapest \in P
  BY <1>3, <1>4, <1>5, SearchInduction
<1>7. \A w \in Cheapest : w[1] \in closedSet
  BY <1>6 DEF P
<1> QED BY <1>7 DEF CheapestTo

(* When the goal is closed, no way to it is cheaper than its score.         *)
LEMMA NotCheaper ==
  ASSUME kind \in MapKinds, Begun, Explored(This, closedSet), goal \in closedSet,
         NEW x \in Cheapest, x[1] = goal
  PROVE  gScore[goal] <= x[2]
<1>1. /\ Sound(This, closedSet) /\ start \in Tiles /\ goal \in Tiles /\ closedSet \subseteq Tiles
      /\ This.gScore = gScore /\ This.openSet = openSet /\ gScore[start] = 0
  BY WalkableTile DEF Explored, Sound, Begun, This
<1>2. \A t \in Tiles : Reached(This, t) <=> Holds(openSet, t) \/ t \in closedSet
  BY <1>1 DEF Sound
<1>3. PICK G : G = gScore[goal]
  OBVIOUS
<1>4. G \in Nat /\ Distance(goal, goal) = 0 /\ Reached(This, goal)
  BY <1>1, <1>2, <1>3, SoundNumbers, DistanceIs
<1>5. \A t \in Tiles : Distance(t, goal) \in Nat
  BY <1>1, DistanceIs
<1>6. ASSUME NEW t \in Tiles, Reached(This, t)
      PROVE  t \in closedSet \/ G <= gScore[t] + Distance(t, goal)
  <2>1. CASE Holds(openSet, t)
    <3>1. Estimate(This, goal) <= Estimate(This, t)
      BY <1>1, <2>1 DEF Explored
    <3> QED BY <1>1, <1>3, <1>4, <3>1 DEF Estimate
  <2> QED BY <1>2, <1>6, <2>1
<1>7. \A t \in Tiles : Reached(This, t) => gScore[t] \in Nat
  BY <1>1, SoundNumbers
<1>8. PICK W : IsSearch(W)
  BY <1>1, CheapestIs
<1> DEFINE Low(w) == \/ w[1] \in closedSet /\ gScore[w[1]] <= w[2]
                     \/ G <= w[2] + Distance(w[1], goal)
           P == {ways \in Ways : \A w \in ways : Low(w)}
<1>9. {<<start, 0>>} \in P
  <2>1. Reached(This, start)
    BY <1>1, PathAssumption DEF Sound, Reached
  <2>2. start \in closedSet \/ G <= 0 + Distance(start, goal)
    BY <1>1, <1>6, <2>1
  <2>3. \A w \in {<<start, 0>>} : w[1] = start /\ w[2] = 0
    OBVIOUS
  <2>4. \A w \in {<<start, 0>>} : Low(w)
    BY <1>1, <2>2, <2>3
  <2>5. {<<start, 0>>} \in Ways
    BY <1>1 DEF Ways
  <2> QED BY <2>4, <2>5
<1>10. ASSUME NEW ways \in P PROVE Better(ways) \in P
  <2>1. ways \in Ways /\ \A v \in ways : Low(v)
    OBVIOUS
  <2> HIDE DEF P
  <2>2. ASSUME NEW w \in Better(ways), w \notin ways PROVE Low(w)
    <3>1. w \in Longer(ways)
      BY <2>1, BetterIs
    <3>2. PICK v \in ways : LegalStep(v[1], w[1]) /\ w[2] = v[2] + Cost(v[1], w[1]) /\ w[1] \in Tiles
      BY <2>1, <2>2, <3>1, LongerIs
    <3>3. PICK s, t, c, d : s = v[1] /\ t = w[1] /\ c = v[2] /\ d = Cost(s, t)
      OBVIOUS
    <3>4. /\ s \in Tiles /\ t \in Tiles /\ c \in Nat /\ d \in Nat /\ LegalStep(s, t) /\ w[2] = c + d
          /\ (s \in closedSet /\ gScore[s] <= c) \/ G <= c + Distance(s, goal)
      BY <2>1, <3>2, <3>3, WayIs, CostIs
    <3>5. Distance(s, goal) <= d + Distance(t, goal)
      BY <1>1, <3>3, <3>4, Consistent
    <3>6. Distance(s, goal) \in Nat /\ Distance(t, goal) \in Nat
      BY <1>5, <3>4
    <3>7. CASE G <= c + Distance(s, goal)
      <4>1. G <= (c + d) + Distance(t, goal)
        BY <1>4, <3>4, <3>5, <3>6, <3>7
      <4> QED BY <3>3, <3>4, <4>1
    <3>8. CASE s \in closedSet /\ s = goal /\ gScore[s] <= c
      <4>1. G <= c + Distance(s, goal)
        BY <1>3, <1>4, <3>4, <3>8
      <4> QED BY <3>7, <4>1
    <3>9. CASE s \in closedSet /\ s # goal /\ gScore[s] <= c
      <4>1. Complete(This, s)
        BY <3>9 DEF Explored
      <4>2. Reached(This, t) /\ gScore[t] <= gScore[s] + d
        BY <1>1, <3>3, <3>4, <4>1 DEF Complete
      <4>3. gScore[s] \in Nat /\ gScore[t] \in Nat
        BY <1>2, <1>7, <3>4, <3>9, <4>2
      <4>4. gScore[t] <= c + d
        BY <3>4, <3>9, <4>2, <4>3
      <4>5. t \in closedSet \/ G <= gScore[t] + Distance(t, goal)
        BY <1>6, <3>4, <4>2
      <4>6. CASE t \in closedSet
        BY <3>3, <3>4, <4>4, <4>6
      <4>7. CASE G <= gScore[t] + Distance(t, goal)
        <5>1. G <= (c + d) + Distance(t, goal)
          BY <1>4, <3>4, <3>6, <4>3, <4>4, <4>7
        <5> QED BY <3>3, <3>4, <5>1
      <4> QED BY <4>5, <4>6, <4>7
    <3> QED BY <3>4, <3>7, <3>8, <3>9
  <2>3. Better(ways) \in Ways
    BY <2>1, BetterIs
  <2> HIDE DEF Low
  <2> QED BY <2>1, <2>2, <2>3 DEF P
<1> HIDE DEF P
<1>11. Cheapest \in P
  BY <1>8, <1>9, <1>10, SearchInduction
<1>12. Low(x) /\ x[2] \in Nat
  <2> HIDE DEF Low
  <2> QED BY <1>11, WayIs DEF P
<1> QED BY <1>3, <1>4, <1>12

(* Along the path that was found there is a way to each tile, no dearer     *)
(* than its score, after as many rounds as there are steps.                 *)
LEMMA AsCheap ==
  ASSUME Begun, Explored(This, closedSet), Trail(This, path)
  PROVE  \E x \in Cheapest : x[1] = goal /\ x[2] <= gScore[goal]
<1>1. /\ Sound(This, closedSet) /\ start \in Tiles /\ goal \in Tiles
      /\ This.gScore = gScore /\ gScore[start] = 0 /\ This.cameFrom[start] = Nil
  BY WalkableTile DEF Explored, Sound, Begun, This
<1>2. PICK n, L : n = Cardinality(Tiles) /\ L = Len(path)
  OBVIOUS
<1>3. /\ n \in Nat /\ path \in Seq(Tiles) /\ L \in 1 .. n /\ path[1] = start /\ path[L] = goal
      /\ \A i \in 1 .. L - 1 : path[i] = This.cameFrom[path[i + 1]]
      /\ \A i \in 1 .. L : Reached(This, path[i])
  BY <1>2, TilesFinite DEF Trail
<1>4. \A i \in 1 .. L : path[i] \in Tiles /\ gScore[path[i]] \in Nat
  <2>1. \A i \in 1 .. L : path[i] \in Tiles
    BY <1>2, <1>3, ElementOfSeq
  <2> QED BY <1>1, <1>3, <2>1, SoundNumbers
<1>5. ASSUME NEW i \in 1 .. L - 1
      PROVE  /\ i \in 1 .. L /\ i + 1 \in 1 .. L /\ LegalStep(path[i], path[i + 1])
             /\ gScore[path[i + 1]] = gScore[path[i]] + Cost(path[i], path[i + 1])
  <2>1. i \in 1 .. L /\ i + 1 \in 1 .. L
    BY <1>3
  <2>2. PICK s, t : s = path[i] /\ t = path[i + 1]
    OBVIOUS
  <2>3. s \in Tiles /\ t \in Tiles /\ s = This.cameFrom[t] /\ Reached(This, t)
    BY <1>3, <1>4, <2>1, <2>2
  <2>4. t # start
    BY <1>1, <2>3, PathAssumption
  <2>5. Linked(This, closedSet, t)
    BY <1>1, <2>3, <2>4 DEF Sound
  <2> QED BY <1>1, <2>1, <2>2, <2>3, <2>5 DEF Linked
<1>6. PICK W : IsSearch(W)
  BY <1>1, CheapestIs
<1> DEFINE Near(k, i) == \E w \in W[k] : w[1] = path[i] /\ w[2] <= gScore[path[i]]
           T == {k \in 0 .. n : \A i \in 1 .. L : i <= k + 1 => Near(k, i)}
<1>7. 0 \in T
  <2>1. <<start, 0>> \in W[0]
    BY <1>6 DEF IsSearch
  <2>2. Near(0, 1)
    BY <1>1, <1>3, <2>1
  <2>3. \A i \in 1 .. L : i <= 0 + 1 => i = 1
    BY <1>3
  <2> HIDE DEF Near
  <2> QED BY <1>3, <2>2, <2>3
<1>8. ASSUME NEW k \in 1 .. n, k - 1 \in T PROVE k \in T
  <2>1. W[k - 1] \in Ways /\ W[k] \in Ways /\ W[k] = Better(W[k - 1])
    BY <1>2, <1>6, SearchWays
  <2>2. \A i \in 1 .. L : i <= k => Near(k - 1, i)
    <3>1. (k - 1) + 1 = k
      BY <1>3
    <3> HIDE DEF Near
    <3> QED BY <1>8, <3>1
  <2>3. ASSUME NEW v \in Longer(W[k - 1])
        PROVE  \E w \in W[k] : w[1] = v[1] /\ w[2] <= v[2] /\ w[2] \in Nat /\ v[2] \in Nat
    <3>1. PICK w \in W[k] : w[1] = v[1] /\ w[2] <= v[2]
      BY <2>1, BetterIs
    <3>2. w[2] \in Nat /\ v[2] \in Nat
      BY <2>1, LongerIs, WayIs
    <3> QED BY <3>1, <3>2
  <2>4. ASSUME NEW i \in 1 .. L, i <= k + 1 PROVE Near(k, i)
    <3>1. CASE i <= k
      <4>1. PICK v \in W[k - 1] : v[1] = path[i] /\ v[2] <= gScore[path[i]]
        BY <2>2, <3>1
      <4>2. v \in Longer(W[k - 1])
        BY <2>1, LongerIs
      <4>3. PICK w \in W[k] : w[1] = v[1] /\ w[2] <= v[2] /\ w[2] \in Nat /\ v[2] \in Nat
        BY <2>3, <4>2
      <4>4. w[2] <= gScore[path[i]]
        BY <1>4, <4>1, <4>3
      <4> QED BY <4>1, <4>3, <4>4
    <3>2. CASE ~ (i <= k)
      <4>1. PICK j : j = i - 1
        OBVIOUS
      <4>2. j \in 1 .. L - 1 /\ j \in 1 .. L /\ j <= k /\ j + 1 = i
        BY <1>3, <2>4, <3>2, <4>1
      <4>3. PICK v \in W[k - 1] : v[1] = path[j] /\ v[2] <= gScore[path[j]]
        BY <2>2, <4>2
      <4>4. PICK s, t, d : s = path[j] /\ t = path[i] /\ d = Cost(s, t)
        OBVIOUS
      <4>5. /\ LegalStep(s, t) /\ gScore[t] = gScore[s] + d /\ t \in Tiles
            /\ gScore[s] \in Nat /\ d \in Nat /\ v[2] \in Nat
        BY <1>4, <1>5, <2>1, <4>2, <4>4, CostIs, WayIs
      <4>6. PICK x : x = <<t, v[2] + d>>
        OBVIOUS
      <4>7. x \in Longer(W[k - 1]) /\ x[1] = t /\ x[2] = v[2] + d
        BY <2>1, <4>3, <4>4, <4>5, <4>6, LongerIs
      <4>8. PICK w \in W[k] : w[1] = x[1] /\ w[2] <= x[2] /\ w[2] \in Nat /\ x[2] \in Nat
        BY <2>3, <4>7
      <4>9. w[2] <= gScore[t]
        BY <4>3, <4>4, <4>5, <4>7, <4>8
      <4> QED BY <4>4, <4>7, <4>8, <4>9
    <3> QED BY <3>1, <3>2
  <2> HIDE DEF Near
  <2> QED BY <1>3, <2>4
<1>9. \A k \in 0 .. n : k \in T
  <2> HIDE DEF T
  <2> QED BY <1>3, <1>7, <1>8, LoopInduction
<1>10. Near(n, L)
  <2> HIDE DEF Near
  <2>1. n \in T /\ L \in 1 .. L /\ L <= n + 1
    BY <1>3, <1>9
  <2> QED BY <2>1
<1>11. Cheapest = W[n]
  BY <1>2, <1>6 DEF IsSearch
<1> QED BY <1>3, <1>10, <1>11

(* What the path costs is what the search has noted of the goal.            *)
LEMMA PathCostIs ==
  ASSUME Begun, Explored(This, closedSet), Trail(This, path)
  PROVE  PathCost = gScore[goal]
<1>1. /\ Sound(This, closedSet) /\ start \in Tiles /\ goal \in Tiles
      /\ This.gScore = gScore /\ gScore[start] = 0 /\ This.cameFrom[start] = Nil
  BY WalkableTile DEF Explored, Sound, Begun, This
<1>2. PICK L : L = Len(path)
  OBVIOUS
<1>3. /\ path \in Seq(Tiles) /\ L \in Nat \ {0} /\ path[1] = start /\ path[L] = goal
      /\ \A i \in 1 .. L - 1 : path[i] = This.cameFrom[path[i + 1]]
      /\ \A i \in 1 .. L : Reached(This, path[i]) /\ path[i] \in Tiles
  <2>1. path \in Seq(Tiles) /\ Len(path) \in Nat
    BY LenProperties DEF Trail
  <2>2. \A i \in 1 .. L : path[i] \in Tiles
    BY <1>2, <2>1, ElementOfSeq
  <2>3. Len(path) # 0
    BY TilesFinite DEF Trail
  <2> QED BY <1>2, <2>1, <2>2, <2>3 DEF Trail
<1>4. ASSUME NEW i \in 2 .. L
      PROVE  gScore[path[i]] = gScore[path[i - 1]] + Cost(path[i - 1], path[i])
  <2>1. PICK j : j = i - 1
    OBVIOUS
  <2>2. j \in 1 .. L - 1 /\ i \in 1 .. L /\ j + 1 = i
    BY <1>3, <2>1
  <2>3. PICK s, t : s = path[j] /\ t = path[i]
    OBVIOUS
  <2>4. t \in Tiles /\ s \in Tiles /\ s = This.cameFrom[t] /\ Reached(This, t)
    <3>1. j \in 1 .. L
      BY <1>3, <2>2
    <3> QED BY <1>3, <2>2, <2>3, <3>1
  <2>5. t # start
    BY <1>1, <2>4, PathAssumption
  <2>6. Linked(This, closedSet, t)
    BY <1>1, <2>4, <2>5 DEF Sound
  <2> QED BY <1>1, <2>1, <2>3, <2>4, <2>6 DEF Linked
<1> DEFINE Eq(f) == f = [i \in 1 .. Len(path) |-> IF i = 1 THEN 0 ELSE f[i - 1] + Cost(path[i - 1], path[i])]
           cost == CHOOSE f : Eq(f)
           f == [i \in 1 .. L |-> gScore[path[i]]]
<1>5. Eq(f)
  <2>1. ASSUME NEW i \in 1 .. L
        PROVE  f[i] = IF i = 1 THEN 0 ELSE f[i - 1] + Cost(path[i - 1], path[i])
    <3>1. CASE i = 1
      BY <1>1, <1>3, <3>1
    <3>2. CASE i # 1
      <4>1. i \in 2 .. L /\ i - 1 \in 1 .. L
        BY <1>3, <3>2
      <4> QED BY <1>4, <3>2, <4>1
    <3> QED BY <3>1, <3>2
  <2>2. f = [i \in 1 .. L |-> f[i]]
    OBVIOUS
  <2> HIDE DEF f
  <2> QED BY <1>2, <2>1, <2>2
<1> HIDE DEF f
<1>6. Eq(cost)
  <2> HIDE DEF Eq
  <2> QED BY <1>5, Zenon
<1>7. PathCost = cost[L]
  BY <1>2 DEF PathCost
<1>8. \A i \in 1 .. L : cost[i] = IF i = 1 THEN 0 ELSE cost[i - 1] + Cost(path[i - 1], path[i])
  <2> HIDE DEF cost
  <2> QED BY <1>2, <1>6
<1> HIDE DEF cost
<1> DEFINE m == L - 1
           T == {k \in 0 .. m : cost[k + 1] = gScore[path[k + 1]]}
<1>9. m \in Nat /\ L = m + 1
  BY <1>3
<1>10. 0 \in T
  <2>1. 1 \in 1 .. L
    BY <1>3
  <2>2. cost[1] = 0
    BY <1>8, <2>1
  <2> QED BY <1>1, <1>3, <1>9, <2>2
<1>11. ASSUME NEW k \in 1 .. m, k - 1 \in T PROVE k \in T
  <2>1. k + 1 \in 2 .. L /\ k + 1 \in 1 .. L /\ k + 1 # 1 /\ (k + 1) - 1 = k /\ (k - 1) + 1 = k
    BY <1>9
  <2>2. cost[k] = gScore[path[k]]
    BY <1>11, <2>1
  <2>3. cost[k + 1] = cost[k] + Cost(path[k], path[k + 1])
    BY <1>8, <2>1
  <2>4. gScore[path[k + 1]] = gScore[path[k]] + Cost(path[k], path[k + 1])
    BY <1>4, <2>1
  <2>5. k \in 0 .. m
    BY <1>9
  <2> QED BY <2>2, <2>3, <2>4, <2>5
<1>12. m \in T
  <2> HIDE DEF T, m
  <2>1. \A k \in 0 .. m : k \in T
    BY <1>9, <1>10, <1>11, LoopInduction
  <2> QED BY <1>9, <2>1
<1> QED BY <1>3, <1>7, <1>9, <1>12

LEMMA PathIsShortest ==
  ASSUME PathInv
  PROVE  Shortest
<1> SUFFICES ASSUME done, Begun
             PROVE  CheapestTo(goal) = IF path = Nil THEN {} ELSE {PathCost}
  BY DEF Shortest, Begun
<1>1. Explored(This, closedSet) /\ kind \in MapKinds
  BY PathAssumption DEF PathInv
<1>2. CASE path = Nil
  <2>1. goal \notin closedSet /\ \A t \in Tiles : ~ Holds(openSet, t)
    BY <1>2 DEF PathInv
  <2> QED BY <1>1, <1>2, <2>1, NoWay
<1>3. CASE path # Nil
  <2>1. goal \in closedSet /\ Trail(This, path)
    BY <1>3 DEF PathInv
  <2>2. PICK G : G = gScore[goal]
    OBVIOUS
  <2>3. PathCost = G
    BY <1>1, <2>1, <2>2, PathCostIs
  <2>4. PICK x \in Cheapest : x[1] = goal /\ x[2] <= G
    BY <1>1, <2>1, <2>2, AsCheap
  <2>5. start \in Tiles
    BY WalkableTile DEF Begun
  <2>6. PICK W : IsSearch(W)
    BY <2>5, CheapestIs
  <2>7. Cardinality(Tiles) \in 1 .. Cardinality(Tiles)
    BY <2>1, TilesFinite DEF Trail
  <2>8. Cheapest \in Ways /\ \A v, w \in Cheapest : v[1] = w[1] => v[2] = w[2]
    <3>1. PICK ways : ways = W[Cardinality(Tiles) - 1]
      OBVIOUS
    <3>2. ways \in Ways /\ Cheapest = Better(ways)
      BY <2>6, <2>7, <3>1, SearchWays DEF IsSearch
    <3> QED BY <3>2, BetterIs
  <2>9. ASSUME NEW w \in Cheapest, w[1] = goal PROVE w[2] = G
    <3>1. G <= x[2]
      BY <1>1, <2>1, <2>2, <2>4, NotCheaper
    <3>2. x[2] \in Nat /\ G \in Nat
      <4>1. Sound(This, closedSet) /\ goal \in Tiles /\ Reached(This, goal)
        BY <1>1, <2>1, WalkableTile DEF Explored, Sound, Begun
      <4>2. This.gScore[goal] \in Nat
        BY <4>1, SoundNumbers
      <4> QED BY <2>2, <2>8, <4>2, WayIs DEF This
    <3>3. w[2] = x[2]
      BY <2>4, <2>8, <2>9
    <3> QED BY <2>4, <3>1, <3>2, <3>3
  <2>10. CheapestTo(goal) = {G}
    BY <2>4, <2>9 DEF CheapestTo
  <2> QED BY <1>3, <2>3, <2>10
<1> QED BY <1>2, <1>3

(* FindPath finds a path whenever there is one, and no other is cheaper.    *)
THEOREM PathsAreShortest == Spec => []Shortest
<1>1. PathInv => Shortest
  BY PathIsShortest
<1> QED BY <1>1, PathInvariant, PTL
====
