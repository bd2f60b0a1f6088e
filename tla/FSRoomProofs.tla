---------------------------- MODULE FSRoomProofs ----------------------------
(***************************************************************************)
(* Proofs about the rooms for every set of users and rooms and every bound: *)
(* type correctness, and what their two recursive functions compute, from   *)
(* which follow that GetFramesSince returns the rest of the history and     *)
(* that every accepted command is run once; and that no game goes on in an  *)
(* empty room.                                                             *)
(***************************************************************************)
EXTENDS FSRoomProps, TLAPS, WellFoundedInduction, SequenceTheorems, FiniteSetTheorems

-----------------------------------------------------------------------------
(* Induction, stated of a set of numbers: a set can be an argument of a     *)
(* theorem where a predicate cannot.                                       *)
Less == {p \in Nat \X Nat : p[1] < p[2]}

LEMMA LessWellFounded == IsWellFoundedOn(Less, Nat)
<1>1. IsWellFoundedOn({p \in Nat \X Nat : p[1] < p[2]}, Nat)
  BY NatLessThanWellFounded, Zenon DEF OpToRel
<1> QED BY <1>1, Zenon DEF Less

LEMMA LeastNat ==
  ASSUME NEW T \in SUBSET Nat, T # {}
  PROVE  \E x \in T : \A y \in T : x <= y
<1>1. PICK x \in T : \A y \in T : ~ (<<y, x>> \in Less)
  BY LessWellFounded, WFMin, Zenon
<1>2. ASSUME NEW y \in T PROVE x <= y
  <2>1. x \in Nat /\ y \in Nat /\ <<y, x>> \notin Less
    BY <1>1
  <2>2. ~ (<<y, x>>[1] < <<y, x>>[2])
    BY <2>1, Zenon DEF Less
  <2> QED BY <2>1, <2>2
<1> QED BY <1>2

LEMMA NatSetInduction ==
  ASSUME NEW S \in SUBSET Nat, 0 \in S, \A n \in S : n + 1 \in S
  PROVE  S = Nat
<1> SUFFICES ASSUME S # Nat PROVE FALSE
  OBVIOUS
<1>1. PICK x \in Nat \ S : \A y \in Nat \ S : x <= y
  BY LeastNat
<1>2. x # 0 /\ x - 1 \in Nat /\ x - 1 \in S
  BY <1>1
<1> QED BY <1>2

-----------------------------------------------------------------------------
(* The two recursive functions.                                            *)

(* g runs the first n frames of a history.                                  *)
Runs(history, n, g) ==
  g = [i \in 0 .. n |-> IF i = 0 THEN <<>> ELSE g[i - 1] \o history[i].commands]

LEMMA RunsExists ==
  ASSUME NEW h
  PROVE  \A n \in Nat : \E g : Runs(h, n, g)
<1> DEFINE S == {n \in Nat : \E g : Runs(h, n, g)}
<1>1. 0 \in S
  <2> DEFINE g == [i \in 0 .. 0 |-> <<>>]
  <2>1. g = [i \in 0 .. 0 |-> IF i = 0 THEN <<>> ELSE g[i - 1] \o h[i].commands]
    OBVIOUS
  <2> HIDE DEF g
  <2> QED BY <2>1 DEF Runs
<1>2. ASSUME NEW n \in S PROVE n + 1 \in S
  <2>1. PICK f : Runs(h, n, f)
    OBVIOUS
  <2> DEFINE g == [i \in 0 .. n + 1 |-> IF i = n + 1 THEN f[n] \o h[n + 1].commands ELSE f[i]]
  <2>2. n \in Nat /\ \A i \in 0 .. n : f[i] = IF i = 0 THEN <<>> ELSE f[i - 1] \o h[i].commands
    BY <2>1 DEF Runs
  <2>3. ASSUME NEW i \in 0 .. n + 1
        PROVE  g[i] = IF i = 0 THEN <<>> ELSE g[i - 1] \o h[i].commands
    <3>1. CASE i = n + 1
      <4>1. i # 0 /\ i - 1 \in 0 .. n + 1 /\ i - 1 = n /\ n # n + 1
        BY <3>1, <2>2
      <4>2. g[i - 1] = f[n] /\ g[i] = f[n] \o h[n + 1].commands
        BY <3>1, <4>1
      <4> HIDE DEF g
      <4> QED BY <4>1, <4>2, <3>1
    <3>2. CASE i # n + 1
      <4>1. i \in 0 .. n /\ (i # 0 => i - 1 \in 0 .. n /\ i - 1 # n + 1 /\ i - 1 \in 0 .. n + 1)
        BY <3>2, <2>2
      <4>2. g[i] = f[i] /\ (i # 0 => g[i - 1] = f[i - 1])
        BY <3>2, <4>1
      <4> HIDE DEF g
      <4> QED BY <4>1, <4>2, <2>2
    <3> QED BY <3>1, <3>2
  <2>4. g = [i \in 0 .. n + 1 |-> g[i]]
    OBVIOUS
  <2> HIDE DEF g
  <2>5. g = [i \in 0 .. n + 1 |-> IF i = 0 THEN <<>> ELSE g[i - 1] \o h[i].commands]
    BY <2>3, <2>4
  <2>6. Runs(h, n + 1, g)
    BY <2>5 DEF Runs
  <2> QED BY <2>2, <2>6
<1> HIDE DEF S
<1>3. S = Nat
  BY <1>1, <1>2, NatSetInduction DEF S
<1> QED BY <1>3 DEF S

(* It is told by the frames it runs, and gives a sequence of commands.      *)
Agree(h, k, n) == \A i \in 1 .. n : h[i] = k[i]

LEMMA RunsUnique ==
  ASSUME NEW h, NEW k, NEW n \in Nat, NEW m \in Nat, n <= m, Agree(h, k, n),
         NEW f, NEW g, Runs(h, n, f), Runs(k, m, g)
  PROVE  \A i \in 0 .. n : f[i] = g[i]
<1> DEFINE S == {i \in Nat : i <= n => f[i] = g[i]}
<1>1. /\ \A i \in 0 .. n : f[i] = IF i = 0 THEN <<>> ELSE f[i - 1] \o h[i].commands
      /\ \A i \in 0 .. m : g[i] = IF i = 0 THEN <<>> ELSE g[i - 1] \o k[i].commands
  BY DEF Runs
<1>2. 0 \in S
  BY <1>1
<1>3. ASSUME NEW i \in S PROVE i + 1 \in S
  <2> SUFFICES ASSUME i + 1 <= n PROVE f[i + 1] = g[i + 1]
    OBVIOUS
  <2>1. i + 1 \in 1 .. n /\ i + 1 \in 0 .. n /\ i + 1 \in 0 .. m /\ i + 1 # 0 /\ (i + 1) - 1 = i /\ i <= n
    OBVIOUS
  <2>2. f[i] = g[i] /\ h[i + 1] = k[i + 1]
    BY <2>1 DEF Agree
  <2>3. f[i + 1] = f[i] \o h[i + 1].commands /\ g[i + 1] = g[i] \o k[i + 1].commands
    BY <1>1, <2>1
  <2> QED BY <2>2, <2>3
<1> HIDE DEF S
<1>4. S = Nat
  BY <1>2, <1>3, NatSetInduction DEF S
<1> QED BY <1>4 DEF S

LEMMA RunsType ==
  ASSUME NEW h \in Seq(Frame), NEW g, Runs(h, Len(h), g)
  PROVE  \A i \in 0 .. Len(h) : g[i] \in Seq(Command)
<1> DEFINE S == {i \in Nat : i <= Len(h) => g[i] \in Seq(Command)}
<1>1. \A i \in 0 .. Len(h) : g[i] = IF i = 0 THEN <<>> ELSE g[i - 1] \o h[i].commands
  BY DEF Runs
<1>2. 0 \in S
  <2>1. Len(h) \in Nat /\ 0 \in 0 .. Len(h)
    OBVIOUS
  <2>2. g[0] = <<>>
    BY <1>1, <2>1
  <2>3. <<>> \in Seq(Command)
    BY EmptySeq, Zenon
  <2> QED BY <2>2, <2>3
<1>3. ASSUME NEW i \in S PROVE i + 1 \in S
  <2> SUFFICES ASSUME i + 1 <= Len(h) PROVE g[i + 1] \in Seq(Command)
    OBVIOUS
  <2>1. i + 1 \in 1 .. Len(h) /\ i + 1 \in 0 .. Len(h) /\ i + 1 # 0 /\ (i + 1) - 1 = i /\ i <= Len(h)
    OBVIOUS
  <2>2. h[i + 1] \in Frame
    BY <2>1
  <2>3. h[i + 1].commands \in Seq(Command) /\ g[i] \in Seq(Command)
    BY <2>1, <2>2 DEF Frame
  <2>4. g[i + 1] = g[i] \o h[i + 1].commands
    BY <1>1, <2>1
  <2> QED BY <2>3, <2>4
<1> HIDE DEF S
<1>4. S = Nat
  BY <1>2, <1>3, NatSetInduction DEF S
<1> QED BY <1>4 DEF S

LEMMA CommandsOfIs ==
  ASSUME NEW h, Len(h) \in Nat
  PROVE  \E g : Runs(h, Len(h), g) /\ CommandsOf(h) = g[Len(h)]
<1> DEFINE run == CHOOSE g : g = [i \in 0 .. Len(h) |-> IF i = 0 THEN <<>> ELSE g[i - 1] \o h[i].commands]
<1>1. \E g : g = [i \in 0 .. Len(h) |-> IF i = 0 THEN <<>> ELSE g[i - 1] \o h[i].commands]
  BY RunsExists DEF Runs
<1>2. run = [i \in 0 .. Len(h) |-> IF i = 0 THEN <<>> ELSE run[i - 1] \o h[i].commands]
  BY <1>1, Zenon
<1>3. CommandsOf(h) = run[Len(h)]
  BY Zenon DEF CommandsOf
<1> HIDE DEF run
<1> QED BY <1>2, <1>3 DEF Runs

(* The commands of no frame, and of one frame more.                         *)
LEMMA CommandsOfEmpty == CommandsOf(<<>>) = <<>>
<1>1. PICK g : Runs(<<>>, Len(<<>>), g) /\ CommandsOf(<<>>) = g[Len(<<>>)]
  BY CommandsOfIs
<1> QED BY <1>1 DEF Runs

LEMMA CommandsOfAppend ==
  ASSUME NEW h \in Seq(Frame), NEW frame \in Frame
  PROVE  /\ CommandsOf(h) \in Seq(Command)
         /\ CommandsOf(Append(h, frame)) = CommandsOf(h) \o frame.commands
<1> DEFINE k == Append(h, frame)
<1>1. k \in Seq(Frame) /\ Len(h) \in Nat /\ Len(k) = Len(h) + 1 /\ k[Len(k)] = frame
      /\ \A i \in 1 .. Len(h) : h[i] = k[i]
  BY AppendProperties
<1> HIDE DEF k
<1>2. PICK f : Runs(h, Len(h), f) /\ CommandsOf(h) = f[Len(h)]
  BY <1>1, CommandsOfIs
<1>3. PICK g : Runs(k, Len(k), g) /\ CommandsOf(k) = g[Len(k)]
  BY <1>1, CommandsOfIs
<1>4. f[Len(h)] \in Seq(Command)
  BY <1>1, <1>2, RunsType
<1>5. f[Len(h)] = g[Len(h)]
  <2>1. Len(k) \in Nat /\ Len(h) <= Len(k) /\ Len(h) \in 0 .. Len(h)
    BY <1>1
  <2>2. Agree(h, k, Len(h))
    BY <1>1 DEF Agree
  <2>3. \A i \in 0 .. Len(h) : f[i] = g[i]
    BY <1>1, <1>2, <1>3, <2>1, <2>2, RunsUnique
  <2> QED BY <2>1, <2>3
<1>6. g[Len(k)] = g[Len(h)] \o frame.commands
  <2>1. \A i \in 0 .. Len(k) : g[i] = IF i = 0 THEN <<>> ELSE g[i - 1] \o k[i].commands
    BY <1>3 DEF Runs
  <2>2. Len(k) \in 0 .. Len(k) /\ Len(k) # 0 /\ Len(k) - 1 = Len(h)
    BY <1>1
  <2> QED BY <2>1, <2>2, <1>1
<1> QED BY <1>2, <1>3, <1>4, <1>5, <1>6 DEF k

-----------------------------------------------------------------------------
(* What GetFramesSince computes.                                           *)

(* The i-th frame has the number i.                                         *)
Numbered(history) == \A i \in 1 .. Len(history) : history[i].frameId = i

(* g collects the frames after n.                                           *)
Misses(history, n, g) ==
  g = [i \in 0 .. Len(history) |->
         IF i = 0 THEN <<>>
         ELSE IF history[i].frameId > n THEN Append(g[i - 1], history[i])
         ELSE g[i - 1]]

LEMMA SubSeqAppend ==
  ASSUME NEW h \in Seq(Frame), NEW n \in Nat, NEW i \in 1 .. Len(h), i > n
  PROVE  Append(SubSeq(h, n + 1, i - 1), h[i]) = SubSeq(h, n + 1, i)
<1>1. /\ n + 1 \in 1 .. Len(h) /\ i \in n + 1 .. Len(h) /\ n + 1 \in Int /\ i - 1 \in Int
      /\ \A j \in n + 1 .. i - 1 : h[j] \in Frame
  OBVIOUS
<1>2. SubSeq(h, n + 1, i) = SubSeq(h, n + 1, i - 1) \o << h[i] >>
  BY <1>1, SubSeqRecursiveSecond
<1>3. SubSeq(h, n + 1, i - 1) \in Seq(Frame) /\ h[i] \in Frame
  BY <1>1, SubSeqProperties
<1> HIDE DEF Frame
<1>4. Append(SubSeq(h, n + 1, i - 1), h[i]) = SubSeq(h, n + 1, i - 1) \o << h[i] >>
  BY <1>3, AppendIsConcat
<1> QED BY <1>2, <1>4

(* What is collected of numbered frames is the part of the history after n. *)
LEMMA MissesPart ==
  ASSUME NEW h \in Seq(Frame), Numbered(h), NEW n \in Nat
  PROVE  /\ \E g : Misses(h, n, g)
         /\ \A g : Misses(h, n, g) => g[Len(h)] = SubSeq(h, n + 1, Len(h))
<1>1. Len(h) \in Nat /\ \A i \in 1 .. Len(h) : h[i] \in Frame /\ h[i].frameId = i
  BY DEF Numbered
<1>2. \A i \in 0 .. Len(h) : i <= n => SubSeq(h, n + 1, i) = <<>>
  <2> TAKE i \in 0 .. Len(h)
  <2>1. n + 1 \in Int /\ i \in Int /\ (i <= n => i < n + 1)
    BY <1>1
  <2> QED BY <2>1, SubSeqEmpty
<1>3. \A i \in 1 .. Len(h) : i > n => Append(SubSeq(h, n + 1, i - 1), h[i]) = SubSeq(h, n + 1, i)
  BY SubSeqAppend
<1>4. \E g : Misses(h, n, g)
  <2> DEFINE w == [i \in 0 .. Len(h) |-> SubSeq(h, n + 1, i)]
  <2>1. ASSUME NEW i \in 0 .. Len(h)
        PROVE  w[i] = IF i = 0 THEN <<>>
                      ELSE IF h[i].frameId > n THEN Append(w[i - 1], h[i])
                      ELSE w[i - 1]
    <3>1. w[i] = SubSeq(h, n + 1, i) /\ (i # 0 => i - 1 \in 0 .. Len(h) /\ w[i - 1] = SubSeq(h, n + 1, i - 1))
      <4>1. \A j \in 0 .. Len(h) : w[j] = SubSeq(h, n + 1, j)
        OBVIOUS
      <4>2. i # 0 => i - 1 \in 0 .. Len(h)
        BY <1>1
      <4> HIDE DEF w
      <4> QED BY <4>1, <4>2, Zenon
    <3> HIDE DEF w
    <3>2. CASE i = 0
      BY <3>1, <3>2, <1>1, <1>2
    <3>3. CASE i # 0 /\ i <= n
      <4>1. i \in 1 .. Len(h) /\ i - 1 \in 0 .. Len(h) /\ i - 1 <= n /\ ~ (h[i].frameId > n)
        BY <3>3, <1>1
      <4> QED BY <4>1, <3>1, <3>3, <1>2
    <3>4. CASE i # 0 /\ i > n
      <4>1. i \in 1 .. Len(h) /\ h[i].frameId > n
        BY <3>4, <1>1
      <4> QED BY <4>1, <3>1, <3>4, <1>3
    <3> QED BY <3>2, <3>3, <3>4, <1>1
  <2>2. w = [i \in 0 .. Len(h) |-> w[i]]
    OBVIOUS
  <2> HIDE DEF w
  <2>3. Misses(h, n, w)
    BY <2>1, <2>2 DEF Misses
  <2> QED BY <2>3
<1>5. ASSUME NEW g, Misses(h, n, g) PROVE g[Len(h)] = SubSeq(h, n + 1, Len(h))
  <2> DEFINE S == {i \in Nat : i <= Len(h) => g[i] = SubSeq(h, n + 1, i)}
  <2>1. \A i \in 0 .. Len(h) : g[i] = IF i = 0 THEN <<>>
                                      ELSE IF h[i].frameId > n THEN Append(g[i - 1], h[i])
                                      ELSE g[i - 1]
    BY <1>5 DEF Misses
  <2>2. 0 \in S
    <3>1. 0 \in 0 .. Len(h) /\ 0 <= n
      BY <1>1
    <3> QED BY <2>1, <1>2, <3>1
  <2>3. ASSUME NEW i \in S PROVE i + 1 \in S
    <3> SUFFICES ASSUME i + 1 <= Len(h) PROVE g[i + 1] = SubSeq(h, n + 1, i + 1)
      OBVIOUS
    <3>1. /\ i \in 0 .. Len(h) /\ i + 1 \in 0 .. Len(h) /\ i + 1 \in 1 .. Len(h) /\ i + 1 # 0
          /\ (i + 1) - 1 = i /\ h[i + 1].frameId = i + 1
      BY <1>1
    <3>2. g[i] = SubSeq(h, n + 1, i)
      BY <3>1
    <3>3. g[i + 1] = IF i + 1 > n THEN Append(SubSeq(h, n + 1, i), h[i + 1]) ELSE SubSeq(h, n + 1, i)
      BY <2>1, <3>1, <3>2
    <3>4. CASE i + 1 > n
      BY <1>3, <3>1, <3>3, <3>4
    <3>5. CASE ~ (i + 1 > n)
      <4>1. i <= n /\ i + 1 <= n
        BY <3>1, <3>5
      <4> QED BY <1>2, <3>1, <3>3, <3>5, <4>1
    <3> QED BY <3>4, <3>5
  <2> HIDE DEF S
  <2>4. S = Nat
    BY <2>2, <2>3, NatSetInduction DEF S
  <2> QED BY <1>1, <2>4 DEF S
<1> QED BY <1>4, <1>5

LEMMA GetFramesSinceIs ==
  ASSUME NEW room, room.frameHistory \in Seq(Frame), Numbered(room.frameHistory), NEW n \in Nat
  PROVE  GetFramesSince(room, n) = SubSeq(room.frameHistory, n + 1, Len(room.frameHistory))
<1> DEFINE h == room.frameHistory
           missed == CHOOSE g : g = [i \in 0 .. Len(h) |->
                                       IF i = 0 THEN <<>>
                                       ELSE IF h[i].frameId > n THEN Append(g[i - 1], h[i])
                                       ELSE g[i - 1]]
<1>1. \E g : g = [i \in 0 .. Len(h) |-> IF i = 0 THEN <<>>
                                        ELSE IF h[i].frameId > n THEN Append(g[i - 1], h[i])
                                        ELSE g[i - 1]]
  BY MissesPart DEF Misses
<1>2. missed = [i \in 0 .. Len(h) |-> IF i = 0 THEN <<>>
                                      ELSE IF h[i].frameId > n THEN Append(missed[i - 1], h[i])
                                      ELSE missed[i - 1]]
  BY <1>1, Zenon
<1>3. GetFramesSince(room, n) = missed[Len(h)]
  BY Zenon DEF GetFramesSince
<1> HIDE DEF missed
<1>4. Misses(h, n, missed)
  BY <1>2 DEF Misses
<1> QED BY <1>3, <1>4, MissesPart

-----------------------------------------------------------------------------
(* The inductive invariant, room by room: the count of the players; the     *)
(* state and the frames agree, and nothing is left of an earlier game when  *)
(* one begins; the frames are numbered and hold the accepted commands.      *)
Counted(room) ==
  room \in Room /\ room.roomPlayersCnt = Cardinality(Players(room))

Running(room) ==
  /\ room.isRunning <=> room.state = "running"
  /\ room.currentFrame = Len(room.frameHistory)
  /\ Numbered(room.frameHistory)

Fresh(room, acc) ==
  room.state = "waiting" =>
    room.frameHistory = <<>> /\ room.frameCommands = <<>> /\ acc = <<>>

Stamped(room) ==
  /\ \A i \in 1 .. Len(room.frameHistory) :
       \A j \in 1 .. Len(room.frameHistory[i].commands) :
         room.frameHistory[i].commands[j].frameId + 1 = room.frameHistory[i].frameId
  /\ \A j \in 1 .. Len(room.frameCommands) :
       room.frameCommands[j].frameId = room.currentFrame

Ran(room, acc) ==
  CommandsOf(room.frameHistory) \o room.frameCommands = acc

Good(room, acc) ==
  /\ acc \in Seq(Command)
  /\ Counted(room) /\ Running(room) /\ Fresh(room, acc) /\ Stamped(room) /\ Ran(room, acc)

IInv ==
  /\ rooms \in [RoomIds -> Room \cup {Nil}]
  /\ accepted \in [RoomIds -> Seq(Command)]
  /\ \A r \in RoomIds : IF rooms[r] = Nil THEN accepted[r] = <<>> ELSE Good(rooms[r], accepted[r])

(* Two rooms in the same game.                                              *)
SameGame(room, other) ==
  /\ other.state = room.state /\ other.isRunning = room.isRunning
  /\ other.currentFrame = room.currentFrame
  /\ other.frameHistory = room.frameHistory /\ other.frameCommands = room.frameCommands

LEMMA SameGameGood ==
  ASSUME NEW room, NEW other, NEW acc, Good(room, acc), SameGame(room, other), Counted(other)
  PROVE  Good(other, acc)
<1>1. Running(other)
  BY Zenon DEF Good, SameGame, Running
<1>2. Fresh(other, acc) /\ Stamped(other) /\ Ran(other, acc)
  BY DEF Good, SameGame, Fresh, Stamped, Ran
<1> QED BY <1>1, <1>2 DEF Good

LEMMA NewRoomGood == Good(NewRoom, <<>>)
<1>1. Players(NewRoom) = {}
  BY DEF Players, NewRoom
<1>2. Cardinality(Players(NewRoom)) = 0
  BY <1>1, FS_EmptySet
<1>3. NewRoom \in Room
  BY FSRoomAssumption, EmptySeq DEF NewRoom, Room
<1>4. Counted(NewRoom)
  BY <1>2, <1>3 DEF Counted, NewRoom
<1>5. Running(NewRoom) /\ Fresh(NewRoom, <<>>) /\ Stamped(NewRoom)
  BY DEF Running, Fresh, Stamped, Numbered, NewRoom
<1>6. Ran(NewRoom, <<>>)
  <2>1. CommandsOf(<<>>) \o <<>> = <<>>
    BY CommandsOfEmpty, ConcatEmptySeq, EmptySeq
  <2> QED BY <2>1 DEF Ran, NewRoom
<1> QED BY <1>4, <1>5, <1>6, EmptySeq DEF Good

(* A room whose fields but the players are in place is of its type when its *)
(* players are, and is counted when they are counted.                      *)
LEMMA StartGameGood ==
  ASSUME NEW room, NEW acc, Good(room, acc)
  PROVE  Good(StartGame(room), acc)
<1>1. CASE room.state # "waiting"
  BY <1>1 DEF StartGame
<1>2. CASE room.state = "waiting"
  <2> DEFINE started == [[room EXCEPT !.state = "running"]
                           EXCEPT !.isRunning = TRUE, !.currentFrame = 0, !.frameHistory = <<>>]
  <2>1. StartGame(room) = started
    BY <1>2 DEF StartGame, SyncStart
  <2>2. room \in Room /\ room.frameHistory = <<>> /\ room.frameCommands = <<>> /\ acc = <<>>
    BY <1>2 DEF Good, Counted, Fresh
  <2>3. started \in Room
    <3>1. <<>> \in Seq(Frame) /\ 0 \in 0 .. MaxFrames
      BY EmptySeq, FSRoomAssumption
    <3> QED BY <2>2, <3>1 DEF Room
  <2>4. /\ started.roomPlayers = room.roomPlayers /\ started.roomPlayersCnt = room.roomPlayersCnt
        /\ started.state = "running" /\ started.isRunning = TRUE /\ started.currentFrame = 0
        /\ started.frameHistory = <<>> /\ started.frameCommands = <<>>
    BY <2>2 DEF Room
  <2> HIDE DEF started
  <2>5. Counted(started)
    BY <2>3, <2>4 DEF Good, Counted, Players
  <2>6. Running(started) /\ Fresh(started, acc) /\ Stamped(started)
    BY <2>4 DEF Running, Fresh, Stamped, Numbered
  <2>7. Ran(started, acc)
    BY <2>2, <2>4 DEF Ran, Good
  <2> QED BY <2>1, <2>5, <2>6, <2>7 DEF Good
<1> QED BY <1>1, <1>2

LEMMA FinishGameGood ==
  ASSUME NEW room, NEW acc, Good(room, acc)
  PROVE  Good(FinishGame(room), acc)
<1>1. CASE room.state # "running"
  BY <1>1 DEF FinishGame
<1>2. CASE room.state = "running"
  <2> DEFINE over == [[room EXCEPT !.state = "finished"] EXCEPT !.isRunning = FALSE]
  <2>1. FinishGame(room) = over
    BY <1>2 DEF FinishGame, SyncStop
  <2>2. room \in Room
    BY DEF Good, Counted
  <2>3. over \in Room
    BY <2>2 DEF Room
  <2>4. /\ over.roomPlayers = room.roomPlayers /\ over.roomPlayersCnt = room.roomPlayersCnt
        /\ over.state = "finished" /\ over.isRunning = FALSE
        /\ over.currentFrame = room.currentFrame
        /\ over.frameHistory = room.frameHistory /\ over.frameCommands = room.frameCommands
    BY <2>2 DEF Room
  <2> HIDE DEF over
  <2>5. Counted(over)
    BY <2>3, <2>4 DEF Good, Counted, Players
  <2>6. Running(over) /\ Fresh(over, acc) /\ Stamped(over) /\ Ran(over, acc)
    BY <2>4 DEF Good, Running, Fresh, Stamped, Ran
  <2> QED BY <2>1, <2>5, <2>6 DEF Good
<1> QED BY <1>1, <1>2

LEMMA EndedIfGood ==
  ASSUME NEW room, NEW acc, Good(room, acc), NEW over
  PROVE  Good(EndedIf(over, room), acc)
BY FinishGameGood DEF EndedIf

(* A frame is made: what was collected is moved into it.                    *)
LEMMA NextFrameGood ==
  ASSUME NEW room, NEW acc, Good(room, acc), room.state = "running", room.currentFrame < MaxFrames
  PROVE  Good(NextFrame(room), acc)
<1> DEFINE h     == room.frameHistory
           frame == [frameId |-> room.currentFrame + 1, commands |-> room.frameCommands]
           next  == NextFrame(room)
<1>1. /\ room \in Room /\ h \in Seq(Frame) /\ room.frameCommands \in Seq(Command)
      /\ room.currentFrame \in 0 .. MaxFrames /\ Len(h) \in Nat
  BY DEF Good, Counted, Room
<1>2. frame \in Frame
  BY <1>1, FSRoomAssumption DEF Frame
<1>3. /\ Append(h, frame) \in Seq(Frame) /\ Len(Append(h, frame)) = Len(h) + 1
      /\ Append(h, frame)[Len(h) + 1] = frame
      /\ \A i \in 1 .. Len(h) : Append(h, frame)[i] = h[i]
  BY <1>1, <1>2, AppendProperties
<1>4. next = [room EXCEPT !.currentFrame = room.currentFrame + 1, !.frameCommands = <<>>,
                          !.frameHistory = Append(h, frame)]
  BY DEF NextFrame
<1>5. room.currentFrame + 1 \in 0 .. MaxFrames
  BY <1>1, FSRoomAssumption
<1>6. next \in Room
  <2> HIDE DEF next, frame, h
  <2> QED BY <1>1, <1>3, <1>4, <1>5, EmptySeq DEF Room
<1>7. /\ next.roomPlayers = room.roomPlayers /\ next.roomPlayersCnt = room.roomPlayersCnt
      /\ next.state = room.state /\ next.isRunning = room.isRunning
      /\ next.currentFrame = room.currentFrame + 1
      /\ next.frameHistory = Append(h, frame) /\ next.frameCommands = <<>>
  <2> HIDE DEF next, frame
  <2> QED BY <1>1, <1>4 DEF Room
<1>8. frame.frameId = room.currentFrame + 1 /\ frame.commands = room.frameCommands
  OBVIOUS
<1>9. room.currentFrame = Len(h) /\ Numbered(h) /\ (room.isRunning <=> room.state = "running")
  BY DEF Good, Running
<1>10. next.state = "running"
  BY <1>7
<1>11. /\ \A i \in 1 .. Len(h) : \A j \in 1 .. Len(h[i].commands) : h[i].commands[j].frameId + 1 = h[i].frameId
       /\ \A j \in 1 .. Len(room.frameCommands) : room.frameCommands[j].frameId = room.currentFrame
  BY DEF Good, Stamped
<1>12. CommandsOf(h) \o room.frameCommands = acc /\ acc \in Seq(Command)
  BY DEF Good, Ran
<1>13. CommandsOf(Append(h, frame)) = CommandsOf(h) \o frame.commands
  BY <1>1, <1>2, CommandsOfAppend
<1>14. Players(next) = Players(room) /\ Counted(room)
  BY <1>7 DEF Players, Good
<1> HIDE DEF next, frame
<1>15. Counted(next)
  BY <1>6, <1>7, <1>14 DEF Counted
<1>16. Running(next)
  <2>1. \A i \in 1 .. Len(h) + 1 : Append(h, frame)[i].frameId = i
    BY <1>1, <1>3, <1>8, <1>9 DEF Numbered
  <2> QED BY <1>3, <1>7, <1>9, <2>1 DEF Running, Numbered
<1>17. Fresh(next, acc)
  BY <1>10 DEF Fresh
<1>18. Stamped(next)
  <2>1. ASSUME NEW i \in 1 .. Len(h) + 1, NEW j \in 1 .. Len(Append(h, frame)[i].commands)
        PROVE  Append(h, frame)[i].commands[j].frameId + 1 = Append(h, frame)[i].frameId
    <3>1. CASE i = Len(h) + 1
      BY <3>1, <1>3, <1>8, <1>11
    <3>2. CASE i # Len(h) + 1
      <4>1. i \in 1 .. Len(h) /\ Append(h, frame)[i] = h[i]
        BY <3>2, <1>1, <1>3
      <4> QED BY <4>1, <1>11
    <3> QED BY <3>1, <3>2
  <2> QED BY <1>3, <1>7, <2>1 DEF Stamped
<1>19. Ran(next, acc)
  <2>1. CommandsOf(Append(h, frame)) \o <<>> = acc
    BY <1>8, <1>12, <1>13, ConcatEmptySeq
  <2> QED BY <1>7, <2>1 DEF Ran
<1> QED BY <1>12, <1>15, <1>16, <1>17, <1>18, <1>19 DEF Good, next

-----------------------------------------------------------------------------
(* The actions.                                                            *)
LEMMA InitInv == Init => IInv
BY EmptySeq DEF Init, IInv

(* A step that leaves every other room alone, and this one good.            *)
LEMMA RoomStep ==
  ASSUME IInv, NEW r \in RoomIds, NEW room, NEW acc, Good(room, acc),
         rooms' = [rooms EXCEPT ![r] = room], accepted' = [accepted EXCEPT ![r] = acc]
  PROVE  IInv'
<1>1. room \in Room /\ acc \in Seq(Command) /\ room # Nil
  BY NilAssumption DEF Good, Counted
<1>2. rooms' \in [RoomIds -> Room \cup {Nil}] /\ accepted' \in [RoomIds -> Seq(Command)]
  BY <1>1 DEF IInv
<1>3. ASSUME NEW q \in RoomIds
      PROVE  IF rooms'[q] = Nil THEN accepted'[q] = <<>> ELSE Good(rooms'[q], accepted'[q])
  <2>1. CASE q = r
    <3>1. rooms'[q] = room /\ accepted'[q] = acc
      BY <2>1 DEF IInv
    <3> QED BY <1>1, <3>1
  <2>2. CASE q # r
    <3>1. rooms'[q] = rooms[q] /\ accepted'[q] = accepted[q]
      BY <2>2 DEF IInv
    <3> QED BY <3>1 DEF IInv
  <2> QED BY <2>1, <2>2
<1>4. \A q \in RoomIds : IF rooms[q]' = Nil THEN accepted[q]' = <<>> ELSE Good(rooms[q]', accepted[q]')
  BY <1>3
<1> QED BY <1>2, <1>4 DEF IInv, Good, Counted, Running, Fresh, Stamped, Ran

LEMMA BecomesStep ==
  ASSUME IInv, NEW r \in RoomIds, NEW room, Good(room, accepted[r]), Becomes(r, room)
  PROVE  IInv'
<1>1. accepted' = [accepted EXCEPT ![r] = accepted[r]]
  BY DEF IInv, Becomes
<1> QED BY <1>1, RoomStep DEF Becomes

LEMMA GoodRoom ==
  ASSUME IInv, NEW r \in RoomIds, rooms[r] # Nil
  PROVE  /\ Good(rooms[r], accepted[r]) /\ rooms[r] \in Room
         /\ rooms[r].roomPlayers \in [Users -> RoomPlayer \cup {Nil}]
         /\ rooms[r].roomPlayersCnt \in 0 .. maxPlayers
         /\ rooms[r].roomPlayersCnt = Cardinality(Players(rooms[r]))
         /\ IsFiniteSet(Players(rooms[r]))
<1>1. Good(rooms[r], accepted[r])
  BY DEF IInv
<1>2. Players(rooms[r]) \in SUBSET Users
  BY DEF Players
<1> QED BY <1>1, <1>2, FSRoomAssumption, FS_Subset DEF Good, Counted, Room

LEMMA AddPlayerInv ==
  ASSUME IInv, NEW r \in RoomIds, NEW u \in Users, AddPlayerToRoom(r, u)
  PROVE  IInv'
<1>1. PICK room : room = rooms[r]
  OBVIOUS
<1> DEFINE player == [isReady |-> FALSE, HP |-> 0]
           joined == [room EXCEPT !.roomPlayers[u] = player, !.roomPlayersCnt = @ + 1]
<1>2. /\ room # Nil /\ room.roomPlayersCnt < maxPlayers /\ room.roomPlayers[u] = Nil
      /\ Becomes(r, joined)
  BY <1>1, Zenon DEF AddPlayerToRoom
<1>3. /\ Good(room, accepted[r]) /\ room \in Room
      /\ room.roomPlayers \in [Users -> RoomPlayer \cup {Nil}]
      /\ room.roomPlayersCnt \in 0 .. maxPlayers
      /\ room.roomPlayersCnt = Cardinality(Players(room)) /\ IsFiniteSet(Players(room))
  BY <1>1, <1>2, GoodRoom
<1>4. player \in RoomPlayer /\ player # Nil /\ room.roomPlayersCnt + 1 \in 0 .. maxPlayers
  <2>1. player \in RoomPlayer
    BY DEF RoomPlayer
  <2>2. player # Nil
    BY <2>1, NilAssumption
  <2>3. room.roomPlayersCnt + 1 \in 0 .. maxPlayers
    BY <1>2, <1>3, FSRoomAssumption
  <2> QED BY <2>1, <2>2, <2>3
<1>5. PICK p : p = player
  OBVIOUS
<1>6. joined = [room EXCEPT !.roomPlayers = [room.roomPlayers EXCEPT ![u] = p],
                            !.roomPlayersCnt = room.roomPlayersCnt + 1]
  BY <1>3, <1>5 DEF Room
<1>7. [room.roomPlayers EXCEPT ![u] = p] \in [Users -> RoomPlayer \cup {Nil}]
  BY <1>3, <1>4, <1>5
<1> HIDE DEF player, joined
<1>8. joined \in Room
  BY <1>3, <1>4, <1>6, <1>7 DEF Room
<1>9. /\ SameGame(room, joined)
      /\ joined.roomPlayers = [room.roomPlayers EXCEPT ![u] = p]
      /\ joined.roomPlayersCnt = room.roomPlayersCnt + 1
  BY <1>3, <1>6 DEF Room, SameGame
<1>10. Players(joined) = Players(room) \cup {u} /\ u \notin Players(room)
  BY <1>2, <1>3, <1>4, <1>5, <1>9 DEF Players
<1>11. Counted(joined)
  BY <1>3, <1>8, <1>9, <1>10, FS_AddElement DEF Counted
<1> QED BY <1>2, <1>3, <1>9, <1>11, SameGameGood, BecomesStep

LEMMA RemovePlayerInv ==
  ASSUME IInv, NEW r \in RoomIds, NEW u \in Users, RemovePlayerFromRoom(r, u)
  PROVE  IInv'
<1>1. PICK room : room = rooms[r]
  OBVIOUS
<1> DEFINE left == [room EXCEPT !.roomPlayers[u] = Nil, !.roomPlayersCnt = @ - 1]
<1>2. /\ room # Nil /\ room.roomPlayers[u] # Nil
      /\ Becomes(r, EndedIf(NotEnoughPlayers(left), left))
  BY <1>1, Zenon DEF RemovePlayerFromRoom
<1>3. /\ Good(room, accepted[r]) /\ room \in Room
      /\ room.roomPlayers \in [Users -> RoomPlayer \cup {Nil}]
      /\ room.roomPlayersCnt \in 0 .. maxPlayers
      /\ room.roomPlayersCnt = Cardinality(Players(room)) /\ IsFiniteSet(Players(room))
  BY <1>1, <1>2, GoodRoom
<1>4. left = [room EXCEPT !.roomPlayers = [room.roomPlayers EXCEPT ![u] = Nil],
                          !.roomPlayersCnt = room.roomPlayersCnt - 1]
  BY <1>3 DEF Room
<1>5. [room.roomPlayers EXCEPT ![u] = Nil] \in [Users -> RoomPlayer \cup {Nil}]
  BY <1>3
<1>6. u \in Players(room) /\ Cardinality(Players(room) \ {u}) = Cardinality(Players(room)) - 1
      /\ Cardinality(Players(room) \ {u}) \in Nat
  BY <1>2, <1>3, FS_RemoveElement, FS_CardinalityType DEF Players
<1>7. room.roomPlayersCnt - 1 \in 0 .. maxPlayers
  BY <1>3, <1>6, FSRoomAssumption
<1> HIDE DEF left
<1>8. left \in Room
  BY <1>3, <1>4, <1>5, <1>7 DEF Room
<1>9. /\ SameGame(room, left)
      /\ left.roomPlayers = [room.roomPlayers EXCEPT ![u] = Nil]
      /\ left.roomPlayersCnt = room.roomPlayersCnt - 1
  BY <1>3, <1>4 DEF Room, SameGame
<1>10. Players(left) = Players(room) \ {u}
  BY <1>3, <1>9 DEF Players
<1>11. Counted(left)
  BY <1>3, <1>6, <1>8, <1>9, <1>10 DEF Counted
<1>12. Good(left, accepted[r])
  BY <1>3, <1>9, <1>11, SameGameGood
<1> QED BY <1>2, <1>12, EndedIfGood, BecomesStep

LEMMA SetReadyInv ==
  ASSUME IInv, NEW r \in RoomIds, NEW u \in Users, SetPlayerReady(r, u)
  PROVE  IInv'
<1>1. PICK room : room = rooms[r]
  OBVIOUS
<1> DEFINE ready == [room EXCEPT !.roomPlayers[u].isReady = TRUE]
<1>2. /\ room # Nil /\ room.roomPlayers[u] # Nil
      /\ Becomes(r, IF AllPlayersReady(ready) THEN StartGame(ready) ELSE ready)
  BY <1>1, Zenon DEF SetPlayerReady
<1>3. /\ Good(room, accepted[r]) /\ room \in Room
      /\ room.roomPlayers \in [Users -> RoomPlayer \cup {Nil}]
      /\ room.roomPlayersCnt = Cardinality(Players(room))
  BY <1>1, <1>2, GoodRoom
<1> DEFINE player == [room.roomPlayers[u] EXCEPT !.isReady = TRUE]
<1>4. player \in RoomPlayer /\ player # Nil
  BY <1>2, <1>3, NilAssumption DEF RoomPlayer
<1>5. PICK p : p = player
  OBVIOUS
<1>6. ready = [room EXCEPT !.roomPlayers = [room.roomPlayers EXCEPT ![u] = p]]
  BY <1>3, <1>5 DEF Room
<1>7. [room.roomPlayers EXCEPT ![u] = p] \in [Users -> RoomPlayer \cup {Nil}]
  BY <1>3, <1>4, <1>5
<1> HIDE DEF player, ready
<1>8. ready \in Room
  BY <1>3, <1>6, <1>7 DEF Room
<1>9. /\ SameGame(room, ready)
      /\ ready.roomPlayers = [room.roomPlayers EXCEPT ![u] = p]
      /\ ready.roomPlayersCnt = room.roomPlayersCnt
  BY <1>3, <1>6 DEF Room, SameGame
<1>10. Players(ready) = Players(room)
  BY <1>2, <1>3, <1>4, <1>5, <1>9 DEF Players
<1>11. Counted(ready)
  BY <1>3, <1>8, <1>9, <1>10 DEF Counted
<1>12. Good(ready, accepted[r])
  BY <1>3, <1>9, <1>11, SameGameGood
<1> QED BY <1>2, <1>12, StartGameGood, BecomesStep

(* A command is put where the accepted ones are, with the frame's number.   *)
LEMMA ProcessCommandInv ==
  ASSUME IInv, NEW r \in RoomIds, NEW u \in Users, NEW d \in Data, ProcessCommand(r, u, d)
  PROVE  IInv'
<1>1. PICK room, acc : room = rooms[r] /\ acc = accepted[r]
  OBVIOUS
<1>2. PICK c : c = [userId |-> u, data |-> d, frameId |-> room.currentFrame]
  OBVIOUS
<1>3. room # Nil /\ room.state = "running"
  BY <1>1 DEF ProcessCommand
<1>4. Good(room, acc) /\ room \in Room
  BY <1>1, <1>3, GoodRoom
<1>5. room.isRunning
  BY <1>3, <1>4 DEF Good, Running
<1> DEFINE fc   == room.frameCommands
           with == [room EXCEPT !.frameCommands = Append(fc, c)]
<1>6. AddCommand(room, c) = with
  BY <1>5 DEF AddCommand
<1>7. rooms' = [rooms EXCEPT ![r] = with] /\ accepted' = [accepted EXCEPT ![r] = Append(acc, c)]
  <2>1. /\ rooms' = [rooms EXCEPT ![r] = AddCommand(room, c)]
        /\ accepted' = [accepted EXCEPT ![r] = Append(acc, c)]
    BY <1>1, <1>2, Zenon DEF ProcessCommand
  <2> HIDE DEF with
  <2> QED BY <2>1, <1>6
<1>8. c \in Command /\ c.frameId = room.currentFrame
  BY <1>2, <1>4 DEF Command, Room
<1>9. /\ fc \in Seq(Command) /\ room.frameHistory \in Seq(Frame)
      /\ acc \in Seq(Command)
  BY <1>4 DEF Room, Good
<1>10. /\ Append(fc, c) \in Seq(Command) /\ Len(Append(fc, c)) = Len(fc) + 1 /\ Len(fc) \in Nat
       /\ Append(fc, c)[Len(fc) + 1] = c
       /\ \A j \in 1 .. Len(fc) : Append(fc, c)[j] = fc[j]
       /\ Append(acc, c) \in Seq(Command)
  <2> HIDE DEF fc, Command
  <2> QED BY <1>8, <1>9, AppendProperties
<1>11. with \in Room
  <2> HIDE DEF fc
  <2> QED BY <1>4, <1>10 DEF Room
<1>12. /\ with.roomPlayers = room.roomPlayers /\ with.roomPlayersCnt = room.roomPlayersCnt
       /\ with.state = room.state /\ with.isRunning = room.isRunning
       /\ with.currentFrame = room.currentFrame
       /\ with.frameHistory = room.frameHistory /\ with.frameCommands = Append(fc, c)
  BY <1>4 DEF Room
<1> HIDE DEF with
<1>13. Counted(with)
  BY <1>4, <1>11, <1>12 DEF Good, Counted, Players
<1>14. Running(with)
  BY <1>4, <1>12, Zenon DEF Good, Running
<1>15. Fresh(with, Append(acc, c))
  BY <1>3, <1>12 DEF Fresh
<1>16. Stamped(with)
  <2>1. \A j \in 1 .. Len(fc) + 1 : Append(fc, c)[j].frameId = room.currentFrame
    BY <1>4, <1>8, <1>10 DEF Good, Stamped
  <2> QED BY <1>4, <1>10, <1>12, <2>1 DEF Good, Stamped
<1>17. Ran(with, Append(acc, c))
  <2>1. CommandsOf(room.frameHistory) \in Seq(Command)
    <3>1. PICK g : Runs(room.frameHistory, Len(room.frameHistory), g)
                   /\ CommandsOf(room.frameHistory) = g[Len(room.frameHistory)]
      <4>1. Len(room.frameHistory) \in Nat
        BY <1>9
      <4> QED BY <4>1, CommandsOfIs
    <3>2. Len(room.frameHistory) \in 0 .. Len(room.frameHistory)
      BY <1>9
    <3> QED BY <1>9, <3>1, <3>2, RunsType
  <2>2. CommandsOf(room.frameHistory) \o fc = acc
    BY <1>4 DEF Good, Ran
  <2>3. /\ Append(fc, c) = fc \o << c >> /\ Append(acc, c) = acc \o << c >>
        /\ << c >> \in Seq(Command)
    <3> HIDE DEF fc, Command
    <3> QED BY <1>8, <1>9, AppendIsConcat
  <2>4. CommandsOf(room.frameHistory) \o (fc \o << c >>) = (CommandsOf(room.frameHistory) \o fc) \o << c >>
    <3> HIDE DEF fc, Command
    <3> QED BY <1>9, <2>1, <2>3, ConcatAssociative
  <2> QED BY <1>12, <2>2, <2>3, <2>4 DEF Ran
<1> QED BY <1>7, <1>10, <1>13, <1>14, <1>15, <1>16, <1>17, RoomStep DEF Good

LEMMA UpdateInv ==
  ASSUME IInv, NEW r \in RoomIds, Update(r)
  PROVE  IInv'
<1>1. /\ rooms[r] # Nil /\ rooms[r].state = "running" /\ rooms[r].currentFrame < MaxFrames
      /\ Becomes(r, EndedIf(CheckGameEnd(NextFrame(rooms[r])), NextFrame(rooms[r])))
  BY Zenon DEF Update
<1>2. Good(NextFrame(rooms[r]), accepted[r])
  BY <1>1, GoodRoom, NextFrameGood
<1> QED BY <1>1, <1>2, EndedIfGood, BecomesStep

(* The manager's operations, which are about every room.                    *)
LEMMA ManagerStep ==
  ASSUME IInv,
         \A r \in RoomIds :
           \/ rooms'[r] = rooms[r] /\ accepted'[r] = accepted[r]
           \/ rooms'[r] = Nil /\ accepted'[r] = <<>>
           \/ rooms[r] = Nil /\ rooms'[r] = NewRoom /\ accepted'[r] = accepted[r],
         rooms' = [r \in RoomIds |-> rooms'[r]], accepted' = [r \in RoomIds |-> accepted'[r]]
  PROVE  IInv'
<1>1. ASSUME NEW r \in RoomIds
      PROVE  /\ rooms'[r] \in Room \cup {Nil} /\ accepted'[r] \in Seq(Command)
             /\ IF rooms'[r] = Nil THEN accepted'[r] = <<>> ELSE Good(rooms'[r], accepted'[r])
  <2>1. CASE rooms'[r] = rooms[r] /\ accepted'[r] = accepted[r]
    BY <2>1 DEF IInv
  <2>2. CASE rooms'[r] = Nil /\ accepted'[r] = <<>>
    BY <2>2, EmptySeq
  <2>3. CASE rooms[r] = Nil /\ rooms'[r] = NewRoom /\ accepted'[r] = accepted[r]
    <3>1. accepted'[r] = <<>>
      BY <2>3 DEF IInv
    <3>2. NewRoom \in Room /\ NewRoom # Nil /\ Good(NewRoom, <<>>)
      BY NewRoomGood, NilAssumption DEF Good, Counted
    <3> QED BY <2>3, <3>1, <3>2, EmptySeq
  <2> QED BY <2>1, <2>2, <2>3
<1>2. rooms' \in [RoomIds -> Room \cup {Nil}] /\ accepted' \in [RoomIds -> Seq(Command)]
  BY <1>1
<1>3. \A q \in RoomIds : IF rooms[q]' = Nil THEN accepted[q]' = <<>> ELSE Good(rooms[q]', accepted[q]')
  BY <1>1
<1> QED BY <1>2, <1>3 DEF IInv, Good, Counted, Running, Fresh, Stamped, Ran

LEMMA ManagerInv ==
  ASSUME IInv, OnReload \/ CleanupFinishedRooms \/ OnStop
  PROVE  IInv'
<1>1. CASE OnReload
  BY <1>1, ManagerStep DEF OnReload, IInv
<1>2. CASE CleanupFinishedRooms
  BY <1>2, ManagerStep DEF CleanupFinishedRooms
<1>3. CASE OnStop
  BY <1>3, ManagerStep DEF OnStop
<1> QED BY <1>1, <1>2, <1>3

LEMMA NextInv == IInv /\ [Next]_vars => IInv'
<1> SUFFICES ASSUME IInv, [Next]_vars PROVE IInv'
  OBVIOUS
<1>1. ASSUME NEW r \in RoomIds, NEW u \in Users,
             \/ AddPlayerToRoom(r, u)
             \/ RemovePlayerFromRoom(r, u)
             \/ SetPlayerReady(r, u)
             \/ \E d \in Data : ProcessCommand(r, u, d)
      PROVE  IInv'
  BY <1>1, AddPlayerInv, RemovePlayerInv, SetReadyInv, ProcessCommandInv
<1>2. ASSUME NEW r \in RoomIds, Update(r) PROVE IInv'
  BY <1>2, UpdateInv
<1>3. CASE OnReload \/ CleanupFinishedRooms \/ OnStop
  BY <1>3, ManagerInv
<1>4. CASE UNCHANGED vars
  <2>1. rooms' = rooms /\ accepted' = accepted
    BY <1>4 DEF vars
  <2>2. rooms = [r \in RoomIds |-> rooms[r]] /\ accepted = [r \in RoomIds |-> accepted[r]]
    BY DEF IInv
  <2> QED BY <2>1, <2>2, ManagerStep
<1> QED BY <1>1, <1>2, <1>3, <1>4 DEF Next

-----------------------------------------------------------------------------
(* The theorems.                                                           *)

LEMMA InvTypeOK == IInv => TypeOK
BY DEF IInv, Good, Counted, TypeOK

LEMMA InvFramesSince == IInv => FramesSinceExact
<1> SUFFICES ASSUME IInv, NEW r \in RoomIds, rooms[r] # Nil,
                    NEW n \in 0 .. Len(rooms[r].frameHistory)
             PROVE  /\ rooms[r].currentFrame = Len(rooms[r].frameHistory)
                    /\ SubSeq(rooms[r].frameHistory, 1, n) \o GetFramesSince(rooms[r], n)
                         = rooms[r].frameHistory
  <2>1. ASSUME NEW r \in RoomIds, IInv, rooms[r] # Nil
        PROVE  rooms[r].currentFrame = Len(rooms[r].frameHistory)
    BY <2>1, GoodRoom DEF Good, Running
  <2> QED BY <2>1 DEF FramesSinceExact
<1>1. PICK room : room = rooms[r]
  OBVIOUS
<1>2. PICK h : h = room.frameHistory
  OBVIOUS
<1>3. Good(room, accepted[r]) /\ room \in Room
  BY <1>1, GoodRoom
<1>4. h \in Seq(Frame) /\ room.currentFrame = Len(h) /\ Numbered(h) /\ n \in 0 .. Len(h)
  BY <1>1, <1>2, <1>3 DEF Good, Running, Room
<1>5. n \in Nat /\ 1 \in 1 .. Len(h) + 1 /\ n \in 1 - 1 .. Len(h) /\ Len(h) \in n .. Len(h)
  BY <1>4
<1>6. GetFramesSince(room, n) = SubSeq(h, n + 1, Len(h))
  BY <1>2, <1>4, <1>5, GetFramesSinceIs
<1>7. SubSeq(h, 1, n) \o SubSeq(h, n + 1, Len(h)) = SubSeq(h, 1, Len(h))
  BY <1>4, <1>5, ConcatAdjacentSubSeq
<1>8. SubSeq(h, 1, Len(h)) = h
  BY <1>4, SubSeqFull
<1> QED BY <1>1, <1>2, <1>4, <1>6, <1>7, <1>8

LEMMA InvCommandsRunOnce == IInv => CommandsRunOnce
<1> SUFFICES ASSUME IInv, NEW r \in RoomIds, rooms[r] # Nil
             PROVE  /\ CommandsOf(rooms[r].frameHistory) \o rooms[r].frameCommands = accepted[r]
                    /\ \A i \in 1 .. Len(rooms[r].frameHistory) :
                         \A j \in 1 .. Len(rooms[r].frameHistory[i].commands) :
                           rooms[r].frameHistory[i].commands[j].frameId + 1
                             = rooms[r].frameHistory[i].frameId
  BY Zenon DEF CommandsRunOnce
<1>1. Good(rooms[r], accepted[r])
  BY GoodRoom
<1> QED BY <1>1, Zenon DEF Good, Stamped, Ran

(* The invariant holds of every behaviour.                                  *)
LEMMA Invariance == Spec => []IInv
<1> QED BY InitInv, NextInv, PTL DEF Spec

(* Every room that exists has the fields of a room, and its count of        *)
(* players is the number of its players, whoever joins, leaves or is        *)
(* removed, in any order.                                                  *)
THEOREM TypeCorrect == Spec => []TypeOK
BY Invariance, InvTypeOK, PTL

(* The frames of a room are numbered by their places without a gap, after   *)
(* any calls, so that GetFramesSince returns all that follow a frame, once  *)
(* and in order, however long the game is.                                 *)
THEOREM HistoryComplete == Spec => []FramesSinceExact
BY Invariance, InvFramesSince, PTL

(* ProcessCommand says yes to a command only when it is put in a frame, and *)
(* the frames run what was accepted: each command once, in order, in the    *)
(* frame after the one that was current.                                   *)
THEOREM EveryCommandRunsOnce == Spec => []CommandsRunOnce
BY Invariance, InvCommandsRunOnce, PTL

-----------------------------------------------------------------------------
(* The players of a game.  A count is simpler to follow than the players,   *)
(* and IInv says that they agree.                                          *)
Staffed(room) == room.state = "running" => room.roomPlayersCnt # 0

StaffedRooms == \A r \in RoomIds : rooms[r] # Nil => Staffed(rooms[r])

(* A game that is over needs no players, and one that is not keeps those    *)
(* that it has.                                                            *)
LEMMA EndedIfStaffed ==
  ASSUME NEW room \in Room, NEW over, over \/ Staffed(room)
  PROVE  Staffed(EndedIf(over, room))
<1>1. FinishGame(room).state # "running"
  <2>1. CASE room.state # "running"
    BY <2>1 DEF FinishGame
  <2>2. CASE room.state = "running"
    <3>1. FinishGame(room) = [[room EXCEPT !.state = "finished"] EXCEPT !.isRunning = FALSE]
      BY <2>2 DEF FinishGame, SyncStop
    <3> QED BY <3>1 DEF Room
  <2> QED BY <2>1, <2>2
<1> QED BY <1>1 DEF EndedIf, Staffed

LEMMA BecomesStaffed ==
  ASSUME IInv, StaffedRooms, NEW r \in RoomIds, NEW room, Becomes(r, room), Staffed(room)
  PROVE  StaffedRooms'
<1>1. \A q \in RoomIds : rooms'[q] = room \/ rooms'[q] = rooms[q]
  BY DEF Becomes, IInv
<1>2. \A q \in RoomIds : rooms'[q] # Nil => Staffed(rooms'[q])
  BY <1>1 DEF StaffedRooms
<1> QED BY <1>2 DEF StaffedRooms, Staffed

LEMMA StaffedStep == IInv /\ StaffedRooms /\ [Next]_vars => StaffedRooms'
<1> SUFFICES ASSUME IInv, StaffedRooms, [Next]_vars PROVE StaffedRooms'
  OBVIOUS
<1>1. ASSUME NEW r \in RoomIds, NEW u \in Users, AddPlayerToRoom(r, u) PROVE StaffedRooms'
  <2>1. PICK room : room = rooms[r]
    OBVIOUS
  <2> DEFINE joined == [room EXCEPT !.roomPlayers[u] = [isReady |-> FALSE, HP |-> 0],
                                    !.roomPlayersCnt = @ + 1]
  <2>2. room # Nil /\ room.state = "waiting" /\ Becomes(r, joined)
    BY <1>1, <2>1, Zenon DEF AddPlayerToRoom
  <2>3. room \in Room
    BY <2>1, <2>2, GoodRoom
  <2>4. joined.state = "waiting"
    BY <2>2, <2>3 DEF Room
  <2> HIDE DEF joined
  <2> QED BY <2>2, <2>4, BecomesStaffed DEF Staffed
<1>2. ASSUME NEW r \in RoomIds, NEW u \in Users, RemovePlayerFromRoom(r, u) PROVE StaffedRooms'
  <2>1. PICK room : room = rooms[r]
    OBVIOUS
  <2> DEFINE left == [room EXCEPT !.roomPlayers[u] = Nil, !.roomPlayersCnt = @ - 1]
  <2>2. room # Nil /\ room.roomPlayers[u] # Nil /\ Becomes(r, EndedIf(NotEnoughPlayers(left), left))
    BY <1>2, <2>1, Zenon DEF RemovePlayerFromRoom
  <2>3. /\ room \in Room /\ room.roomPlayers \in [Users -> RoomPlayer \cup {Nil}]
        /\ room.roomPlayersCnt \in 0 .. maxPlayers
        /\ room.roomPlayersCnt = Cardinality(Players(room)) /\ IsFiniteSet(Players(room))
    BY <2>1, <2>2, GoodRoom
  <2>4. Cardinality(Players(room)) \in Nat /\ Cardinality(Players(room)) # 0
    <3>1. u \in Players(room) /\ IsFiniteSet(Players(room))
      BY <2>2, <2>3, Zenon DEF Players
    <3> QED BY <3>1, FS_CardinalityType, FS_EmptySet
  <2>5. room.roomPlayersCnt - 1 \in 0 .. maxPlayers
    BY <2>3, <2>4, FSRoomAssumption
  <2>6. left \in Room
    <3>1. left = [room EXCEPT !.roomPlayers = [room.roomPlayers EXCEPT ![u] = Nil],
                              !.roomPlayersCnt = room.roomPlayersCnt - 1]
      BY <2>3 DEF Room
    <3>2. [room.roomPlayers EXCEPT ![u] = Nil] \in [Users -> RoomPlayer \cup {Nil}]
      BY <2>3
    <3> HIDE DEF left
    <3> QED BY <2>3, <2>5, <3>1, <3>2 DEF Room
  <2> HIDE DEF left
  <2>7. NotEnoughPlayers(left) \/ Staffed(left)
    BY DEF NotEnoughPlayers, Staffed
  <2> QED BY <2>2, <2>6, <2>7, EndedIfStaffed, BecomesStaffed
<1>3. ASSUME NEW r \in RoomIds, NEW u \in Users, SetPlayerReady(r, u) PROVE StaffedRooms'
  <2>1. PICK room : room = rooms[r]
    OBVIOUS
  <2> DEFINE ready == [room EXCEPT !.roomPlayers[u].isReady = TRUE]
  <2>2. room # Nil /\ Becomes(r, IF AllPlayersReady(ready) THEN StartGame(ready) ELSE ready)
    BY <1>3, <2>1, Zenon DEF SetPlayerReady
  <2>3. room \in Room /\ Staffed(room)
    BY <2>1, <2>2, GoodRoom DEF StaffedRooms
  <2>4. ready = [room EXCEPT !.roomPlayers = [room.roomPlayers EXCEPT ![u].isReady = TRUE]]
    BY <2>3 DEF Room
  <2>5. ready.state = room.state /\ ready.roomPlayersCnt = room.roomPlayersCnt
        /\ room.roomPlayersCnt \in Nat
    BY <2>3, <2>4, FSRoomAssumption DEF Room
  <2> HIDE DEF ready
  <2>6. Staffed(ready)
    BY <2>3, <2>5 DEF Staffed
  <2>7. AllPlayersReady(ready) => Staffed(StartGame(ready))
    <3> SUFFICES ASSUME AllPlayersReady(ready) PROVE Staffed(StartGame(ready))
      OBVIOUS
    <3>1. ready.roomPlayersCnt # 0
      BY <2>5 DEF AllPlayersReady
    <3>2. StartGame(ready).roomPlayersCnt = ready.roomPlayersCnt
      BY DEF StartGame, SyncStart
    <3> QED BY <3>1, <3>2 DEF Staffed
  <2> QED BY <2>2, <2>6, <2>7, BecomesStaffed
<1>4. ASSUME NEW r \in RoomIds, NEW u \in Users, NEW d \in Data, ProcessCommand(r, u, d)
      PROVE  StaffedRooms'
  <2>1. PICK c : rooms' = [rooms EXCEPT ![r] = AddCommand(rooms[r], c)]
    BY <1>4, Zenon DEF ProcessCommand
  <2>2. rooms[r] \in Room /\ Staffed(rooms[r])
    BY <1>4, GoodRoom DEF ProcessCommand, StaffedRooms
  <2>3. Staffed(AddCommand(rooms[r], c))
    BY <2>2 DEF AddCommand, Staffed, Room
  <2>4. \A q \in RoomIds : rooms'[q] # Nil => Staffed(rooms'[q])
    BY <2>1, <2>3 DEF StaffedRooms, IInv
  <2> QED BY <2>4 DEF StaffedRooms, Staffed
<1>5. ASSUME NEW r \in RoomIds, Update(r) PROVE StaffedRooms'
  <2>1. /\ rooms[r] # Nil /\ rooms[r].state = "running" /\ rooms[r].currentFrame < MaxFrames
        /\ Becomes(r, EndedIf(CheckGameEnd(NextFrame(rooms[r])), NextFrame(rooms[r])))
    BY <1>5, Zenon DEF Update
  <2>2. NextFrame(rooms[r]) \in Room
    BY <2>1, GoodRoom, NextFrameGood DEF Good, Counted
  <2>3. rooms[r] \in Room /\ Staffed(rooms[r])
    BY <2>1, GoodRoom DEF StaffedRooms
  <2>4. Staffed(NextFrame(rooms[r]))
    BY <2>3 DEF NextFrame, Staffed, Room
  <2> QED BY <2>1, <2>2, <2>4, EndedIfStaffed, BecomesStaffed
<1>6. CASE OnReload \/ CleanupFinishedRooms \/ OnStop \/ UNCHANGED vars
  <2>1. \A q \in RoomIds : rooms'[q] \in {rooms[q], NewRoom, Nil}
    BY <1>6 DEF OnReload, CleanupFinishedRooms, OnStop, vars, IInv
  <2>2. Staffed(NewRoom)
    BY DEF Staffed, NewRoom
  <2>3. \A q \in RoomIds : rooms'[q] # Nil => Staffed(rooms'[q])
    BY <2>1, <2>2 DEF StaffedRooms
  <2> QED BY <2>3 DEF StaffedRooms, Staffed
<1> QED BY <1>1, <1>2, <1>3, <1>4, <1>5, <1>6 DEF Next

(* No game goes on in a room that all players have left, whoever leaves     *)
(* when: such a room is finished, and the manager may free it.             *)
THEOREM GamesHavePlayers == Spec => []NoGameWithoutPlayers
<1>1. Init => StaffedRooms
  BY DEF Init, StaffedRooms
<1>2. IInv /\ StaffedRooms => NoGameWithoutPlayers
  <2> SUFFICES ASSUME IInv, StaffedRooms, NEW r \in RoomIds, rooms[r] # Nil
               PROVE  /\ rooms[r].isRunning <=> rooms[r].state = "running"
                      /\ rooms[r].state = "running" => Players(rooms[r]) # {}
    BY DEF NoGameWithoutPlayers
  <2>1. rooms[r].isRunning <=> rooms[r].state = "running"
    BY GoodRoom, Zenon DEF Good, Running
  <2>2. rooms[r].roomPlayersCnt = Cardinality(Players(rooms[r])) /\ Staffed(rooms[r])
    BY GoodRoom DEF StaffedRooms
  <2> QED BY <2>1, <2>2, FS_EmptySet DEF Staffed
<1> QED BY InitInv, NextInv, StaffedStep, <1>1, <1>2, PTL DEF Spec
=============================================================================
