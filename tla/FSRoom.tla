------------------------------- MODULE FSRoom -------------------------------
(***************************************************************************)
(* The frame-synchronised rooms: their players, their state, the commands   *)
(* and frames of their game, and the manager that creates and frees them.  *)
(*                                                                         *)
(* Rooms are a library so far: no handler of the server calls it, so any    *)
(* order of calls is possible.  What waits for a clock happens at any time, *)
(* and what a call does when it is too early, or refused, is nothing.      *)
(***************************************************************************)
EXTENDS Integers, Sequences, FiniteSets

CONSTANTS
  Users,
  RoomIds,     \* the room ids of the configuration
  maxPlayers,
  Data,        \* what a command may say
  MaxFrames,   \* bound: frames of a game
  MaxCommands, \* bound: commands accepted in a game
  Nil

ASSUME FSRoomAssumption ==
  /\ maxPlayers \in Nat \ {0} /\ MaxFrames \in Nat /\ MaxCommands \in Nat
  /\ IsFiniteSet(Users)

VARIABLES
  rooms,    \* FSRoomMgr.rooms
  accepted  \* history: the commands each room said yes to, since it exists

vars == <<rooms, accepted>>

Command == [userId : Users, data : Data, frameId : 0 .. MaxFrames]
Frame   == [frameId : 1 .. MaxFrames, commands : Seq(Command)]

(* A player of a room: nobody ever gives it HP.                            *)
RoomPlayer == [isReady : BOOLEAN, HP : Nat]

Room == [state : {"waiting", "running", "finished"},
         roomPlayers : [Users -> RoomPlayer \cup {Nil}],
         roomPlayersCnt : 0 .. maxPlayers,
         isRunning : BOOLEAN,
         currentFrame : 0 .. MaxFrames,
         frameHistory : Seq(Frame),
         frameCommands : Seq(Command)]

ASSUME NilAssumption == Nil \notin RoomPlayer /\ Nil \notin Room

Players(room) == {u \in Users : room.roomPlayers[u] # Nil}

TypeOK ==
  /\ rooms \in [RoomIds -> Room \cup {Nil}]
  /\ accepted \in [RoomIds -> Seq(Command)]
  /\ \A r \in RoomIds : rooms[r] # Nil =>
       rooms[r].roomPlayersCnt = Cardinality(Players(rooms[r]))

NewRoom ==
  [state |-> "waiting",
   roomPlayers |-> [u \in Users |-> Nil], roomPlayersCnt |-> 0,
   isRunning |-> FALSE, currentFrame |-> 0, frameHistory |-> <<>>, frameCommands |-> <<>>]

(* Before the first reload.                                                *)
Init ==
  /\ rooms = [r \in RoomIds |-> Nil]
  /\ accepted = [r \in RoomIds |-> <<>>]

(* What the operations do to a room that exists.                           *)
Becomes(r, room) ==
  /\ rooms' = [rooms EXCEPT ![r] = room]
  /\ UNCHANGED accepted

-----------------------------------------------------------------------------
(* The life of a game.                                                     *)

(* FSRoomSync: the frames.  A new game starts with none.                   *)
SyncStart(room) ==
  [room EXCEPT !.isRunning = TRUE, !.currentFrame = 0, !.frameHistory = <<>>]

SyncStop(room) == [room EXCEPT !.isRunning = FALSE]

AddCommand(room, command) ==
  IF room.isRunning THEN [room EXCEPT !.frameCommands = Append(@, command)] ELSE room

StartGame(room) ==
  IF room.state # "waiting" THEN room
  ELSE SyncStart([room EXCEPT !.state = "running"])

FinishGame(room) ==
  IF room.state # "running" THEN room
  ELSE SyncStop([room EXCEPT !.state = "finished"])

Alive(room) == {u \in Players(room) : room.roomPlayers[u].HP > 0}

(* Exactly one player is alive.                                            *)
CheckGameEnd(room) == Cardinality(Alive(room)) = 1

EndedIf(over, room) == IF over THEN FinishGame(room) ELSE room

\* Mutant: an empty room is treated like any other one.
NotEnoughAlive(room) == room.state = "running" /\ CheckGameEnd(room)

(* What is asked of a room that a player has just left.                    *)
NotEnoughPlayers(room) ==
  room.roomPlayersCnt = 0 \/ (room.state = "running" /\ CheckGameEnd(room))

-----------------------------------------------------------------------------
(* The players.                                                            *)

AddPlayerToRoom(r, u) ==
  /\ rooms[r] # Nil
  /\ rooms[r].roomPlayersCnt < maxPlayers
  /\ rooms[r].state = "waiting"
  /\ rooms[r].roomPlayers[u] = Nil
  /\ Becomes(r, [rooms[r] EXCEPT !.roomPlayers[u] = [isReady |-> FALSE, HP |-> 0],
                                 !.roomPlayersCnt = @ + 1])

\* Mutant: the count is left as it is.
RemoveUncounted(r, u) ==
  /\ rooms[r] # Nil
  /\ rooms[r].roomPlayers[u] # Nil
  /\ LET left == [rooms[r] EXCEPT !.roomPlayers[u] = Nil] IN
       Becomes(r, EndedIf(NotEnoughPlayers(left), left))

RemovePlayerFromRoom(r, u) ==
  /\ rooms[r] # Nil
  /\ rooms[r].roomPlayers[u] # Nil
  /\ LET left == [rooms[r] EXCEPT !.roomPlayers[u] = Nil, !.roomPlayersCnt = @ - 1] IN
       Becomes(r, EndedIf(NotEnoughPlayers(left), left))

AllPlayersReady(room) ==
  /\ room.roomPlayersCnt >= 2
  /\ \A u \in Players(room) : room.roomPlayers[u].isReady

SetPlayerReady(r, u) ==
  /\ rooms[r] # Nil
  /\ rooms[r].roomPlayers[u] # Nil
  /\ LET ready == [rooms[r] EXCEPT !.roomPlayers[u].isReady = TRUE] IN
       Becomes(r, IF AllPlayersReady(ready) THEN StartGame(ready) ELSE ready)

-----------------------------------------------------------------------------
(* Commands and frames.                                                    *)

(* Whose command it is, is not checked before the frame is run.            *)
ProcessCommand(r, u, d) ==
  /\ rooms[r] # Nil
  /\ rooms[r].state = "running"
  /\ Len(accepted[r]) < MaxCommands
  /\ LET command == [userId |-> u, data |-> d, frameId |-> rooms[r].currentFrame] IN
       /\ rooms' = [rooms EXCEPT ![r] = AddCommand(@, command)]
       /\ accepted' = [accepted EXCEPT ![r] = Append(@, command)]

\* Mutants: the commands stay for the frame after, and the frame gets the
\* number of the one before.
KeepsCommands(room) ==
  [room EXCEPT !.currentFrame = @ + 1,
     !.frameHistory = Append(@, [frameId |-> room.currentFrame + 1,
                                 commands |-> room.frameCommands])]
NumbersLate(room) ==
  [room EXCEPT !.currentFrame = @ + 1, !.frameCommands = <<>>,
     !.frameHistory = Append(@, [frameId |-> room.currentFrame + (IF room.currentFrame = 0 THEN 1 ELSE 0),
                                 commands |-> room.frameCommands])]

(* sync:Update: what was collected becomes a frame.                        *)
NextFrame(room) ==
  [room EXCEPT !.currentFrame = @ + 1, !.frameCommands = <<>>,
     !.frameHistory = Append(@, [frameId |-> room.currentFrame + 1,
                                 commands |-> room.frameCommands])]

(* The battle refuses every command of the frame, and cools down no skill,  *)
(* since nobody is alive; the end of the game is looked for.               *)
Update(r) ==
  /\ rooms[r] # Nil
  /\ rooms[r].state = "running"
  /\ rooms[r].isRunning
  /\ rooms[r].currentFrame < MaxFrames
  /\ LET room == NextFrame(rooms[r]) IN
       Becomes(r, EndedIf(CheckGameEnd(room), room))

(* The frames after one, whose number HandleReconnect logs; it sends none.  *)
GetFramesSince(room, lastFrameId) ==
  LET history == room.frameHistory
      missed[i \in 0 .. Len(history)] ==
        IF i = 0 THEN <<>>
        ELSE IF history[i].frameId > lastFrameId THEN Append(missed[i - 1], history[i])
        ELSE missed[i - 1]
  IN missed[Len(history)]

-----------------------------------------------------------------------------
(* The manager.                                                            *)

(* A room that exists is kept as it is.                                    *)
OnReload ==
  /\ rooms' = [r \in RoomIds |-> IF rooms[r] = Nil THEN NewRoom ELSE rooms[r]]
  /\ UNCHANGED accepted

(* Its state is finished, its players are gone, and lastUpdateStateTime, a  *)
(* zero that nobody updates, is more than three minutes ago.               *)
Removable(room) == room # Nil /\ room.state = "finished" /\ room.roomPlayersCnt = 0

CleanupFinishedRooms ==
  /\ \E r \in RoomIds : Removable(rooms[r])
  /\ rooms' = [r \in RoomIds |-> IF Removable(rooms[r]) THEN Nil ELSE rooms[r]]
  /\ accepted' = [r \in RoomIds |-> IF Removable(rooms[r]) THEN <<>> ELSE accepted[r]]

(* The process stops: every room is deleted, whatever its state.  The next  *)
(* process starts from nothing.                                            *)
OnStop ==
  /\ rooms' = [r \in RoomIds |-> Nil]
  /\ accepted' = [r \in RoomIds |-> <<>>]

-----------------------------------------------------------------------------
Next ==
  \/ \E r \in RoomIds, u \in Users :
       \/ AddPlayerToRoom(r, u)
       \/ RemovePlayerFromRoom(r, u)
       \/ SetPlayerReady(r, u)
       \/ \E d \in Data : ProcessCommand(r, u, d)
  \/ \E r \in RoomIds : Update(r)
  \/ OnReload
  \/ CleanupFinishedRooms
  \/ OnStop

(* The manager's tick looks for rooms to free every twenty seconds.        *)
Fairness == WF_vars(CleanupFinishedRooms)

Spec     == Init /\ [][Next]_vars
FairSpec == Spec /\ Fairness
=============================================================================
