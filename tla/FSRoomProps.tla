---------------------------- MODULE FSRoomProps ----------------------------
(***************************************************************************)
(* Correctness properties of the rooms.                                    *)
(***************************************************************************)
EXTENDS FSRoom

(* GetFramesSince, asked for what follows frame n, returns the history from  *)
(* its place n on, and the frame that is current is the last of the history: *)
(* the numbers of frames and their places never come apart, however players  *)
(* come, ready themselves and leave, and whatever starts, ends or frees the  *)
(* room.  HandleReconnect, the only caller, sends nothing of it.             *)
FramesSinceExact ==
  \A r \in RoomIds : rooms[r] # Nil =>
    LET history == rooms[r].frameHistory IN
      /\ rooms[r].currentFrame = Len(history)
      /\ \A n \in 0 .. Len(history) :
           SubSeq(history, 1, n) \o GetFramesSince(rooms[r], n) = history

(* The commands of a game's frames, in the order in which they are run.     *)
CommandsOf(history) ==
  LET run[i \in 0 .. Len(history)] ==
        IF i = 0 THEN <<>> ELSE run[i - 1] \o history[i].commands
  IN run[Len(history)]

(* Every command that was accepted is run once, in the order of acceptance, *)
(* in the frame after the one that was current: the frames of the history   *)
(* and the frame that is being collected are the accepted commands, cut up. *)
CommandsRunOnce ==
  \A r \in RoomIds : rooms[r] # Nil =>
    LET history == rooms[r].frameHistory
    IN /\ CommandsOf(history) \o rooms[r].frameCommands = accepted[r]
       /\ \A i \in 1 .. Len(history) : \A j \in 1 .. Len(history[i].commands) :
            history[i].commands[j].frameId + 1 = history[i].frameId

(* A game never goes on without players, and its frames go on exactly as    *)
(* long as it does: the room that the last player leaves is finished, on    *)
(* whichever of the ways that players leave and games end.                 *)
NoGameWithoutPlayers ==
  \A r \in RoomIds : rooms[r] # Nil =>
    /\ rooms[r].isRunning <=> rooms[r].state = "running"
    /\ rooms[r].state = "running" => Players(rooms[r]) # {}

(* A room in which a game was started is free again some time after all of  *)
(* its players have left, however they leave and whatever the game does.    *)
FreedAgain ==
  \A r \in RoomIds :
    (rooms[r] # Nil /\ rooms[r].state # "waiting" /\ Players(rooms[r]) = {})
      ~> (rooms[r] = Nil)
=============================================================================
