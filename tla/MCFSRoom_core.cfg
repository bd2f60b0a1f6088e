SPECIFICATION FairSpec
CONSTANTS
  Users = {"u1", "u2", "u3"}
  RoomIds = {1}
  maxPlayers = 2
  Data = {"move", "skill"}
  MaxFrames = 3
  MaxCommands = 3
  Nil = Nil
INVARIANTS FramesSinceExact CommandsRunOnce NoGameWithoutPlayers
PROPERTY FreedAgain
