---------------------------- MODULE SessionProps ----------------------------
(***************************************************************************)
(* Correctness properties of Session.                                      *)
(***************************************************************************)
EXTENDS Session

(* One user is played by at most one connection and the tables agree: the   *)
(* two maps of PlayerMgr are inverse to each other, and they bind exactly   *)
(* the connections that have a Player object, which carries the same user.  *)
(* Two logins of one user may be in flight at once; only the checks after   *)
(* the database's answer keep the second from creating a second Player.     *)
BindingOK ==
  /\ \A c \in Conns : players[c] = NoPlayer <=> playerIdToUserId[c] = NoUser
  /\ \A c \in Conns : players[c] # NoPlayer => players[c].userId = playerIdToUserId[c]
  /\ \A c \in Conns, u \in Users :
       playerIdToUserId[c] = u <=> userIdToPlayerId[u] = c

(* No ghost player: the connection of every Player object either still      *)
(* lives or its CLOSE event is still to be handled.  A Player created by an  *)
(* answer that arrives after the CLOSE would occupy its user for ever.      *)
NoGhostPlayer ==
  \A c \in Conns : players[c] # NoPlayer =>
    \/ conn[c] = "open"
    \/ \E i \in DOMAIN fromClient[c] : fromClient[c][i].type = "close"

(* The life of a connection as its messages tell it, and what the inductive *)
(* proof of the two properties around it needs: NEW comes first and CLOSE   *)
(* last, a connection is online only between the two, and only an online    *)
(* connection has a Player.                                                *)
LifeOf(c) ==
  /\ conn[c] = "none" => fromClient[c] = <<>> /\ c \notin online
  /\ \A i \in 1 .. Len(fromClient[c]) :
       /\ fromClient[c][i].type = "new" => i = 1 /\ c \notin online
       /\ fromClient[c][i].type = "close" => i = Len(fromClient[c]) /\ conn[c] = "closed"
       /\ i = Len(fromClient[c]) /\ conn[c] = "closed" => fromClient[c][i].type = "close"
  /\ conn[c] = "closed" /\ c \in online => fromClient[c] # <<>>
  /\ players[c] # NoPlayer => c \in online

ConnLife == \A c \in Conns : LifeOf(c)

(* The branch the NEW handler logs as "Fatal": a connection that is only    *)
(* now announced already has a Player.  It is never taken.                  *)
NewConnHasNoPlayer ==
  \A c \in Conns : \A i \in DOMAIN fromClient[c] :
    fromClient[c][i].type = "new" => players[c] = NoPlayer /\ c \notin online

(* After a safe stop no Player is created any more, whatever answers of     *)
(* dbsvrgo are still under way.                                             *)
NoLoginAfterSafeStop ==
  [][safeStop => \A c \in Conns : players'[c] # NoPlayer => players[c] # NoPlayer]_vars

(* A safe stop overlooks nobody: every Player that is left has a CLOSE      *)
(* request on its way to the worker, or its connection is closed already,   *)
(* also when its LOGIN or its connection was on its way when the safe stop  *)
(* came.                                                                   *)
SafeStopKicksAll ==
  safeStop => \A c \in Conns :
    players[c] # NoPlayer => c \in closeReq \/ conn[c] = "closed"

(* The login service implements an exclusive lock per user.                *)
Lock == INSTANCE SessionLock WITH owner <- userIdToPlayerId, open <- ~safeStop
ImplementsLock == Lock!LockSpec

-----------------------------------------------------------------------------
(* Where a user's data is: in its Player object, else in the last write     *)
(* that is still on its way to the database, else in the database.          *)
Pending(u) == {i \in DOMAIN toDb : toDb[i].type = "write" /\ toDb[i].userId = u}

Saved(u) ==
  IF Pending(u) = {} THEN db[u]
  ELSE toDb[CHOOSE i \in Pending(u) : \A j \in Pending(u) : j <= i].version

Data(u) ==
  IF userIdToPlayerId[u] = NoConn THEN Saved(u)
  ELSE players[userIdToPlayerId[u]].version

(* While the logins of one user do not overlap and nothing is lost, the     *)
(* asynchronous copies of a record behave as one: the login that follows a  *)
(* logout sees what the logout saved although nobody acknowledged it.       *)
Durable == INSTANCE DurableSession WITH
  owner <- userIdToPlayerId, open <- ~safeStop,
  data <- [u \in Users |-> Data(u)]
ImplementsDurable == Durable!DurableSpec

(* A Player starts from the newest data of its user.                       *)
LoginLoadsLatest ==
  [][\A c \in Conns :
       players[c] = NoPlayer /\ players'[c] # NoPlayer
         => players'[c].version = Data(players'[c].userId)]_vars

(* A client whose connection lives is told OK only if it has a Player       *)
(* afterwards.                                                              *)
OkMeansPlayer ==
  [][\A c \in Conns :
       c \in online /\ "OK" \in replies'[c] \ replies[c] => players'[c] # NoPlayer]_vars

-----------------------------------------------------------------------------
(* A connection that is gone gives its user back, for good.                *)
ClosedConnLeaves ==
  \A c \in Conns : conn[c] = "closed" ~> [](players[c] = NoPlayer)

(* A safe stop gets rid of every Player, for good.                         *)
SafeStopDrains == safeStop ~> []NoPlayers

(* ... and the database ends up with what each of them last held.          *)
SafeStopPersists ==
  \A u \in Users : \A v \in 0 .. MaxVersion :
    (safeStop /\ Data(u) = v) ~> (NoPlayers /\ db[u] # NoRecord /\ db[u] >= v)
=============================================================================
