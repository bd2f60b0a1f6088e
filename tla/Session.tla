------------------------------ MODULE Session ------------------------------
(***************************************************************************)
(* The login session of the game server: the player manager of the "other" *)
(* Lua VM, the handlers that feed it, and the parties it talks to          *)
(* asynchronously.                                                         *)
(*                                                                         *)
(*   clients --(worker tunnels)--> handlers <--(IPC stream)--> dbsvrgo      *)
(*                                                                         *)
(* One handler runs at a time (one Lua VM, one thread), so every handler   *)
(* is one action.  What interleaves is the delivery: a LOGIN is answered   *)
(* only after a round trip to dbsvrgo, and the connection may close, the   *)
(* user may log in elsewhere, or the server may start its safe stop in     *)
(* between.                                                                *)
(*                                                                         *)
(* A playerId is "<gid>_<worker>" of a connection; a member of Conns stands *)
(* for both.  A user's record is abstracted to a version: the number of    *)
(* ticks of play it holds.                                                 *)
(***************************************************************************)
EXTENDS Integers, Sequences, FiniteSets

CONSTANTS
  Conns,        \* client connections, each opened at most once (a gid is not reused)
  Users,        \* account names
  Creds,        \* what a LOGIN may carry: a right, a wrong or an empty password
  NoUser, NoConn, NoPlayer, NoRecord,  \* Lua's nil in the four tables
  MaxVersion,   \* bound: ticks of play a record may hold
  MaxReqs,      \* bound: requests a connection sends
  MaxDrops,     \* bound: times the IPC link or a write of dbsvrgo fails
  SerialLogins, \* environment: no two login attempts of one user overlap
  OrderlyStop   \* operator: the process is stopped only after a safe stop has drained

PlayerObj == [userId : Users, version : Nat]

ASSUME SessionAssumption ==
  /\ Creds \subseteq {"good", "bad", "empty"}
  /\ NoUser \notin Users
  /\ NoConn \notin Conns
  /\ NoPlayer \notin PlayerObj
  /\ NoRecord \notin Nat
  /\ MaxVersion \in Nat /\ MaxReqs \in Nat /\ MaxDrops \in Nat
  /\ SerialLogins \in BOOLEAN /\ OrderlyStop \in BOOLEAN

VARIABLES
  conn,             \* the worker's view of each connection
  sent,             \* requests each connection has sent
  fromClient,       \* tunnel worker -> other VM, in order per connection
  closeReq,         \* CLOSE_CLIENT_CONNECTION requests on their way to a worker
  online,           \* PlayerMgr.playerIdOnlineList
  players,          \* PlayerMgr.players
  userIdToPlayerId, \* PlayerMgr.userIdToPlayerId
  playerIdToUserId, \* PlayerMgr.playerIdToUserId
  safeStop,         \* MapSvr.safeStop
  running,          \* FALSE once MapSvr.OnStop has run
  toDb,             \* requests on their way to dbsvrgo's worker, in order
  fromDb,           \* its answers on their way back, in order
  db,               \* the DbUserRecord table: a version per user
  drops,            \* failures of the link or of a write so far
  replies           \* the login results each connection has been sent

clientVars == <<conn, sent>>
mgrVars    == <<players, userIdToPlayerId, playerIdToUserId>>
dbVars     == <<db, drops>>
vars == <<conn, sent, fromClient, closeReq, online, players, userIdToPlayerId,
          playerIdToUserId, safeStop, running, toDb, fromDb, db, drops, replies>>

Rets == {"OK", "ERR_SERVICE_SAFESTOPED", "ERR_USERID_INPUT_INVALID",
         "ERR_USERID_OR_PASSWORD_NOTMATCH"}

EventMsg  == [type : {"new", "close", "example"}]
LoginMsg  == [type : {"login"}, userId : Users, cred : Creds]
ClientMsg == EventMsg \cup LoginMsg
SelectReq == [type : {"select"}, playerId : Conns, userId : Users, cred : Creds]
WriteReq  == [type : {"write"}, userId : Users, version : Nat]
DbReq     == SelectReq \cup WriteReq
DbRes     == [playerId : Conns, userId : Users, cred : Creds,
              record : Nat \cup {NoRecord}]

TypeOK ==
  /\ conn \in [Conns -> {"none", "open", "closed"}]
  /\ sent \in [Conns -> Nat]
  /\ fromClient \in [Conns -> Seq(ClientMsg)]
  /\ closeReq \subseteq Conns
  /\ online \subseteq Conns
  /\ players \in [Conns -> PlayerObj \cup {NoPlayer}]
  /\ userIdToPlayerId \in [Users -> Conns \cup {NoConn}]
  /\ playerIdToUserId \in [Conns -> Users \cup {NoUser}]
  /\ safeStop \in BOOLEAN
  /\ running \in BOOLEAN
  /\ toDb \in Seq(DbReq)
  /\ fromDb \in Seq(DbRes)
  /\ db \in [Users -> Nat \cup {NoRecord}]
  /\ drops \in Nat
  /\ replies \in [Conns -> SUBSET Rets]

Init ==
  /\ conn = [c \in Conns |-> "none"]
  /\ sent = [c \in Conns |-> 0]
  /\ fromClient = [c \in Conns |-> <<>>]
  /\ closeReq = {}
  /\ online = {}
  /\ players = [c \in Conns |-> NoPlayer]
  /\ userIdToPlayerId = [u \in Users |-> NoConn]
  /\ playerIdToUserId = [c \in Conns |-> NoUser]
  /\ safeStop = FALSE
  /\ running = TRUE
  /\ toDb = <<>>
  /\ fromDb = <<>>
  /\ db \in [Users -> {0, NoRecord}]
  /\ drops = 0
  /\ replies = [c \in Conns |-> {}]

-----------------------------------------------------------------------------
(* Clients and the worker threads that hold their connections.             *)

Deliver(c, m) == fromClient' = [fromClient EXCEPT ![c] = Append(@, m)]

ClientOpen(c) ==
  /\ conn[c] = "none"
  /\ conn' = [conn EXCEPT ![c] = "open"]
  /\ Deliver(c, [type |-> "new"])
  /\ UNCHANGED <<sent, closeReq, online, mgrVars, safeStop, running, toDb,
                 fromDb, dbVars, replies>>

(* A login attempt of u is in flight: its request, its SELECT or the answer *)
(* is still queued somewhere.                                              *)
LoginInFlight(u) ==
  \/ \E c \in Conns : \E i \in DOMAIN fromClient[c] :
       fromClient[c][i].type = "login" /\ fromClient[c][i].userId = u
  \/ \E i \in DOMAIN toDb : toDb[i].type = "select" /\ toDb[i].userId = u
  \/ \E i \in DOMAIN fromDb : fromDb[i].userId = u

ClientRequest(c, m) ==
  /\ conn[c] = "open"
  /\ sent[c] < MaxReqs
  /\ sent' = [sent EXCEPT ![c] = @ + 1]
  /\ Deliver(c, m)
  /\ UNCHANGED <<conn, closeReq, online, mgrVars, safeStop, running, toDb,
                 fromDb, dbVars, replies>>

ClientLogin(c, u, cred) ==
  /\ SerialLogins => ~LoginInFlight(u)
  /\ ClientRequest(c, [type |-> "login", userId |-> u, cred |-> cred])

ClientExample(c) == ClientRequest(c, [type |-> "example"])

(* The client leaves, its network fails, or the worker times it out.       *)
ClientClose(c) ==
  /\ conn[c] = "open"
  /\ conn' = [conn EXCEPT ![c] = "closed"]
  /\ Deliver(c, [type |-> "close"])
  /\ UNCHANGED <<sent, closeReq, online, mgrVars, safeStop, running, toDb,
                 fromDb, dbVars, replies>>

(* The worker obeys a CLOSE request of the other VM; the connection may be  *)
(* gone already.                                                           *)
WorkerClose(c) ==
  /\ c \in closeReq
  /\ closeReq' = closeReq \ {c}
  /\ IF conn[c] = "open"
     THEN /\ conn' = [conn EXCEPT ![c] = "closed"]
          /\ Deliver(c, [type |-> "close"])
     ELSE UNCHANGED <<conn, fromClient>>
  /\ UNCHANGED <<sent, online, mgrVars, safeStop, running, toDb, fromDb,
                 dbVars, replies>>

-----------------------------------------------------------------------------
(* PlayerMgr.                                                              *)

GetPlayerByUserId(u) ==
  IF userIdToPlayerId[u] = NoConn THEN NoPlayer
  ELSE players[userIdToPlayerId[u]]

RemovePlayerByPlayerId(c) ==
  /\ players' = [players EXCEPT ![c] = NoPlayer]
  /\ IF playerIdToUserId[c] = NoUser
     THEN UNCHANGED <<userIdToPlayerId, playerIdToUserId>>
     ELSE /\ userIdToPlayerId' = [userIdToPlayerId EXCEPT ![playerIdToUserId[c]] = NoConn]
          /\ playerIdToUserId' = [playerIdToUserId EXCEPT ![c] = NoUser]

(* CreatePlayer, BindUserIdAndPlayerId, SetUserId and OnLogin: the handler  *)
(* calls them in a row, after the checks that each of them repeats.        *)
CreateAndBind(c, u, version) ==
  /\ players' = [players EXCEPT ![c] = [userId |-> u, version |-> version]]
  /\ userIdToPlayerId' = [userIdToPlayerId EXCEPT ![u] = c]
  /\ playerIdToUserId' = [playerIdToUserId EXCEPT ![c] = u]

(* PlayerMgr.OnTick: every component of every player advances its data.    *)
PlayerTick ==
  /\ running
  /\ \E c \in Conns : players[c] # NoPlayer
  /\ \A c \in Conns : players[c] # NoPlayer => players[c].version < MaxVersion
  /\ players' = [c \in Conns |->
       IF players[c] = NoPlayer THEN NoPlayer
       ELSE [players[c] EXCEPT !.version = @ + 1]]
  /\ UNCHANGED <<clientVars, fromClient, closeReq, online, userIdToPlayerId,
                 playerIdToUserId, safeStop, running, toDb, fromDb, dbVars, replies>>

-----------------------------------------------------------------------------
(* MsgHandlerFromClient: the other VM takes the next message of c.         *)

Reply(c, ret) == replies' = [replies EXCEPT ![c] = @ \cup {ret}]

Receive(c, type) ==
  /\ running
  /\ fromClient[c] # <<>>
  /\ Head(fromClient[c]).type = type
  /\ fromClient' = [fromClient EXCEPT ![c] = Tail(@)]

HandleNew(c) ==
  /\ Receive(c, "new")
  /\ IF players[c] # NoPlayer
     THEN closeReq' = closeReq \cup {c} /\ UNCHANGED online
     ELSE online' = online \cup {c} /\ UNCHANGED closeReq
  /\ UNCHANGED <<clientVars, mgrVars, safeStop, running, toDb, fromDb, dbVars, replies>>

(* Player.OnLogout: the record goes to the database, and nobody waits for   *)
(* an answer.                                                              *)
OnLogout(c) ==
  toDb' = Append(toDb, [type |-> "write", userId |-> players[c].userId,
                        version |-> players[c].version])

\* Mutant: a logout drops the object without saving it.
CloseUnsaved(c) ==
  /\ Receive(c, "close")
  /\ online' = online \ {c}
  /\ IF players[c] # NoPlayer THEN RemovePlayerByPlayerId(c) ELSE UNCHANGED mgrVars
  /\ UNCHANGED <<clientVars, closeReq, safeStop, running, toDb, fromDb, dbVars, replies>>

\* Mutant: the logouts of a safe stop are taken to have been saved by it.
CloseUnsavedInSafeStop(c) ==
  /\ Receive(c, "close")
  /\ online' = online \ {c}
  /\ IF players[c] # NoPlayer
     THEN /\ RemovePlayerByPlayerId(c)
          /\ IF safeStop THEN UNCHANGED toDb ELSE OnLogout(c)
     ELSE UNCHANGED <<toDb, mgrVars>>
  /\ UNCHANGED <<clientVars, closeReq, safeStop, running, fromDb, dbVars, replies>>

(* The player logs out: it is saved and its object is dropped.             *)
HandleClose(c) ==
  /\ Receive(c, "close")
  /\ online' = online \ {c}
  /\ IF players[c] # NoPlayer
     THEN OnLogout(c) /\ RemovePlayerByPlayerId(c)
     ELSE UNCHANGED <<toDb, mgrVars>>
  /\ UNCHANGED <<clientVars, closeReq, safeStop, running, fromDb, dbVars, replies>>

(* A connection that is not logged in is told so and thrown out.           *)
HandleExample(c) ==
  /\ Receive(c, "example")
  /\ closeReq' = IF players[c] = NoPlayer THEN closeReq \cup {c} ELSE closeReq
  /\ UNCHANGED <<clientVars, online, mgrVars, safeStop, running, toDb, fromDb,
                 dbVars, replies>>

(* A second login of a connection or of a logged-in user gets no answer.   *)
HandleLogin(c) ==
  /\ Receive(c, "login")
  /\ LET m == Head(fromClient[c]) IN
       IF players[c] # NoPlayer
       THEN UNCHANGED <<toDb, replies>>
       ELSE IF safeStop
       THEN Reply(c, "ERR_SERVICE_SAFESTOPED") /\ UNCHANGED toDb
       ELSE IF GetPlayerByUserId(m.userId) # NoPlayer
       THEN UNCHANGED <<toDb, replies>>
       ELSE IF m.cred = "empty"
       THEN Reply(c, "ERR_USERID_INPUT_INVALID") /\ UNCHANGED toDb
       ELSE /\ toDb' = Append(toDb, [type |-> "select", playerId |-> c,
                                     userId |-> m.userId, cred |-> m.cred])
            /\ UNCHANGED replies
  /\ UNCHANGED <<clientVars, closeReq, online, mgrVars, safeStop, running,
                 fromDb, dbVars>>

-----------------------------------------------------------------------------
(* MsgHandlerFromOther: the answer of dbsvrgo to a login's SELECT.         *)

\* Mutants: one of the checks is made only when the login is requested.
AcceptsLoggedInUser(res) ==
  /\ ~safeStop /\ res.record # NoRecord /\ res.cred = "good"
  /\ res.playerId \in online /\ players[res.playerId] = NoPlayer
AcceptsLoggedInConn(res) ==
  /\ ~safeStop /\ res.record # NoRecord /\ res.cred = "good"
  /\ res.playerId \in online /\ GetPlayerByUserId(res.userId) = NoPlayer
AcceptsClosedConn(res) ==
  /\ ~safeStop /\ res.record # NoRecord /\ res.cred = "good"
  /\ players[res.playerId] = NoPlayer /\ GetPlayerByUserId(res.userId) = NoPlayer
AcceptsInSafeStop(res) ==
  /\ res.record # NoRecord /\ res.cred = "good" /\ res.playerId \in online
  /\ players[res.playerId] = NoPlayer /\ GetPlayerByUserId(res.userId) = NoPlayer

LoginAccepted(res) ==
  /\ ~safeStop
  /\ res.record # NoRecord
  /\ res.cred = "good"
  /\ res.playerId \in online
  /\ players[res.playerId] = NoPlayer
  /\ GetPlayerByUserId(res.userId) = NoPlayer

\* Mutant: the password check does not reach the answer.
RetIgnoresPassword(res) ==
  IF safeStop THEN "ERR_SERVICE_SAFESTOPED"
  ELSE IF res.record = NoRecord THEN "ERR_USERID_OR_PASSWORD_NOTMATCH"
  ELSE "OK"

(* Every answer but a safe stop's starts as OK and is changed only by a     *)
(* failed password check: a login dropped because its connection is gone or *)
(* its user is already playing is answered OK as well.                     *)
LoginRet(res) ==
  IF safeStop THEN "ERR_SERVICE_SAFESTOPED"
  ELSE IF res.record = NoRecord \/ res.cred # "good"
  THEN "ERR_USERID_OR_PASSWORD_NOTMATCH"
  ELSE "OK"

HandleLoginRes ==
  /\ running
  /\ fromDb # <<>>
  /\ fromDb' = Tail(fromDb)
  /\ LET res == Head(fromDb) IN
       /\ Reply(res.playerId, LoginRet(res))
       /\ IF LoginAccepted(res)
          THEN CreateAndBind(res.playerId, res.userId, res.record)
          ELSE UNCHANGED mgrVars
  /\ UNCHANGED <<clientVars, fromClient, closeReq, online, safeStop, running,
                 toDb, dbVars>>

-----------------------------------------------------------------------------
(* MsgHandlerFromUDP and MapSvr: safe stop and stop.                       *)

\* Mutant: the players are saved but not kicked.
SafeStopKeepsConns ==
  /\ running
  /\ safeStop' = TRUE
  /\ UNCHANGED <<clientVars, fromClient, closeReq, online, mgrVars, running, toDb,
                 fromDb, dbVars, replies>>

SafeStop ==
  /\ running
  /\ safeStop' = TRUE
  /\ closeReq' = closeReq \cup {c \in Conns : players[c] # NoPlayer}
  /\ UNCHANGED <<clientVars, fromClient, online, mgrVars, running, toDb, fromDb,
                 dbVars, replies>>

NoPlayers == \A c \in Conns : players[c] = NoPlayer
NoWrites  == \A i \in DOMAIN toDb : toDb[i].type # "write"
Drained   == safeStop /\ NoPlayers /\ NoWrites

(* PlayerMgr.OnStop drops the players unsaved, and what the process has not *)
(* sent yet dies with it.                                                  *)
Stop ==
  /\ running
  /\ OrderlyStop => Drained
  /\ running' = FALSE
  /\ players' = [c \in Conns |-> NoPlayer]
  /\ userIdToPlayerId' = [u \in Users |->
       IF \E c \in Conns : players[c] # NoPlayer /\ playerIdToUserId[c] = u
       THEN NoConn ELSE userIdToPlayerId[u]]
  /\ playerIdToUserId' = [c \in Conns |->
       IF players[c] # NoPlayer THEN NoUser ELSE playerIdToUserId[c]]
  /\ \E k \in 0 .. Len(toDb) : toDb' = SubSeq(toDb, 1, k)
  /\ UNCHANGED <<clientVars, fromClient, closeReq, online, safeStop, fromDb,
                 dbVars, replies>>

-----------------------------------------------------------------------------
(* dbsvrgo: one goroutine serves the requests in order.                    *)

(* The row is read, or the query fails; either way an answer is sent.      *)
DbSelect ==
  /\ toDb # <<>>
  /\ LET req == Head(toDb) IN
       /\ req.type = "select"
       /\ \E rec \in {db[req.userId], NoRecord} :
            fromDb' = Append(fromDb, [playerId |-> req.playerId, userId |-> req.userId,
                                      cred |-> req.cred, record |-> rec])
  /\ toDb' = Tail(toDb)
  /\ UNCHANGED <<clientVars, fromClient, closeReq, online, mgrVars, safeStop,
                 running, dbVars, replies>>

DbWrite ==
  /\ toDb # <<>>
  /\ Head(toDb).type = "write"
  /\ toDb' = Tail(toDb)
  /\ db' = [db EXCEPT ![Head(toDb).userId] = Head(toDb).version]
  /\ UNCHANGED <<clientVars, fromClient, closeReq, online, mgrVars, safeStop,
                 running, fromDb, drops, replies>>

(* A write that the database refuses is logged and forgotten.              *)
DbWriteFails ==
  /\ toDb # <<>>
  /\ Head(toDb).type = "write"
  /\ drops < MaxDrops
  /\ drops' = drops + 1
  /\ toDb' = Tail(toDb)
  /\ UNCHANGED <<clientVars, fromClient, closeReq, online, mgrVars, safeStop,
                 running, fromDb, db, replies>>

(* The TCP stream breaks: what the receiver has not read is lost, and       *)
(* nobody retries it.                                                      *)
LinkDrop ==
  /\ drops < MaxDrops
  /\ drops' = drops + 1
  /\ \E k \in 0 .. Len(toDb) : toDb' = SubSeq(toDb, 1, k)
  /\ \E k \in 0 .. Len(fromDb) : fromDb' = SubSeq(fromDb, 1, k)
  /\ UNCHANGED <<clientVars, fromClient, closeReq, online, mgrVars, safeStop,
                 running, db, replies>>

-----------------------------------------------------------------------------
Handle(c) == HandleNew(c) \/ HandleClose(c) \/ HandleExample(c) \/ HandleLogin(c)
DbStep    == DbSelect \/ DbWrite

Next ==
  \/ \E c \in Conns :
       \/ ClientOpen(c)
       \/ \E u \in Users, cred \in Creds : ClientLogin(c, u, cred)
       \/ ClientExample(c)
       \/ ClientClose(c)
       \/ WorkerClose(c)
       \/ HandleNew(c)
       \/ HandleClose(c)
       \/ HandleExample(c)
       \/ HandleLogin(c)
  \/ PlayerTick
  \/ HandleLoginRes
  \/ SafeStop
  \/ Stop
  \/ DbSelect
  \/ DbWrite
  \/ DbWriteFails
  \/ LinkDrop

(* The event loops keep draining the tunnels and the stream.  Nothing is    *)
(* assumed of clients, of ticks, of the operator or of failures.           *)
Fairness ==
  /\ \A c \in Conns : WF_vars(WorkerClose(c)) /\ WF_vars(Handle(c))
  /\ WF_vars(HandleLoginRes)
  /\ WF_vars(DbStep)

Spec     == Init /\ [][Next]_vars
FairSpec == Spec /\ Fairness
=============================================================================
