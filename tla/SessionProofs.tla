--------------------------- MODULE SessionProofs ---------------------------
(***************************************************************************)
(* Proofs about Session for every set of connections and users and every   *)
(* bound: type correctness, the consistency of the player tables, the      *)
(* absence of ghost players, the refinement of the lock, the players that a *)
(* safe stop has to see off, and, where logins do not overlap and nothing   *)
(* fails, the refinement of the durable record.                            *)
(***************************************************************************)
EXTENDS SessionProps, SequenceTheorems, TLAPS, WellFoundedInduction

USE SessionAssumption

-----------------------------------------------------------------------------
(* Every message a client or a worker enqueues is a ClientMsg.             *)
LEMMA DeliverType ==
  ASSUME TypeOK, NEW c \in Conns, NEW m \in ClientMsg, Deliver(c, m)
  PROVE  fromClient' \in [Conns -> Seq(ClientMsg)]
BY DEF TypeOK, Deliver

(* A handler finds a message of its own type at the head of the tunnel.     *)
LEMMA ReceiveType ==
  ASSUME TypeOK, NEW c \in Conns, NEW t, Receive(c, t)
  PROVE  /\ fromClient' \in [Conns -> Seq(ClientMsg)]
         /\ Head(fromClient[c]) \in ClientMsg
         /\ Head(fromClient[c]).type = t
BY DEF TypeOK, Receive

(* Player objects stay well formed whoever is removed.                     *)
LEMMA RemoveType ==
  ASSUME TypeOK, NEW c \in Conns, RemovePlayerByPlayerId(c)
  PROVE  /\ players' \in [Conns -> PlayerObj \cup {NoPlayer}]
         /\ userIdToPlayerId' \in [Users -> Conns \cup {NoConn}]
         /\ playerIdToUserId' \in [Conns -> Users \cup {NoUser}]
BY DEF TypeOK, RemovePlayerByPlayerId

(* A reply is one of the error codes of proto_err_code.proto.              *)
LEMMA ReplyType ==
  ASSUME TypeOK, NEW c \in Conns, NEW ret \in Rets, Reply(c, ret)
  PROVE  replies' \in [Conns -> SUBSET Rets]
<1>1. replies[c] \cup {ret} \in SUBSET Rets  BY DEF TypeOK
<1> QED  BY <1>1 DEF TypeOK, Reply

(* TypeOK is inductive: no handler, whatever the order of the messages,     *)
(* puts anything but a Player, a connection or a user in the tables.        *)
LEMMA TypeStep == TypeOK /\ [Next]_vars => TypeOK'
<1> SUFFICES ASSUME TypeOK, [Next]_vars PROVE TypeOK'
  OBVIOUS
<1>1. ASSUME NEW c \in Conns, ClientOpen(c) PROVE TypeOK'
  <2>1. [type |-> "new"] \in ClientMsg  BY DEF ClientMsg, EventMsg
  <2>2. fromClient' \in [Conns -> Seq(ClientMsg)]  BY <1>1, <2>1, DeliverType DEF ClientOpen
  <2> QED  BY <1>1, <2>2 DEF ClientOpen, TypeOK, mgrVars, dbVars
<1>2. ASSUME NEW c \in Conns, NEW m \in ClientMsg, ClientRequest(c, m) PROVE TypeOK'
  <2>1. fromClient' \in [Conns -> Seq(ClientMsg)]  BY <1>2, DeliverType DEF ClientRequest
  <2>2. sent' \in [Conns -> Nat]  BY <1>2 DEF ClientRequest, TypeOK
  <2> QED  BY <1>2, <2>1, <2>2 DEF ClientRequest, TypeOK, mgrVars, dbVars
<1>3. ASSUME NEW c \in Conns, ClientClose(c) PROVE TypeOK'
  <2>1. [type |-> "close"] \in ClientMsg  BY DEF ClientMsg, EventMsg
  <2>2. fromClient' \in [Conns -> Seq(ClientMsg)]  BY <1>3, <2>1, DeliverType DEF ClientClose
  <2> QED  BY <1>3, <2>2 DEF ClientClose, TypeOK, mgrVars, dbVars
<1>4. ASSUME NEW c \in Conns, WorkerClose(c) PROVE TypeOK'
  <2>1. [type |-> "close"] \in ClientMsg  BY DEF ClientMsg, EventMsg
  <2>2. fromClient' \in [Conns -> Seq(ClientMsg)]
    BY <1>4, <2>1, DeliverType DEF WorkerClose, TypeOK
  <2>3. conn' \in [Conns -> {"none", "open", "closed"}]  BY <1>4 DEF WorkerClose, TypeOK
  <2> QED  BY <1>4, <2>2, <2>3 DEF WorkerClose, TypeOK, mgrVars, dbVars
<1>5. CASE PlayerTick
  <2>1. players' \in [Conns -> PlayerObj \cup {NoPlayer}]
    BY <1>5 DEF PlayerTick, TypeOK, PlayerObj
  <2> QED  BY <1>5, <2>1 DEF PlayerTick, TypeOK, clientVars, dbVars
<1>6. ASSUME NEW c \in Conns, HandleNew(c) PROVE TypeOK'
  <2>1. fromClient' \in [Conns -> Seq(ClientMsg)]  BY <1>6, ReceiveType DEF HandleNew
  <2> QED  BY <1>6, <2>1 DEF HandleNew, TypeOK, clientVars, mgrVars, dbVars
<1>7. ASSUME NEW c \in Conns, HandleClose(c) PROVE TypeOK'
  <2>1. fromClient' \in [Conns -> Seq(ClientMsg)]  BY <1>7, ReceiveType DEF HandleClose
  <2>2. CASE players[c] # NoPlayer
    <3>1. players[c] \in PlayerObj  BY <2>2 DEF TypeOK
    <3>2. [type |-> "write", userId |-> players[c].userId,
           version |-> players[c].version] \in DbReq
      BY <3>1 DEF DbReq, WriteReq, PlayerObj
    <3>3. toDb' \in Seq(DbReq)
      <4>1. toDb' = Append(toDb, [type |-> "write", userId |-> players[c].userId,
                                  version |-> players[c].version])
        BY <1>7, <2>2 DEF HandleClose, OnLogout
      <4> QED  BY <3>2, <4>1, AppendProperties DEF TypeOK
    <3>4. RemovePlayerByPlayerId(c)  BY <1>7, <2>2 DEF HandleClose
    <3> QED  BY <1>7, <2>1, <3>3, <3>4, RemoveType DEF HandleClose, TypeOK, clientVars, dbVars
  <2>3. CASE players[c] = NoPlayer
    BY <1>7, <2>1, <2>3 DEF HandleClose, TypeOK, clientVars, mgrVars, dbVars
  <2> QED  BY <2>2, <2>3
<1>8. ASSUME NEW c \in Conns, HandleExample(c) PROVE TypeOK'
  <2>1. fromClient' \in [Conns -> Seq(ClientMsg)]  BY <1>8, ReceiveType DEF HandleExample
  <2> QED  BY <1>8, <2>1 DEF HandleExample, TypeOK, clientVars, mgrVars, dbVars
<1>9. ASSUME NEW c \in Conns, HandleLogin(c) PROVE TypeOK'
  <2>1. fromClient' \in [Conns -> Seq(ClientMsg)]  BY <1>9, ReceiveType DEF HandleLogin
  <2> DEFINE m == Head(fromClient[c])
  <2>2. m \in LoginMsg
    <3>1. m \in ClientMsg /\ m.type = "login"  BY <1>9, ReceiveType DEF HandleLogin
    <3> QED  BY <3>1 DEF ClientMsg, EventMsg, LoginMsg
  <2>3. [type |-> "select", playerId |-> c, userId |-> m.userId, cred |-> m.cred] \in DbReq
    BY <2>2 DEF LoginMsg, DbReq, SelectReq
  <2>4. toDb' \in Seq(DbReq)
    <3>1. \/ toDb' = toDb
          \/ toDb' = Append(toDb, [type |-> "select", playerId |-> c,
                                   userId |-> m.userId, cred |-> m.cred])
      BY <1>9 DEF HandleLogin
    <3>2. CASE toDb' = toDb  BY <3>2 DEF TypeOK
    <3>3. CASE toDb' = Append(toDb, [type |-> "select", playerId |-> c,
                                     userId |-> m.userId, cred |-> m.cred])
      <4> HIDE DEF m
      <4> QED  BY <2>3, <3>3, AppendProperties DEF TypeOK
    <3> QED  BY <3>1, <3>2, <3>3
  <2>5. replies' \in [Conns -> SUBSET Rets]
    <3>1. \/ replies' = replies
          \/ Reply(c, "ERR_SERVICE_SAFESTOPED")
          \/ Reply(c, "ERR_USERID_INPUT_INVALID")
      BY <1>9 DEF HandleLogin
    <3> QED  BY <3>1, ReplyType DEF TypeOK, Rets
  <2> QED
    BY <1>9, <2>1, <2>4, <2>5 DEF HandleLogin, TypeOK, clientVars, mgrVars, dbVars
<1>10. CASE HandleLoginRes
  <2> DEFINE res == Head(fromDb)
  <2>1. res \in DbRes /\ fromDb' \in Seq(DbRes)  BY <1>10 DEF HandleLoginRes, TypeOK
  <2>2. replies' \in [Conns -> SUBSET Rets]
    <3>1. Reply(res.playerId, LoginRet(res))  BY <1>10 DEF HandleLoginRes
    <3>2. res.playerId \in Conns /\ LoginRet(res) \in Rets  BY <2>1 DEF LoginRet, Rets, DbRes
    <3> QED  BY <3>1, <3>2, ReplyType
  <2>3. /\ players' \in [Conns -> PlayerObj \cup {NoPlayer}]
        /\ userIdToPlayerId' \in [Users -> Conns \cup {NoConn}]
        /\ playerIdToUserId' \in [Conns -> Users \cup {NoUser}]
    <3>1. CASE LoginAccepted(res)
      <4>1. res.playerId \in Conns /\ res.userId \in Users /\ res.record \in Nat
        BY <2>1, <3>1 DEF LoginAccepted, DbRes
      <4>2. CreateAndBind(res.playerId, res.userId, res.record)
        BY <1>10, <3>1 DEF HandleLoginRes
      <4> QED  BY <4>1, <4>2 DEF CreateAndBind, TypeOK, PlayerObj
    <3>2. CASE ~LoginAccepted(res)
      BY <1>10, <3>2 DEF HandleLoginRes, TypeOK, mgrVars
    <3> QED  BY <3>1, <3>2
  <2> QED  BY <1>10, <2>1, <2>2, <2>3 DEF HandleLoginRes, TypeOK, clientVars, dbVars
<1>11. CASE SafeStop
  BY <1>11 DEF SafeStop, TypeOK, clientVars, mgrVars, dbVars
<1>12. CASE Stop
  <2>1. toDb' \in Seq(DbReq)  BY <1>12, SubSeqProperties DEF Stop, TypeOK
  <2> QED  BY <1>12, <2>1 DEF Stop, TypeOK, clientVars, dbVars
<1>13. CASE DbSelect
  <2> DEFINE req == Head(toDb)
  <2>1. req \in SelectReq /\ toDb' \in Seq(DbReq)
    BY <1>13 DEF DbSelect, TypeOK, DbReq, SelectReq, WriteReq
  <2>2. PICK rec \in {db[req.userId], NoRecord} :
          fromDb' = Append(fromDb, [playerId |-> req.playerId, userId |-> req.userId,
                                    cred |-> req.cred, record |-> rec])
    BY <1>13 DEF DbSelect
  <2>3. [playerId |-> req.playerId, userId |-> req.userId,
         cred |-> req.cred, record |-> rec] \in DbRes
    BY <2>1, <2>2 DEF DbRes, SelectReq, TypeOK
  <2>4. fromDb' \in Seq(DbRes)  BY <2>2, <2>3 DEF TypeOK
  <2> QED  BY <1>13, <2>1, <2>4 DEF DbSelect, TypeOK, clientVars, mgrVars, dbVars
<1>14. CASE DbWrite
  <2>1. Head(toDb) \in WriteReq /\ toDb' \in Seq(DbReq)
    BY <1>14 DEF DbWrite, TypeOK, DbReq, SelectReq, WriteReq
  <2>2. db' \in [Users -> Nat \cup {NoRecord}]
    BY <1>14, <2>1 DEF DbWrite, TypeOK, WriteReq
  <2> QED  BY <1>14, <2>1, <2>2 DEF DbWrite, TypeOK, clientVars, mgrVars
<1>15. CASE DbWriteFails
  BY <1>15 DEF DbWriteFails, TypeOK, clientVars, mgrVars
<1>16. CASE LinkDrop
  <2>1. toDb' \in Seq(DbReq) /\ fromDb' \in Seq(DbRes)
    BY <1>16, SubSeqProperties DEF LinkDrop, TypeOK
  <2> QED  BY <1>16, <2>1 DEF LinkDrop, TypeOK, clientVars, mgrVars
<1>17. CASE UNCHANGED vars
  BY <1>17 DEF vars, TypeOK
<1>18. ASSUME NEW c \in Conns, NEW u \in Users, NEW cred \in Creds, ClientLogin(c, u, cred)
       PROVE  TypeOK'
  <2>1. [type |-> "login", userId |-> u, cred |-> cred] \in ClientMsg
    BY DEF ClientMsg, LoginMsg
  <2> QED  BY <1>2, <1>18, <2>1 DEF ClientLogin
<1>19. ASSUME NEW c \in Conns, ClientExample(c) PROVE TypeOK'
  <2>1. [type |-> "example"] \in ClientMsg  BY DEF ClientMsg, EventMsg
  <2> QED  BY <1>2, <1>19, <2>1 DEF ClientExample
<1> QED
  BY <1>1, <1>3, <1>4, <1>5, <1>6, <1>7, <1>8, <1>9, <1>10, <1>11, <1>12, <1>13,
     <1>14, <1>15, <1>16, <1>17, <1>18, <1>19 DEF Next

(* Type correctness of the session handlers, for every schedule.           *)
THEOREM TypeCorrect == Spec => []TypeOK
<1>1. Init => TypeOK
  <2> SUFFICES ASSUME Init PROVE TypeOK
    OBVIOUS
  <2>1. <<>> \in Seq(ClientMsg) /\ toDb \in Seq(DbReq) /\ fromDb \in Seq(DbRes)
    BY DEF Init
  <2>2. replies \in [Conns -> SUBSET Rets]  BY DEF Init
  <2>3. fromClient \in [Conns -> Seq(ClientMsg)]  BY <2>1 DEF Init
  <2>4. db \in [Users -> Nat \cup {NoRecord}]  BY DEF Init
  <2>5. conn \in [Conns -> {"none", "open", "closed"}] /\ sent \in [Conns -> Nat]
    BY DEF Init
  <2> QED  BY <2>1, <2>2, <2>3, <2>4, <2>5 DEF Init, TypeOK
<1> QED  BY <1>1, TypeStep, PTL DEF Spec

-----------------------------------------------------------------------------
(* What a step can do to PlayerMgr: nothing, a tick, a logout, an accepted  *)
(* login, or the stop of the process.                                      *)
LEMMA MgrSteps ==
  ASSUME TypeOK, [Next]_vars
  PROVE  \/ UNCHANGED mgrVars
         \/ PlayerTick
         \/ \E c \in Conns : HandleClose(c) /\ RemovePlayerByPlayerId(c)
         \/ /\ HandleLoginRes
            /\ LoginAccepted(Head(fromDb))
            /\ CreateAndBind(Head(fromDb).playerId, Head(fromDb).userId, Head(fromDb).record)
         \/ Stop
<1>1. ASSUME NEW c \in Conns,
             \/ ClientOpen(c) \/ ClientExample(c) \/ ClientClose(c) \/ WorkerClose(c)
             \/ HandleNew(c) \/ HandleExample(c) \/ HandleLogin(c)
             \/ \E u \in Users, cred \in Creds : ClientLogin(c, u, cred)
      PROVE  UNCHANGED mgrVars
  BY <1>1 DEF ClientOpen, ClientExample, ClientClose, WorkerClose, HandleNew,
     HandleExample, HandleLogin, ClientLogin, ClientRequest
<1>2. ASSUME NEW c \in Conns, HandleClose(c)
      PROVE  UNCHANGED mgrVars \/ (HandleClose(c) /\ RemovePlayerByPlayerId(c))
  BY <1>2 DEF HandleClose
<1>3. ASSUME SafeStop \/ DbSelect \/ DbWrite \/ DbWriteFails \/ LinkDrop
      PROVE  UNCHANGED mgrVars
  BY <1>3 DEF SafeStop, DbSelect, DbWrite, DbWriteFails, LinkDrop
<1>4. ASSUME HandleLoginRes
      PROVE  \/ UNCHANGED mgrVars
             \/ /\ LoginAccepted(Head(fromDb))
                /\ CreateAndBind(Head(fromDb).playerId, Head(fromDb).userId,
                                 Head(fromDb).record)
  BY <1>4 DEF HandleLoginRes
<1>5. ASSUME UNCHANGED vars PROVE UNCHANGED mgrVars
  BY <1>5 DEF vars, mgrVars
<1> QED  BY <1>1, <1>2, <1>3, <1>4, <1>5 DEF Next

(* An accepted answer names an online connection without a Player, a known  *)
(* user and a record.                                                      *)
LEMMA AcceptedType ==
  ASSUME TypeOK, fromDb # <<>>, LoginAccepted(Head(fromDb))
  PROVE  /\ Head(fromDb).playerId \in online
         /\ Head(fromDb).playerId \in Conns
         /\ Head(fromDb).userId \in Users
         /\ Head(fromDb).record \in Nat
         /\ players[Head(fromDb).playerId] = NoPlayer
         /\ GetPlayerByUserId(Head(fromDb).userId) = NoPlayer
         /\ ~safeStop
<1>1. Head(fromDb) \in DbRes  BY DEF TypeOK
<1> QED  BY <1>1 DEF LoginAccepted, DbRes

(* GetPlayerByUserId answers nil only for a user that no connection owns:   *)
(* the map never points to a connection whose Player is gone.              *)
LEMMA FreeUser ==
  ASSUME TypeOK, BindingOK, NEW u \in Users, GetPlayerByUserId(u) = NoPlayer
  PROVE  userIdToPlayerId[u] = NoConn
BY DEF TypeOK, BindingOK, GetPlayerByUserId

(* A login that found both its connection and its user free binds the two.  *)
LEMMA BindKeepsBinding ==
  ASSUME TypeOK, BindingOK, NEW c \in Conns, NEW u \in Users, NEW v \in Nat,
         players[c] = NoPlayer, userIdToPlayerId[u] = NoConn, CreateAndBind(c, u, v)
  PROVE  BindingOK'
<1>1. [userId |-> u, version |-> v] # NoPlayer  BY DEF PlayerObj
<1>2. ASSUME NEW d \in Conns
      PROVE  /\ players'[d] = NoPlayer <=> playerIdToUserId'[d] = NoUser
             /\ players'[d] # NoPlayer => players'[d].userId = playerIdToUserId'[d]
  BY <1>1 DEF TypeOK, BindingOK, CreateAndBind
<1>3. ASSUME NEW d \in Conns, NEW w \in Users
      PROVE  playerIdToUserId'[d] = w <=> userIdToPlayerId'[w] = d
  BY DEF TypeOK, BindingOK, CreateAndBind
<1> QED  BY <1>2, <1>3 DEF BindingOK

(* A logout unbinds both directions.                                       *)
LEMMA RemoveKeepsBinding ==
  ASSUME TypeOK, BindingOK, NEW c \in Conns, RemovePlayerByPlayerId(c)
  PROVE  BindingOK'
<1>1. ASSUME NEW d \in Conns
      PROVE  /\ players'[d] = NoPlayer <=> playerIdToUserId'[d] = NoUser
             /\ players'[d] # NoPlayer => players'[d].userId = playerIdToUserId'[d]
  BY DEF TypeOK, BindingOK, RemovePlayerByPlayerId
<1>2. ASSUME NEW d \in Conns, NEW w \in Users
      PROVE  playerIdToUserId'[d] = w <=> userIdToPlayerId'[w] = d
  BY DEF TypeOK, BindingOK, RemovePlayerByPlayerId
<1> QED  BY <1>1, <1>2 DEF BindingOK

(* A tick leaves every Player with its user.                               *)
LEMMA TickKeepsBinding ==
  ASSUME TypeOK, BindingOK, PlayerTick
  PROVE  BindingOK'
<1>1. ASSUME NEW d \in Conns
      PROVE  /\ players'[d] = NoPlayer <=> players[d] = NoPlayer
             /\ players[d] # NoPlayer => players'[d].userId = players[d].userId
  <2>1. CASE players[d] = NoPlayer  BY <2>1 DEF PlayerTick, TypeOK
  <2>2. CASE players[d] # NoPlayer
    <3>1. players[d] \in PlayerObj  BY <2>2 DEF TypeOK
    <3>2. players'[d] = [players[d] EXCEPT !.version = @ + 1]  BY <2>2 DEF PlayerTick
    <3>3. players'[d] \in PlayerObj /\ players'[d].userId = players[d].userId
      BY <3>1, <3>2 DEF PlayerObj
    <3> QED  BY <2>2, <3>3
  <2> QED  BY <2>1, <2>2
<1>2. UNCHANGED <<userIdToPlayerId, playerIdToUserId>>  BY DEF PlayerTick
<1> QED  BY <1>1, <1>2 DEF BindingOK

(* The stop of the process empties the tables.                             *)
LEMMA StopEmptiesTables ==
  ASSUME TypeOK, BindingOK, Stop
  PROVE  /\ \A c \in Conns : players'[c] = NoPlayer /\ playerIdToUserId'[c] = NoUser
         /\ \A u \in Users : userIdToPlayerId'[u] = NoConn
         /\ BindingOK'
<1>1. ASSUME NEW c \in Conns PROVE players'[c] = NoPlayer /\ playerIdToUserId'[c] = NoUser
  BY DEF TypeOK, BindingOK, Stop
<1>2. ASSUME NEW u \in Users PROVE userIdToPlayerId'[u] = NoConn
  BY DEF TypeOK, BindingOK, Stop
<1> QED  BY <1>1, <1>2 DEF BindingOK

(* BindingOK is inductive.                                                 *)
LEMMA BindingStep == TypeOK /\ BindingOK /\ [Next]_vars => BindingOK'
<1> SUFFICES ASSUME TypeOK, BindingOK, [Next]_vars PROVE BindingOK'
  OBVIOUS
<1>1. CASE UNCHANGED mgrVars
  BY <1>1 DEF BindingOK, mgrVars
<1>2. CASE PlayerTick
  BY <1>2, TickKeepsBinding
<1>3. ASSUME NEW c \in Conns, RemovePlayerByPlayerId(c) PROVE BindingOK'
  BY <1>3, RemoveKeepsBinding
<1>4. ASSUME HandleLoginRes, LoginAccepted(Head(fromDb)),
             CreateAndBind(Head(fromDb).playerId, Head(fromDb).userId, Head(fromDb).record)
      PROVE  BindingOK'
  <2>1. fromDb # <<>>  BY <1>4 DEF HandleLoginRes
  <2>2. userIdToPlayerId[Head(fromDb).userId] = NoConn
    BY <1>4, <2>1, AcceptedType, FreeUser
  <2> QED  BY <1>4, <2>1, <2>2, AcceptedType, BindKeepsBinding
<1>5. CASE Stop
  BY <1>5, StopEmptiesTables
<1> QED  BY <1>1, <1>2, <1>3, <1>4, <1>5, MgrSteps

(* Whatever the order of logins, answers and closes, a user is played by at *)
(* most one connection and the three tables of PlayerMgr agree.            *)
THEOREM Binding == Spec => []BindingOK
<1>1. Init => BindingOK
  BY DEF Init, BindingOK
<1> QED  BY <1>1, BindingStep, TypeCorrect, PTL DEF Spec

-----------------------------------------------------------------------------
(* Only the safe stop touches its flag.                                    *)
LEMMA SafeStopStarts ==
  ASSUME [Next]_vars
  PROVE  UNCHANGED safeStop \/ SafeStop
<1>1. ASSUME NEW c \in Conns,
             \/ ClientOpen(c) \/ ClientExample(c) \/ ClientClose(c) \/ WorkerClose(c)
             \/ HandleNew(c) \/ HandleClose(c) \/ HandleExample(c) \/ HandleLogin(c)
             \/ \E u \in Users, cred \in Creds : ClientLogin(c, u, cred)
      PROVE  UNCHANGED safeStop
  BY <1>1 DEF ClientOpen, ClientExample, ClientClose, WorkerClose, HandleNew,
     HandleClose, HandleExample, HandleLogin, ClientLogin, ClientRequest
<1>2. ASSUME PlayerTick \/ HandleLoginRes \/ Stop \/ DbSelect \/ DbWrite
             \/ DbWriteFails \/ LinkDrop \/ UNCHANGED vars
      PROVE  UNCHANGED safeStop
  BY <1>2 DEF PlayerTick, HandleLoginRes, Stop, DbSelect, DbWrite, DbWriteFails,
     LinkDrop, vars
<1> QED  BY <1>1, <1>2 DEF Next

LEMMA SafeStopSteps ==
  ASSUME [Next]_vars
  PROVE  UNCHANGED safeStop \/ (safeStop' = TRUE /\ UNCHANGED mgrVars)
BY SafeStopStarts DEF SafeStop

(* A step of a server in safe stop makes no Player.                        *)
LEMMA NoLoginStep ==
  ASSUME TypeOK, BindingOK, [Next]_vars, safeStop, NEW c \in Conns, players'[c] # NoPlayer
  PROVE  players[c] # NoPlayer
<1>1. CASE UNCHANGED mgrVars  BY <1>1 DEF mgrVars
<1>2. CASE PlayerTick  BY <1>2 DEF PlayerTick, TypeOK
<1>3. ASSUME NEW d \in Conns, RemovePlayerByPlayerId(d) PROVE players[c] # NoPlayer
  BY <1>3 DEF RemovePlayerByPlayerId, TypeOK
<1>4. CASE LoginAccepted(Head(fromDb))  BY <1>4 DEF LoginAccepted
<1>5. CASE Stop  BY <1>5, StopEmptiesTables
<1> QED  BY <1>1, <1>2, <1>3, <1>4, <1>5, MgrSteps

(* Once the safe stop has begun, no answer that is still on its way makes a *)
(* Player.                                                                 *)
THEOREM SafeStopRejectsLogins == Spec => NoLoginAfterSafeStop
<1>1. TypeOK /\ BindingOK /\ [Next]_vars =>
        [safeStop => \A c \in Conns : players'[c] # NoPlayer => players[c] # NoPlayer]_vars
  BY NoLoginStep
<1> QED  BY <1>1, TypeCorrect, Binding, PTL DEF Spec, NoLoginAfterSafeStop

(* Every step of the session is a step of the lock.                        *)
LEMMA LockStep ==
  ASSUME TypeOK, BindingOK, [Next]_vars
  PROVE  [Lock!LockNext]_(Lock!lockVars)
<1>1. CASE UNCHANGED safeStop /\ UNCHANGED mgrVars
  BY <1>1 DEF mgrVars, Lock!lockVars
<1>2. CASE safeStop' = TRUE /\ UNCHANGED mgrVars
  <2>1. Lock!Shut  BY <1>2 DEF Lock!Shut, mgrVars
  <2> QED  BY <2>1 DEF Lock!LockNext
<1>3. CASE UNCHANGED safeStop /\ PlayerTick
  BY <1>3 DEF PlayerTick, Lock!lockVars
<1>4. ASSUME UNCHANGED safeStop, NEW c \in Conns, RemovePlayerByPlayerId(c)
      PROVE  [Lock!LockNext]_(Lock!lockVars)
  <2>1. CASE playerIdToUserId[c] = NoUser
    BY <1>4, <2>1 DEF RemovePlayerByPlayerId, Lock!lockVars
  <2>2. CASE playerIdToUserId[c] # NoUser
    <3>1. playerIdToUserId[c] \in Users  BY <2>2 DEF TypeOK
    <3>2. userIdToPlayerId[playerIdToUserId[c]] = c  BY <3>1 DEF BindingOK
    <3>3. Lock!Release(playerIdToUserId[c])
      BY <1>4, <2>2, <3>2 DEF RemovePlayerByPlayerId, Lock!Release
    <3> QED  BY <3>1, <3>3 DEF Lock!LockNext
  <2> QED  BY <2>1, <2>2
<1>5. ASSUME UNCHANGED safeStop, HandleLoginRes, LoginAccepted(Head(fromDb)),
             CreateAndBind(Head(fromDb).playerId, Head(fromDb).userId, Head(fromDb).record)
      PROVE  [Lock!LockNext]_(Lock!lockVars)
  <2> DEFINE c == Head(fromDb).playerId
             u == Head(fromDb).userId
  <2>1. fromDb # <<>>  BY <1>5 DEF HandleLoginRes
  <2>2. c \in Conns /\ u \in Users /\ players[c] = NoPlayer /\ ~safeStop
    BY <1>5, <2>1, AcceptedType
  <2>3. userIdToPlayerId[u] = NoConn
    BY <1>5, <2>1, AcceptedType, FreeUser
  <2>4. \A v \in Users : userIdToPlayerId[v] # c
    BY <2>2 DEF BindingOK
  <2>5. Lock!Acquire(c, u)
    BY <1>5, <2>2, <2>3, <2>4 DEF Lock!Acquire, CreateAndBind
  <2> QED  BY <2>2, <2>5 DEF Lock!LockNext
<1>6. ASSUME UNCHANGED safeStop, Stop
      PROVE  [Lock!LockNext]_(Lock!lockVars)
  <2>1. userIdToPlayerId' = [u \in Users |-> NoConn]
    BY <1>6, StopEmptiesTables DEF Stop
  <2>2. Lock!ReleaseAll  BY <1>6, <2>1 DEF Lock!ReleaseAll
  <2> QED  BY <2>2 DEF Lock!LockNext
<1> QED  BY <1>1, <1>2, <1>3, <1>4, <1>5, <1>6, MgrSteps, SafeStopSteps

(* The login service, with all its messages, implements an exclusive lock   *)
(* per user that is never taken after a safe stop.                         *)
THEOREM SessionImplementsLock == Spec => ImplementsLock
<1>1. Init => Lock!LockInit
  BY DEF Init, Lock!LockInit
<1> QED
  BY <1>1, LockStep, TypeCorrect, Binding, PTL DEF Spec, ImplementsLock, Lock!LockSpec
-----------------------------------------------------------------------------
(* A message appended by a live connection keeps the order of its life.     *)
LEMMA RequestKeepsLife ==
  ASSUME TypeOK, ConnLife, NEW c \in Conns, NEW m \in ClientMsg, ClientRequest(c, m),
         m.type \notin {"new", "close"}
  PROVE  ConnLife'
<1>1. ASSUME NEW d \in Conns, d # c PROVE fromClient'[d] = fromClient[d]
  BY <1>1 DEF ClientRequest, Deliver, TypeOK
<1>2. fromClient'[c] = Append(fromClient[c], m) /\ fromClient[c] \in Seq(ClientMsg)
  BY DEF ClientRequest, Deliver, TypeOK
<1>3. UNCHANGED <<conn, online, players>> /\ conn[c] = "open"
  BY DEF ClientRequest, mgrVars
<1>4. ASSUME NEW d \in Conns, d # c PROVE LifeOf(d)'
  BY <1>1, <1>3, <1>4 DEF ConnLife, LifeOf
<1>5. /\ Len(fromClient'[c]) = Len(fromClient[c]) + 1 /\ Len(fromClient[c]) \in Nat
      /\ \A i \in 1 .. Len(fromClient[c]) : fromClient'[c][i] = fromClient[c][i]
      /\ fromClient'[c][Len(fromClient[c]) + 1] = m
  BY <1>2
<1>6. LifeOf(c) /\ conn[c] # "closed"
  BY <1>3 DEF ConnLife
<1>7. LifeOf(c)'
  <2>1. \A i \in 1 .. Len(fromClient'[c]) :
          i = Len(fromClient[c]) + 1 \/ i \in 1 .. Len(fromClient[c])
    BY <1>5
  <2> QED  BY <1>3, <1>5, <1>6, <2>1 DEF LifeOf
<1> QED  BY <1>4, <1>7 DEF ConnLife

(* CLOSE is the last message of a connection, whoever closes it.           *)
LEMMA CloseKeepsLife ==
  ASSUME TypeOK, ConnLife, NEW c \in Conns, conn[c] = "open",
         conn' = [conn EXCEPT ![c] = "closed"], Deliver(c, [type |-> "close"]),
         UNCHANGED <<online, players>>
  PROVE  ConnLife'
<1>1. ASSUME NEW d \in Conns, d # c
      PROVE  fromClient'[d] = fromClient[d] /\ conn'[d] = conn[d]
  BY <1>1 DEF Deliver, TypeOK
<1>2. /\ fromClient'[c] = Append(fromClient[c], [type |-> "close"])
      /\ fromClient[c] \in Seq(ClientMsg)
      /\ conn'[c] = "closed"
  BY DEF Deliver, TypeOK
<1>3. ASSUME NEW d \in Conns, d # c PROVE LifeOf(d)'
  BY <1>1, <1>3 DEF ConnLife, LifeOf
<1>4. /\ Len(fromClient'[c]) = Len(fromClient[c]) + 1 /\ Len(fromClient[c]) \in Nat
      /\ \A i \in 1 .. Len(fromClient[c]) : fromClient'[c][i] = fromClient[c][i]
      /\ fromClient'[c][Len(fromClient[c]) + 1] = [type |-> "close"]
  BY <1>2
<1>5. LifeOf(c) /\ conn[c] # "closed"
  BY DEF ConnLife
<1>6. LifeOf(c)'
  <2>1. \A i \in 1 .. Len(fromClient'[c]) :
          i = Len(fromClient[c]) + 1 \/ i \in 1 .. Len(fromClient[c])
    BY <1>4
  <2>2. fromClient'[c] # <<>>
    BY <1>2
  <2> QED  BY <1>2, <1>4, <1>5, <2>1, <2>2 DEF LifeOf
<1> QED  BY <1>3, <1>6 DEF ConnLife

(* Taking a message other than NEW and CLOSE changes no life.              *)
LEMMA ReceiveKeepsLife ==
  ASSUME TypeOK, ConnLife, NEW c \in Conns, NEW t \in {"login", "example"}, Receive(c, t),
         UNCHANGED <<conn, online, players>>
  PROVE  ConnLife'
<1>1. ASSUME NEW d \in Conns, d # c PROVE fromClient'[d] = fromClient[d]
  BY <1>1 DEF Receive, TypeOK
<1>2. /\ fromClient'[c] = Tail(fromClient[c])
      /\ fromClient[c] \in Seq(ClientMsg)
      /\ fromClient[c] # <<>>
      /\ fromClient[c][1].type = t
  BY DEF Receive, TypeOK
<1>3. ASSUME NEW d \in Conns, d # c PROVE LifeOf(d)'
  BY <1>1, <1>3 DEF ConnLife, LifeOf
<1>4. /\ Len(fromClient'[c]) = Len(fromClient[c]) - 1
      /\ \A i \in 1 .. Len(fromClient'[c]) :
           i + 1 \in 1 .. Len(fromClient[c]) /\ fromClient'[c][i] = fromClient[c][i + 1]
      /\ Len(fromClient[c]) \in Nat \ {0}
  BY <1>2
<1>5. LifeOf(c)  BY DEF ConnLife
<1>6. Len(fromClient[c]) = 1 => conn[c] # "closed"
  BY <1>2, <1>4, <1>5 DEF LifeOf
<1>7. LifeOf(c)'
  <2>1. conn[c] = "none" => FALSE  BY <1>2, <1>5 DEF LifeOf
  <2>2. ASSUME NEW i \in 1 .. Len(fromClient'[c])
        PROVE  /\ fromClient'[c][i].type = "new" => FALSE
               /\ fromClient'[c][i].type = "close" => i = Len(fromClient'[c]) /\ conn[c] = "closed"
               /\ i = Len(fromClient'[c]) /\ conn[c] = "closed" => fromClient'[c][i].type = "close"
    BY <1>4, <1>5, <2>2 DEF LifeOf
  <2>3. conn[c] = "closed" => fromClient'[c] # <<>>
    <3>1. fromClient'[c] = <<>> => Len(fromClient'[c]) = 0  OBVIOUS
    <3> QED  BY <1>4, <1>6, <3>1
  <2> QED  BY <1>5, <2>1, <2>2, <2>3 DEF LifeOf
<1> QED  BY <1>3, <1>7 DEF ConnLife

(* ConnLife is inductive.                                                  *)
LEMMA LifeStep == TypeOK /\ ConnLife /\ [Next]_vars => ConnLife'
<1> SUFFICES ASSUME TypeOK, ConnLife, [Next]_vars PROVE ConnLife'
  OBVIOUS
<1>1. ASSUME NEW c \in Conns, ClientOpen(c) PROVE ConnLife'
  <2>1. ASSUME NEW d \in Conns, d # c
        PROVE  fromClient'[d] = fromClient[d] /\ conn'[d] = conn[d]
    BY <1>1, <2>1 DEF ClientOpen, Deliver, TypeOK
  <2>2. conn'[c] = "open" /\ fromClient[c] = <<>> /\ c \notin online
    BY <1>1 DEF ClientOpen, TypeOK, ConnLife, LifeOf
  <2>3. fromClient'[c] = <<[type |-> "new"]>>
    <3>1. fromClient'[c] = Append(fromClient[c], [type |-> "new"])
      BY <1>1 DEF ClientOpen, Deliver, TypeOK
    <3> QED  BY <2>2, <3>1
  <2>4. UNCHANGED <<online, players>>  BY <1>1 DEF ClientOpen, mgrVars
  <2> QED  BY <2>1, <2>2, <2>3, <2>4 DEF ConnLife, LifeOf
<1>2. ASSUME NEW c \in Conns, NEW u \in Users, NEW cred \in Creds, ClientLogin(c, u, cred)
      PROVE  ConnLife'
  <2>1. [type |-> "login", userId |-> u, cred |-> cred] \in ClientMsg
    BY DEF ClientMsg, LoginMsg
  <2> QED  BY <1>2, <2>1, RequestKeepsLife DEF ClientLogin
<1>3. ASSUME NEW c \in Conns, ClientExample(c) PROVE ConnLife'
  <2>1. [type |-> "example"] \in ClientMsg  BY DEF ClientMsg, EventMsg
  <2> QED  BY <1>3, <2>1, RequestKeepsLife DEF ClientExample
<1>4. ASSUME NEW c \in Conns, ClientClose(c) PROVE ConnLife'
  BY <1>4, CloseKeepsLife DEF ClientClose, mgrVars
<1>5. ASSUME NEW c \in Conns, WorkerClose(c) PROVE ConnLife'
  <2>1. CASE conn[c] = "open"
    BY <1>5, <2>1, CloseKeepsLife DEF WorkerClose, mgrVars
  <2>2. CASE conn[c] # "open"
    BY <1>5, <2>2 DEF WorkerClose, mgrVars, ConnLife, LifeOf
  <2> QED  BY <2>1, <2>2
<1>6. ASSUME NEW c \in Conns, HandleNew(c) PROVE ConnLife'
  <2>1. ASSUME NEW d \in Conns, d # c
        PROVE  fromClient'[d] = fromClient[d] /\ (d \in online' <=> d \in online)
    BY <1>6, <2>1 DEF HandleNew, Receive, TypeOK
  <2>2. /\ fromClient'[c] = Tail(fromClient[c])
        /\ fromClient[c] \in Seq(ClientMsg)
        /\ fromClient[c] # <<>>
        /\ fromClient[c][1].type = "new"
    BY <1>6 DEF HandleNew, Receive, TypeOK
  <2>3. UNCHANGED <<conn, players>>  BY <1>6 DEF HandleNew, clientVars, mgrVars
  <2>4. LifeOf(c)  BY DEF ConnLife
  <2>5. /\ 1 \in 1 .. Len(fromClient[c])
        /\ Len(fromClient'[c]) = Len(fromClient[c]) - 1
        /\ \A i \in 1 .. Len(fromClient'[c]) :
             i + 1 \in 1 .. Len(fromClient[c]) /\ fromClient'[c][i] = fromClient[c][i + 1]
        /\ Len(fromClient[c]) \in Nat \ {0}
    BY <2>2
  <2>6. c \notin online /\ players[c] = NoPlayer /\ conn[c] # "none"
    BY <2>2, <2>4, <2>5 DEF LifeOf
  <2>7. conn[c] = "closed" => fromClient'[c] # <<>>
    <3>1. Len(fromClient[c]) = 1 => conn[c] # "closed"  BY <2>2, <2>4, <2>5 DEF LifeOf
    <3>2. fromClient'[c] = <<>> => Len(fromClient'[c]) = 0  OBVIOUS
    <3> QED  BY <2>5, <3>1, <3>2
  <2>8. LifeOf(c)'
    <3>1. ASSUME NEW i \in 1 .. Len(fromClient'[c])
          PROVE  /\ fromClient'[c][i].type = "new" => FALSE
                 /\ fromClient'[c][i].type = "close" => i = Len(fromClient'[c]) /\ conn[c] = "closed"
                 /\ i = Len(fromClient'[c]) /\ conn[c] = "closed" => fromClient'[c][i].type = "close"
      BY <2>4, <2>5, <3>1 DEF LifeOf
    <3> QED  BY <2>3, <2>6, <2>7, <3>1 DEF LifeOf
  <2>9. ASSUME NEW d \in Conns, d # c PROVE LifeOf(d)'
    BY <2>1, <2>3, <2>9 DEF ConnLife, LifeOf
  <2> QED  BY <2>8, <2>9 DEF ConnLife
<1>7. ASSUME NEW c \in Conns, HandleClose(c) PROVE ConnLife'
  <2>1. ASSUME NEW d \in Conns, d # c
        PROVE  /\ fromClient'[d] = fromClient[d]
               /\ d \in online' <=> d \in online
               /\ players'[d] = players[d]
    BY <1>7, <2>1 DEF HandleClose, Receive, RemovePlayerByPlayerId, mgrVars, TypeOK
  <2>2. /\ fromClient'[c] = Tail(fromClient[c])
        /\ fromClient[c] \in Seq(ClientMsg)
        /\ fromClient[c] # <<>>
        /\ fromClient[c][1].type = "close"
    BY <1>7 DEF HandleClose, Receive, TypeOK
  <2>3. conn' = conn /\ c \notin online'  BY <1>7 DEF HandleClose, clientVars
  <2>4. players'[c] = NoPlayer
    BY <1>7 DEF HandleClose, RemovePlayerByPlayerId, mgrVars, TypeOK
  <2>5. Len(fromClient[c]) = 1 /\ conn[c] = "closed"
    <3>1. 1 \in 1 .. Len(fromClient[c])  BY <2>2
    <3> QED  BY <2>2, <3>1 DEF ConnLife, LifeOf
  <2>6. fromClient'[c] = <<>>
    <3>1. fromClient'[c] \in Seq(ClientMsg) /\ Len(fromClient'[c]) = 0  BY <2>2, <2>5
    <3> QED  BY <3>1
  <2> QED  BY <2>1, <2>3, <2>4, <2>5, <2>6 DEF ConnLife, LifeOf
<1>8. ASSUME NEW c \in Conns, HandleExample(c) PROVE ConnLife'
  BY <1>8, ReceiveKeepsLife DEF HandleExample, clientVars, mgrVars
<1>9. ASSUME NEW c \in Conns, HandleLogin(c) PROVE ConnLife'
  BY <1>9, ReceiveKeepsLife DEF HandleLogin, clientVars, mgrVars
<1>10. ASSUME UNCHANGED <<conn, fromClient, online>>,
              \A c \in Conns : players'[c] # NoPlayer => players[c] # NoPlayer \/ c \in online
       PROVE  ConnLife'
  BY <1>10 DEF ConnLife, LifeOf
<1>11. CASE PlayerTick
  BY <1>10, <1>11 DEF PlayerTick, clientVars, TypeOK
<1>12. CASE HandleLoginRes
  <2>1. UNCHANGED <<conn, fromClient, online>>  BY <1>12 DEF HandleLoginRes, clientVars
  <2>2. CASE LoginAccepted(Head(fromDb))
    <3>1. CreateAndBind(Head(fromDb).playerId, Head(fromDb).userId, Head(fromDb).record)
      BY <1>12, <2>2 DEF HandleLoginRes
    <3>2. Head(fromDb).playerId \in online  BY <2>2 DEF LoginAccepted
    <3> QED  BY <1>10, <2>1, <3>1, <3>2 DEF CreateAndBind, TypeOK
  <2>3. CASE ~LoginAccepted(Head(fromDb))
    BY <1>10, <1>12, <2>1, <2>3 DEF HandleLoginRes, mgrVars
  <2> QED  BY <2>2, <2>3
<1>13. CASE Stop
  BY <1>10, <1>13 DEF Stop, clientVars
<1>14. CASE SafeStop \/ DbSelect \/ DbWrite \/ DbWriteFails \/ LinkDrop \/ UNCHANGED vars
  BY <1>10, <1>14 DEF SafeStop, DbSelect, DbWrite, DbWriteFails, LinkDrop, vars,
     clientVars, mgrVars
<1> QED
  BY <1>1, <1>2, <1>3, <1>4, <1>5, <1>6, <1>7, <1>8, <1>9, <1>11, <1>12, <1>13, <1>14 DEF Next

(* The messages of a connection tell its life in order, and only an online  *)
(* connection has a Player.                                                *)
THEOREM Life == Spec => []ConnLife
<1>1. Init => ConnLife  BY DEF Init, ConnLife, LifeOf
<1> QED  BY <1>1, LifeStep, TypeCorrect, PTL DEF Spec

(* A Player of a connection that has gone will be removed: its CLOSE is in  *)
(* the tunnel, even if the login's answer overtook it.                     *)
THEOREM NoGhost == Spec => []NoGhostPlayer
<1>1. TypeOK /\ ConnLife => NoGhostPlayer
  <2> SUFFICES ASSUME TypeOK, ConnLife, NEW c \in Conns, players[c] # NoPlayer, conn[c] # "open"
               PROVE  \E i \in DOMAIN fromClient[c] : fromClient[c][i].type = "close"
    BY DEF NoGhostPlayer
  <2>1. conn[c] = "closed" /\ fromClient[c] # <<>> /\ fromClient[c] \in Seq(ClientMsg)
    BY DEF TypeOK, ConnLife, LifeOf
  <2>2. Len(fromClient[c]) \in DOMAIN fromClient[c] /\ Len(fromClient[c]) \in 1 .. Len(fromClient[c])
    BY <2>1
  <2>3. fromClient[c][Len(fromClient[c])].type = "close"  BY <2>1, <2>2 DEF ConnLife, LifeOf
  <2> QED  BY <2>2, <2>3
<1> QED  BY <1>1, TypeCorrect, Life, PTL

(* The branch the NEW handler calls fatal is never taken.                  *)
THEOREM NewConnIsClean == Spec => []NewConnHasNoPlayer
<1>1. TypeOK /\ ConnLife => NewConnHasNoPlayer
  BY DEF TypeOK, ConnLife, LifeOf, NewConnHasNoPlayer
<1> QED  BY <1>1, TypeCorrect, Life, PTL

-----------------------------------------------------------------------------
(* What a step leaves of the requests to close a connection: the worker     *)
(* that takes one closes the connection, and no closed one opens again.     *)
LEMMA CloseSteps ==
  ASSUME TypeOK, ConnLife, [Next]_vars, NEW c \in Conns, players[c] # NoPlayer,
         c \in closeReq \/ conn[c] = "closed"
  PROVE  c \in closeReq' \/ conn'[c] = "closed"
<1>0. conn[c] \in {"open", "closed"}
  BY DEF TypeOK, ConnLife, LifeOf
<1>1. ASSUME NEW d \in Conns, ClientOpen(d) \/ ClientClose(d)
      PROVE  c \in closeReq' \/ conn'[c] = "closed"
  BY <1>0, <1>1 DEF ClientOpen, ClientClose, TypeOK
<1>2. ASSUME NEW d \in Conns, WorkerClose(d) PROVE c \in closeReq' \/ conn'[c] = "closed"
  BY <1>0, <1>2 DEF WorkerClose, TypeOK
<1>3. ASSUME NEW d \in Conns, HandleNew(d) \/ HandleExample(d)
      PROVE  c \in closeReq' \/ conn'[c] = "closed"
  BY <1>3 DEF HandleNew, HandleExample, clientVars
<1>4. ASSUME NEW d \in Conns,
             \/ ClientExample(d) \/ HandleClose(d) \/ HandleLogin(d)
             \/ \E u \in Users, cred \in Creds : ClientLogin(d, u, cred)
      PROVE  UNCHANGED <<closeReq, conn>>
  BY <1>4 DEF ClientExample, HandleClose, HandleLogin, ClientLogin, ClientRequest, clientVars
<1>5. CASE SafeStop
  BY <1>5 DEF SafeStop, clientVars
<1>6. ASSUME PlayerTick \/ HandleLoginRes \/ Stop \/ DbSelect \/ DbWrite
             \/ DbWriteFails \/ LinkDrop \/ UNCHANGED vars
      PROVE  UNCHANGED <<closeReq, conn>>
  BY <1>6 DEF PlayerTick, HandleLoginRes, Stop, DbSelect, DbWrite, DbWriteFails,
     LinkDrop, clientVars, vars
<1> QED  BY <1>1, <1>2, <1>3, <1>4, <1>5, <1>6 DEF Next

LEMMA KickStep ==
  TypeOK /\ BindingOK /\ ConnLife /\ SafeStopKicksAll /\ [Next]_vars => SafeStopKicksAll'
<1> SUFFICES ASSUME TypeOK, BindingOK, ConnLife, SafeStopKicksAll, [Next]_vars, safeStop',
                    NEW c \in Conns, players'[c] # NoPlayer
             PROVE  c \in closeReq' \/ conn'[c] = "closed"
  BY DEF SafeStopKicksAll
<1>1. CASE safeStop
  <2>1. players[c] # NoPlayer  BY <1>1, NoLoginStep
  <2> QED  BY <1>1, <2>1, CloseSteps DEF SafeStopKicksAll
<1>2. CASE ~safeStop
  <2>1. SafeStop  BY <1>2, SafeStopStarts
  <2> QED  BY <2>1 DEF SafeStop, mgrVars
<1> QED  BY <1>1, <1>2

(* A safe stop gets every Player: no LOGIN whose answer is still on its way, *)
(* and no connection that is just opening or closing, slips past it.        *)
THEOREM SafeStopOverlooksNobody == Spec => []SafeStopKicksAll
<1>1. Init => SafeStopKicksAll  BY DEF Init, SafeStopKicksAll
<1> QED  BY <1>1, KickStep, TypeCorrect, Binding, Life, PTL DEF Spec
-----------------------------------------------------------------------------
(* Where the login attempts and the writes of a user are, as facts about    *)
(* the three queues alone.                                                 *)
LoginOf(m, u)  == m.type = "login" /\ m.userId = u
SelectOf(m, u) == m.type = "select" /\ m.userId = u
WriteOf(m, u)  == m.type = "write" /\ m.userId = u

NoLogin(q, u)  == \A c \in Conns : \A i \in 1 .. Len(q[c]) : ~ LoginOf(q[c][i], u)
NoSelect(t, u) == \A i \in 1 .. Len(t) : ~ SelectOf(t[i], u)
NoWrite(t, u)  == \A i \in 1 .. Len(t) : ~ WriteOf(t[i], u)
NoAnswer(f, u) == \A i \in 1 .. Len(f) : f[i].userId # u

OneLogin(q, u) ==
  \A c, d \in Conns : \A i \in 1 .. Len(q[c]), j \in 1 .. Len(q[d]) :
    LoginOf(q[c][i], u) /\ LoginOf(q[d][j], u) => c = d /\ i = j
OneSelect(t, u) ==
  \A i, j \in 1 .. Len(t) : SelectOf(t[i], u) /\ SelectOf(t[j], u) => i = j
OneAnswer(f, u) ==
  \A i, j \in 1 .. Len(f) : f[i].userId = u /\ f[j].userId = u => i = j

(* The writes of a user whose record is asked for are asked for before.     *)
WritesFirst(t, u) ==
  \A i, j \in 1 .. Len(t) : SelectOf(t[i], u) /\ WriteOf(t[j], u) => j < i

(* At most one attempt is in flight.                                        *)
Serial(q, t, f, u) ==
  /\ OneLogin(q, u) /\ OneSelect(t, u) /\ OneAnswer(f, u)
  /\ NoLogin(q, u) \/ (NoSelect(t, u) /\ NoAnswer(f, u))
  /\ NoSelect(t, u) \/ NoAnswer(f, u)

(* While the record of a user is asked for and answered, the user is not    *)
(* logged in; the answer holds what the database holds, or says there is    *)
(* nothing.                                                                *)
Current(t, f, d, owner, u) ==
  /\ NoSelect(t, u) \/ (owner = NoConn /\ WritesFirst(t, u))
  /\ \A i \in 1 .. Len(f) : f[i].userId = u =>
       owner = NoConn /\ NoWrite(t, u) /\ f[i].record \in {d[u], NoRecord}

DurInv ==
  \A u \in Users :
    /\ Serial(fromClient, toDb, fromDb, u)
    /\ Current(toDb, fromDb, db, userIdToPlayerId[u], u)

-----------------------------------------------------------------------------
(* A queue that is appended to, and one that is read from.                  *)
Tunnels == [Conns -> Seq(ClientMsg)]

Delivered(q, c, m, p) ==
  q \in Tunnels /\ c \in Conns /\ m \in ClientMsg /\ p = [q EXCEPT ![c] = Append(q[c], m)]
Received(q, c, p) ==
  q \in Tunnels /\ c \in Conns /\ q[c] # <<>> /\ p = [q EXCEPT ![c] = Tail(q[c])]
Asked(t, m, s)    == t \in Seq(DbReq) /\ m \in DbReq /\ s = Append(t, m)
Served(t, s)      == t \in Seq(DbReq) /\ t # <<>> /\ s = Tail(t)
Cut(t, s)         == t \in Seq(DbReq) /\ \E k \in 0 .. Len(t) : s = SubSeq(t, 1, k)
Answered(f, m, g) == f \in Seq(DbRes) /\ m \in DbRes /\ g = Append(f, m)
Taken(f, g)       == f \in Seq(DbRes) /\ f # <<>> /\ g = Tail(f)
CutAnswers(f, g)  == f \in Seq(DbRes) /\ \E k \in 0 .. Len(f) : g = SubSeq(f, 1, k)

LEMMA LongerLogin ==
  ASSUME NEW q, NEW c, NEW m, NEW u, NEW p, Delivered(q, c, m, p)
  PROVE  /\ ~ LoginOf(m, u) => /\ NoLogin(q, u) => NoLogin(p, u)
                               /\ OneLogin(q, u) => OneLogin(p, u)
         /\ NoLogin(q, u) => OneLogin(p, u)
<1>0. q \in Tunnels /\ c \in Conns /\ m \in ClientMsg /\ p = [q EXCEPT ![c] = Append(q[c], m)]
  BY DEF Delivered
<1>1. \A d \in Conns : d # c => p[d] = q[d]
  BY <1>0 DEF Tunnels
<1>2. /\ Len(p[c]) = Len(q[c]) + 1 /\ Len(q[c]) \in Nat
      /\ \A i \in 1 .. Len(q[c]) : p[c][i] = q[c][i]
      /\ p[c][Len(q[c]) + 1] = m
  <2>1. p[c] = Append(q[c], m) /\ q[c] \in Seq(ClientMsg)
    BY <1>0 DEF Tunnels
  <2> QED BY <1>0, <2>1, AppendProperties
<1>3. \A i \in 1 .. Len(p[c]) : i = Len(q[c]) + 1 \/ i \in 1 .. Len(q[c])
  BY <1>2
<1>4. ~ LoginOf(m, u) /\ NoLogin(q, u) => NoLogin(p, u)
  BY <1>1, <1>2, <1>3 DEF NoLogin
<1>5. ~ LoginOf(m, u) /\ OneLogin(q, u) => OneLogin(p, u)
  BY <1>1, <1>2, <1>3 DEF OneLogin
<1>6. NoLogin(q, u) => OneLogin(p, u)
  BY <1>1, <1>2, <1>3 DEF NoLogin, OneLogin
<1> QED BY <1>4, <1>5, <1>6

LEMMA ShorterLogin ==
  ASSUME NEW q, NEW c, NEW u, NEW p, Received(q, c, p)
  PROVE  /\ NoLogin(q, u) => NoLogin(p, u)
         /\ OneLogin(q, u) => OneLogin(p, u)
         /\ OneLogin(q, u) /\ LoginOf(Head(q[c]), u) => NoLogin(p, u)
         /\ LoginOf(Head(q[c]), u) => ~ NoLogin(q, u)
<1>0. q \in Tunnels /\ c \in Conns /\ q[c] # <<>> /\ p = [q EXCEPT ![c] = Tail(q[c])]
  BY DEF Received
<1> c \in Conns
  BY <1>0
<1>1. \A d \in Conns : d # c => p[d] = q[d]
  BY <1>0 DEF Tunnels
<1>2. /\ Len(p[c]) = Len(q[c]) - 1 /\ Len(q[c]) \in Nat \ {0}
      /\ \A i \in 1 .. Len(p[c]) : p[c][i] = q[c][i + 1]
      /\ Head(q[c]) = q[c][1]
  <2>1. p[c] = Tail(q[c]) /\ q[c] \in Seq(ClientMsg) /\ q[c] # <<>>
    BY <1>0 DEF Tunnels
  <2> QED BY <2>1, HeadTailProperties
<1>3. \A i \in 1 .. Len(p[c]) : i + 1 \in 1 .. Len(q[c]) /\ i + 1 # 1
  BY <1>2
<1>4. 1 \in 1 .. Len(q[c])
  BY <1>2
<1>5. NoLogin(q, u) => NoLogin(p, u)
  BY <1>1, <1>2, <1>3 DEF NoLogin
<1>6. OneLogin(q, u) => OneLogin(p, u)
  <2> SUFFICES ASSUME OneLogin(q, u), NEW d \in Conns, NEW e \in Conns,
                      NEW i \in 1 .. Len(p[d]), NEW j \in 1 .. Len(p[e]),
                      LoginOf(p[d][i], u), LoginOf(p[e][j], u)
               PROVE  d = e /\ i = j
    BY DEF OneLogin
  <2> DEFINE a == IF d = c THEN i + 1 ELSE i
             b == IF e = c THEN j + 1 ELSE j
  <2>1. a \in 1 .. Len(q[d]) /\ q[d][a] = p[d][i]
    BY <1>1, <1>2, <1>3
  <2>2. b \in 1 .. Len(q[e]) /\ q[e][b] = p[e][j]
    BY <1>1, <1>2, <1>3
  <2>3. d = e /\ a = b
    <3> HIDE DEF a, b
    <3> QED BY <2>1, <2>2 DEF OneLogin
  <2>4. i \in Int /\ j \in Int
    OBVIOUS
  <2> QED BY <2>3, <2>4
<1>7. OneLogin(q, u) /\ LoginOf(Head(q[c]), u) => NoLogin(p, u)
  <2> SUFFICES ASSUME OneLogin(q, u), LoginOf(q[c][1], u), NEW d \in Conns,
                      NEW i \in 1 .. Len(p[d]), LoginOf(p[d][i], u)
               PROVE  FALSE
    BY <1>2 DEF NoLogin
  <2>1. CASE d = c
    <3>1. LoginOf(q[c][i + 1], u) /\ i + 1 \in 1 .. Len(q[c]) /\ i + 1 # 1
      BY <2>1, <1>2, <1>3
    <3> QED BY <3>1, <1>4 DEF OneLogin
  <2>2. CASE d # c
    BY <2>2, <1>1, <1>4 DEF OneLogin
  <2> QED BY <2>1, <2>2
<1>8. LoginOf(Head(q[c]), u) => ~ NoLogin(q, u)
  BY <1>2, <1>4 DEF NoLogin
<1> QED BY <1>5, <1>6, <1>7, <1>8

LEMMA LongerRequests ==
  ASSUME NEW t, NEW m, NEW u, NEW s, Asked(t, m, s)
  PROVE  /\ ~ SelectOf(m, u) => /\ NoSelect(t, u) => NoSelect(s, u)
                                /\ OneSelect(t, u) => OneSelect(s, u)
         /\ NoSelect(t, u) => OneSelect(s, u)
         /\ ~ WriteOf(m, u) => /\ NoWrite(t, u) => NoWrite(s, u)
                               /\ WritesFirst(t, u) => WritesFirst(s, u)
         /\ NoSelect(t, u) => WritesFirst(s, u)
<1>1. /\ Len(s) = Len(t) + 1 /\ Len(t) \in Nat
      /\ \A i \in 1 .. Len(t) : s[i] = t[i]
      /\ s[Len(t) + 1] = m
  BY AppendProperties DEF Asked
<1>2. \A i \in 1 .. Len(s) : i = Len(t) + 1 \/ i \in 1 .. Len(t)
  BY <1>1
<1>3. SelectOf(m, u) => ~ WriteOf(m, u)
  BY DEF SelectOf, WriteOf
<1>4. ~ SelectOf(m, u) => (NoSelect(t, u) => NoSelect(s, u)) /\ (OneSelect(t, u) => OneSelect(s, u))
  BY <1>1, <1>2 DEF NoSelect, OneSelect
<1>5. NoSelect(t, u) => OneSelect(s, u)
  BY <1>1, <1>2 DEF NoSelect, OneSelect
<1>6. ~ WriteOf(m, u) => (NoWrite(t, u) => NoWrite(s, u))
  BY <1>1, <1>2 DEF NoWrite
<1>7. ~ WriteOf(m, u) /\ WritesFirst(t, u) => WritesFirst(s, u)
  BY <1>1, <1>2 DEF WritesFirst
<1>8. NoSelect(t, u) => WritesFirst(s, u)
  BY <1>1, <1>2, <1>3 DEF WritesFirst, NoSelect
<1> QED BY <1>4, <1>5, <1>6, <1>7, <1>8

LEMMA ShorterRequests ==
  ASSUME NEW t, NEW u, NEW s, Served(t, s)
  PROVE  /\ NoSelect(t, u) => NoSelect(s, u)
         /\ OneSelect(t, u) => OneSelect(s, u)
         /\ OneSelect(t, u) /\ SelectOf(Head(t), u) => NoSelect(s, u)
         /\ SelectOf(Head(t), u) => ~ NoSelect(t, u)
         /\ NoWrite(t, u) => NoWrite(s, u)
         /\ WritesFirst(t, u) => WritesFirst(s, u)
         /\ WritesFirst(t, u) /\ SelectOf(Head(t), u) => NoWrite(s, u)
         /\ NoWrite(t, u) => ~ WriteOf(Head(t), u)
<1>1. /\ Len(s) = Len(t) - 1 /\ Len(t) \in Nat \ {0}
      /\ \A i \in 1 .. Len(s) : s[i] = t[i + 1]
      /\ Head(t) = t[1]
  BY HeadTailProperties DEF Served
<1>2. \A i \in 1 .. Len(s) : i \in Nat /\ i + 1 \in 1 .. Len(t) /\ i + 1 # 1 /\ ~ (i + 1 < 1)
  BY <1>1
<1>3. 1 \in 1 .. Len(t)
  BY <1>1
<1>4. NoSelect(t, u) => NoSelect(s, u)
  BY <1>1, <1>2 DEF NoSelect
<1>5. OneSelect(t, u) => OneSelect(s, u)
  <2> SUFFICES ASSUME OneSelect(t, u), NEW i \in 1 .. Len(s), NEW j \in 1 .. Len(s),
                      SelectOf(s[i], u), SelectOf(s[j], u)
               PROVE  i = j
    BY DEF OneSelect
  <2>1. i + 1 = j + 1
    BY <1>1, <1>2 DEF OneSelect
  <2> QED BY <1>1, <2>1
<1>6. OneSelect(t, u) /\ SelectOf(t[1], u) => NoSelect(s, u)
  BY <1>1, <1>2, <1>3 DEF OneSelect, NoSelect
<1>7. SelectOf(t[1], u) => ~ NoSelect(t, u)
  BY <1>3 DEF NoSelect
<1>8. NoWrite(t, u) => NoWrite(s, u)
  BY <1>1, <1>2 DEF NoWrite
<1>9. WritesFirst(t, u) => WritesFirst(s, u)
  <2> SUFFICES ASSUME WritesFirst(t, u), NEW i \in 1 .. Len(s), NEW j \in 1 .. Len(s),
                      SelectOf(s[i], u), WriteOf(s[j], u)
               PROVE  j < i
    BY DEF WritesFirst
  <2>1. j + 1 < i + 1
    BY <1>1, <1>2 DEF WritesFirst
  <2> QED BY <1>1, <2>1
<1>10. WritesFirst(t, u) /\ SelectOf(t[1], u) => NoWrite(s, u)
  BY <1>1, <1>2, <1>3 DEF WritesFirst, NoWrite
<1>11. NoWrite(t, u) => ~ WriteOf(t[1], u)
  BY <1>3 DEF NoWrite
<1> QED BY <1>1, <1>4, <1>5, <1>6, <1>7, <1>8, <1>9, <1>10, <1>11

LEMMA PrefixRequests ==
  ASSUME NEW t, NEW u, NEW s, Cut(t, s)
  PROVE  /\ NoSelect(t, u) => NoSelect(s, u)
         /\ OneSelect(t, u) => OneSelect(s, u)
         /\ NoWrite(t, u) => NoWrite(s, u)
         /\ WritesFirst(t, u) => WritesFirst(s, u)
<1>0. PICK k \in 0 .. Len(t) : s = SubSeq(t, 1, k)
  BY DEF Cut
<1>1. Len(s) = k /\ k <= Len(t) /\ k \in Nat /\ \A i \in 1 .. k : s[i] = t[i] /\ i \in 1 .. Len(t)
  <2>1. 1 \in Int /\ k \in Int /\ \A i \in 1 .. k : t[i] \in DbReq
    BY DEF Cut
  <2> QED BY <1>0, <2>1, SubSeqProperties DEF Cut
<1> QED BY <1>1 DEF NoSelect, OneSelect, NoWrite, WritesFirst

LEMMA PrefixAnswers ==
  ASSUME NEW f, NEW u, NEW g, CutAnswers(f, g)
  PROVE  /\ NoAnswer(f, u) => NoAnswer(g, u)
         /\ OneAnswer(f, u) => OneAnswer(g, u)
         /\ \A i \in 1 .. Len(g) : i \in 1 .. Len(f) /\ g[i] = f[i]
<1>0. PICK k \in 0 .. Len(f) : g = SubSeq(f, 1, k)
  BY DEF CutAnswers
<1>1. Len(g) = k /\ k <= Len(f) /\ k \in Nat /\ \A i \in 1 .. k : g[i] = f[i] /\ i \in 1 .. Len(f)
  <2>1. 1 \in Int /\ k \in Int /\ \A i \in 1 .. k : f[i] \in DbRes
    BY DEF CutAnswers
  <2> QED BY <1>0, <2>1, SubSeqProperties DEF CutAnswers
<1> QED BY <1>1 DEF NoAnswer, OneAnswer

LEMMA LongerAnswers ==
  ASSUME NEW f, NEW m, NEW u, NEW g, Answered(f, m, g)
  PROVE  /\ m.userId # u => /\ NoAnswer(f, u) => NoAnswer(g, u)
                            /\ OneAnswer(f, u) => OneAnswer(g, u)
         /\ NoAnswer(f, u) => OneAnswer(g, u)
         /\ \A i \in 1 .. Len(g) : g[i] = m \/ (i \in 1 .. Len(f) /\ g[i] = f[i])
<1>1. /\ Len(g) = Len(f) + 1 /\ Len(f) \in Nat
      /\ \A i \in 1 .. Len(f) : g[i] = f[i]
      /\ g[Len(f) + 1] = m
  BY AppendProperties DEF Answered
<1>2. \A i \in 1 .. Len(g) : i = Len(f) + 1 \/ i \in 1 .. Len(f)
  BY <1>1
<1>3. m.userId # u => (NoAnswer(f, u) => NoAnswer(g, u)) /\ (OneAnswer(f, u) => OneAnswer(g, u))
  BY <1>1, <1>2 DEF NoAnswer, OneAnswer
<1>4. NoAnswer(f, u) => OneAnswer(g, u)
  BY <1>1, <1>2 DEF NoAnswer, OneAnswer
<1> QED BY <1>1, <1>2, <1>3, <1>4

LEMMA ShorterAnswers ==
  ASSUME NEW f, NEW u, NEW g, Taken(f, g)
  PROVE  /\ NoAnswer(f, u) => NoAnswer(g, u)
         /\ OneAnswer(f, u) => OneAnswer(g, u)
         /\ OneAnswer(f, u) /\ Head(f).userId = u => NoAnswer(g, u)
         /\ Head(f).userId = u => ~ NoAnswer(f, u)
         /\ \A i \in 1 .. Len(g) : i + 1 \in 1 .. Len(f) /\ g[i] = f[i + 1]
         /\ 1 \in 1 .. Len(f) /\ Head(f) = f[1]
<1>1. /\ Len(g) = Len(f) - 1 /\ Len(f) \in Nat \ {0}
      /\ \A i \in 1 .. Len(g) : g[i] = f[i + 1]
      /\ Head(f) = f[1]
  BY HeadTailProperties DEF Taken
<1>2. \A i \in 1 .. Len(g) : i \in Nat /\ i + 1 \in 1 .. Len(f) /\ i + 1 # 1
  BY <1>1
<1>3. 1 \in 1 .. Len(f)
  BY <1>1
<1>4. NoAnswer(f, u) => NoAnswer(g, u)
  BY <1>1, <1>2 DEF NoAnswer
<1>5. OneAnswer(f, u) => OneAnswer(g, u)
  <2> SUFFICES ASSUME OneAnswer(f, u), NEW i \in 1 .. Len(g), NEW j \in 1 .. Len(g),
                      g[i].userId = u, g[j].userId = u
               PROVE  i = j
    BY DEF OneAnswer
  <2>1. i + 1 = j + 1
    BY <1>1, <1>2 DEF OneAnswer
  <2> QED BY <1>1, <2>1
<1>6. OneAnswer(f, u) /\ f[1].userId = u => NoAnswer(g, u)
  BY <1>1, <1>2, <1>3 DEF OneAnswer, NoAnswer
<1>7. f[1].userId = u => ~ NoAnswer(f, u)
  BY <1>3 DEF NoAnswer
<1> QED BY <1>1, <1>2, <1>3, <1>4, <1>5, <1>6, <1>7

-----------------------------------------------------------------------------
(* What is saved of a user: its last write that is still under way, or what *)
(* the database holds.                                                     *)
PendingIn(t, u) == {i \in DOMAIN t : t[i].type = "write" /\ t[i].userId = u}
LastOf(t, u, i) == i \in PendingIn(t, u) /\ \A j \in PendingIn(t, u) : j <= i
SavedIn(t, d, u) ==
  IF PendingIn(t, u) = {} THEN d[u]
  ELSE t[CHOOSE i \in PendingIn(t, u) : \A j \in PendingIn(t, u) : j <= i].version

LEMMA SavedIs == \A u : Saved(u) = SavedIn(toDb, db, u)
BY DEF Saved, SavedIn, Pending, PendingIn

LEMMA PendingIs ==
  ASSUME NEW t \in Seq(DbReq), NEW u
  PROVE  /\ \A i : i \in PendingIn(t, u) <=> i \in 1 .. Len(t) /\ WriteOf(t[i], u)
         /\ NoWrite(t, u) <=> PendingIn(t, u) = {}
<1>1. DOMAIN t = 1 .. Len(t)
  <2> QED BY LenProperties
<1> QED BY <1>1 DEF PendingIn, WriteOf, NoWrite

LEMMA SavedNone ==
  ASSUME NEW t \in Seq(DbReq), NEW d, NEW u, NoWrite(t, u)
  PROVE  SavedIn(t, d, u) = d[u]
BY PendingIs DEF SavedIn

LEMMA SavedLast ==
  ASSUME NEW t \in Seq(DbReq), NEW d, NEW u, NEW i, LastOf(t, u, i)
  PROVE  SavedIn(t, d, u) = t[i].version
<1>1. PendingIn(t, u) # {} /\ i \in PendingIn(t, u)
  BY DEF LastOf
<1>2. ASSUME NEW j \in PendingIn(t, u), \A k \in PendingIn(t, u) : k <= j PROVE j = i
  <2>1. j \in Int /\ i \in Int
    BY <1>1, PendingIs
  <2>2. j <= i /\ i <= j
    BY <1>1, <1>2 DEF LastOf
  <2> QED BY <2>1, <2>2
<1>3. (CHOOSE j \in PendingIn(t, u) : \A k \in PendingIn(t, u) : k <= j) = i
  BY <1>1, <1>2 DEF LastOf
<1> QED BY <1>1, <1>3 DEF SavedIn

(* There is a least number in a set, and so a last write in a queue.        *)
Less == {p \in Nat \X Nat : p[1] < p[2]}

LEMMA LeastNat ==
  ASSUME NEW T \in SUBSET Nat, T # {}
  PROVE  \E x \in T : \A y \in T : x <= y
<1>1. IsWellFoundedOn({p \in Nat \X Nat : p[1] < p[2]}, Nat)
  BY NatLessThanWellFounded, Zenon DEF OpToRel
<1>2. IsWellFoundedOn(Less, Nat)
  BY <1>1, Zenon DEF Less
<1>3. PICK x \in T : \A y \in T : ~ (<<y, x>> \in Less)
  BY <1>2, WFMin, Zenon
<1>4. ASSUME NEW y \in T PROVE x <= y
  <2>1. x \in Nat /\ y \in Nat /\ <<y, x>> \notin Less
    BY <1>3
  <2>2. ~ (<<y, x>>[1] < <<y, x>>[2])
    BY <2>1, Zenon DEF Less
  <2> QED BY <2>1, <2>2
<1> QED BY <1>4

LEMMA LastExists ==
  ASSUME NEW t \in Seq(DbReq), NEW u, ~ NoWrite(t, u)
  PROVE  \E i : LastOf(t, u, i)
<1> DEFINE T == {Len(t) - i : i \in PendingIn(t, u)}
<1>1. \A i \in PendingIn(t, u) : i \in 1 .. Len(t)
  BY PendingIs
<1>2. Len(t) \in Nat
  <2> QED OBVIOUS
<1>3. T \in SUBSET Nat /\ T # {}
  BY <1>1, <1>2, PendingIs
<1>4. PICK n \in T : \A k \in T : n <= k
  BY <1>3, LeastNat
<1>5. PICK i \in PendingIn(t, u) : n = Len(t) - i
  BY <1>4
<1>6. ASSUME NEW j \in PendingIn(t, u) PROVE j <= i
  <2>1. n <= Len(t) - j
    BY <1>4
  <2> QED BY <1>1, <1>2, <1>5, <2>1
<1> QED BY <1>5, <1>6 DEF LastOf

(* A write changes what is saved of its user; nothing else that is sent     *)
(* does, and carrying the oldest request out changes nothing.               *)
LEMMA SavedAppend ==
  ASSUME NEW t \in Seq(DbReq), NEW m \in DbReq, NEW d, NEW u
  PROVE  SavedIn(Append(t, m), d, u) = IF WriteOf(m, u) THEN m.version ELSE SavedIn(t, d, u)
<1>0. PICK s : s = Append(t, m)
  OBVIOUS
<1> SUFFICES SavedIn(s, d, u) = IF WriteOf(m, u) THEN m.version ELSE SavedIn(t, d, u)
  BY <1>0
<1>1. /\ s \in Seq(DbReq) /\ Len(s) = Len(t) + 1 /\ Len(t) \in Nat
      /\ \A i \in 1 .. Len(t) : s[i] = t[i]
      /\ s[Len(t) + 1] = m
  BY <1>0, AppendProperties
<1>2. \A i \in 1 .. Len(s) : i = Len(t) + 1 \/ i \in 1 .. Len(t)
  BY <1>1
<1>3. CASE WriteOf(m, u)
  <2>1. Len(t) + 1 \in PendingIn(s, u)
    BY <1>1, <1>3, PendingIs
  <2>2. \A j \in PendingIn(s, u) : j <= Len(t) + 1
    BY <1>1, PendingIs
  <2> QED BY <1>1, <1>3, <2>1, <2>2, SavedLast DEF LastOf
<1>4. CASE ~ WriteOf(m, u)
  <2>1. PendingIn(s, u) = PendingIn(t, u)
    <3>1. ASSUME NEW i PROVE i \in PendingIn(s, u) <=> i \in PendingIn(t, u)
      <4>1. /\ i \in PendingIn(s, u) <=> i \in 1 .. Len(s) /\ WriteOf(s[i], u)
            /\ i \in PendingIn(t, u) <=> i \in 1 .. Len(t) /\ WriteOf(t[i], u)
        BY <1>1, PendingIs
      <4>2. i \in 1 .. Len(t) => i \in 1 .. Len(s)
        BY <1>1
      <4> QED BY <1>1, <1>2, <1>4, <4>1, <4>2
    <3> QED BY <3>1
  <2>2. CASE NoWrite(t, u)
    <3>1. NoWrite(s, u)
      BY <1>1, <2>1, <2>2, PendingIs
    <3> QED BY <1>1, <1>4, <2>2, <3>1, SavedNone
  <2>3. CASE ~ NoWrite(t, u)
    <3>1. PICK i : LastOf(t, u, i)
      BY <2>3, LastExists
    <3>2. LastOf(s, u, i) /\ i \in 1 .. Len(t)
      BY <2>1, <3>1, PendingIs DEF LastOf
    <3> QED BY <1>1, <1>4, <3>1, <3>2, SavedLast
  <2> QED BY <2>2, <2>3
<1> QED BY <1>3, <1>4

LEMMA SavedTail ==
  ASSUME NEW t \in Seq(DbReq), t # <<>>, NEW d, NEW e, NEW u,
         IF WriteOf(Head(t), u) THEN e[u] = Head(t).version ELSE e[u] = d[u]
  PROVE  SavedIn(Tail(t), e, u) = SavedIn(t, d, u)
<1>0. PICK s : s = Tail(t)
  OBVIOUS
<1> SUFFICES SavedIn(s, e, u) = SavedIn(t, d, u)
  BY <1>0
<1>1. /\ s \in Seq(DbReq) /\ Len(s) = Len(t) - 1 /\ Len(t) \in Nat \ {0}
      /\ \A i \in 1 .. Len(s) : s[i] = t[i + 1]
      /\ Head(t) = t[1]
  BY <1>0, HeadTailProperties
<1>2. \A i : i \in PendingIn(s, u) <=> i \in 1 .. Len(s) /\ i + 1 \in PendingIn(t, u)
  <2>1. \A i \in 1 .. Len(s) : i + 1 \in 1 .. Len(t)
    BY <1>1
  <2>2. ASSUME NEW i PROVE i \in PendingIn(s, u) <=> i \in 1 .. Len(s) /\ i + 1 \in PendingIn(t, u)
    <3>1. i \in PendingIn(s, u) <=> i \in 1 .. Len(s) /\ WriteOf(s[i], u)
      BY <1>1, PendingIs
    <3>2. i + 1 \in PendingIn(t, u) <=> i + 1 \in 1 .. Len(t) /\ WriteOf(t[i + 1], u)
      BY PendingIs
    <3> QED BY <1>1, <2>1, <3>1, <3>2
  <2> QED BY <2>2
<1>3. CASE NoWrite(s, u)
  <2>1. SavedIn(s, e, u) = e[u]
    BY <1>1, <1>3, SavedNone
  <2>2. \A j \in PendingIn(t, u) : j = 1
    <3> SUFFICES ASSUME NEW j \in PendingIn(t, u), j # 1 PROVE FALSE
      OBVIOUS
    <3>1. j \in 1 .. Len(t)
      BY PendingIs
    <3>2. j - 1 \in 1 .. Len(s) /\ (j - 1) + 1 = j
      BY <1>1, <3>1
    <3>3. j - 1 \in PendingIn(s, u)
      BY <1>2, <3>2
    <3> QED BY <1>1, <1>3, <3>3, PendingIs
  <2>3. CASE WriteOf(Head(t), u)
    <3>1. LastOf(t, u, 1)
      BY <1>1, <2>2, <2>3, PendingIs DEF LastOf
    <3> QED BY <1>1, <2>1, <2>3, <3>1, SavedLast
  <2>4. CASE ~ WriteOf(Head(t), u)
    <3>1. NoWrite(t, u)
      BY <1>1, <2>2, <2>4, PendingIs
    <3> QED BY <2>1, <2>4, <3>1, SavedNone
  <2> QED BY <2>3, <2>4
<1>4. CASE ~ NoWrite(s, u)
  <2>1. PICK i : LastOf(s, u, i)
    BY <1>1, <1>4, LastExists
  <2>2. i \in 1 .. Len(s) /\ i + 1 \in PendingIn(t, u)
    BY <1>2, <2>1 DEF LastOf
  <2>3. ASSUME NEW j \in PendingIn(t, u) PROVE j <= i + 1
    <3>1. j \in 1 .. Len(t)
      BY PendingIs
    <3>2. CASE j = 1
      BY <1>1, <2>2, <3>2
    <3>3. CASE j # 1
      <4>1. j - 1 \in 1 .. Len(s) /\ (j - 1) + 1 = j
        BY <1>1, <3>1, <3>3
      <4>2. j - 1 <= i
        BY <1>2, <2>1, <4>1 DEF LastOf
      <4> QED BY <1>1, <2>2, <3>1, <4>2
    <3> QED BY <3>2, <3>3
  <2>4. LastOf(t, u, i + 1)
    BY <2>2, <2>3 DEF LastOf
  <2>5. SavedIn(s, e, u) = s[i].version
    BY <1>1, <2>1, SavedLast
  <2>6. SavedIn(t, d, u) = t[i + 1].version
    BY <2>4, SavedLast
  <2> QED BY <1>1, <2>2, <2>5, <2>6
<1> QED BY <1>3, <1>4

-----------------------------------------------------------------------------
(* DurInv is inductive where the logins of a user do not overlap, whatever  *)
(* is lost on the way and however the process is stopped.                  *)
Kept(u) ==
  /\ Serial(fromClient', toDb', fromDb', u)
  /\ Current(toDb', fromDb', db', userIdToPlayerId'[u], u)

LEMMA KeptDur == (\A u \in Users : Kept(u)) => DurInv'
BY DEF Kept, DurInv, Serial, Current, OneLogin, OneSelect, OneAnswer, NoLogin, NoSelect,
   NoAnswer, NoWrite, WritesFirst, LoginOf, SelectOf, WriteOf

LEMMA NotInFlight ==
  ASSUME TypeOK, NEW u \in Users, ~ LoginInFlight(u)
  PROVE  NoLogin(fromClient, u) /\ NoSelect(toDb, u) /\ NoAnswer(fromDb, u)
<1>1. /\ DOMAIN toDb = 1 .. Len(toDb) /\ DOMAIN fromDb = 1 .. Len(fromDb)
      /\ \A c \in Conns : DOMAIN fromClient[c] = 1 .. Len(fromClient[c])
  BY LenProperties DEF TypeOK
<1> QED BY <1>1 DEF LoginInFlight, NoLogin, NoSelect, NoAnswer, LoginOf, SelectOf

LEMMA DurAt ==
  ASSUME DurInv, NEW u \in Users
  PROVE  /\ Serial(fromClient, toDb, fromDb, u)
         /\ Current(toDb, fromDb, db, userIdToPlayerId[u], u)
BY DEF DurInv

(* A message that is no login joins the tunnel, or one leaves it.           *)
LEMMA EventKept ==
  ASSUME TypeOK, DurInv, NEW u \in Users, NEW c \in Conns, NEW m \in EventMsg, Deliver(c, m),
         UNCHANGED <<toDb, fromDb, db, userIdToPlayerId>>
  PROVE  Kept(u)
<1>1. m \in ClientMsg /\ ~ LoginOf(m, u)
  BY DEF ClientMsg, EventMsg, LoginOf
<1>2. Delivered(fromClient, c, m, fromClient')
  BY <1>1 DEF TypeOK, Deliver, Delivered, Tunnels
<1>3. /\ NoLogin(fromClient, u) => NoLogin(fromClient', u)
      /\ OneLogin(fromClient, u) => OneLogin(fromClient', u)
  BY <1>1, <1>2, LongerLogin
<1>4. Serial(fromClient', toDb', fromDb', u)
  BY <1>3, DurAt DEF Serial
<1>5. userIdToPlayerId'[u] = userIdToPlayerId[u]
  OBVIOUS
<1> QED BY <1>4, <1>5, DurAt DEF Kept

LEMMA IsReceived ==
  ASSUME TypeOK, NEW c \in Conns, NEW type, Receive(c, type)
  PROVE  Received(fromClient, c, fromClient')
BY DEF TypeOK, Receive, Received, Tunnels

LEMMA ReceiveKept ==
  ASSUME TypeOK, DurInv, NEW u \in Users, NEW c \in Conns, NEW type, Receive(c, type),
         UNCHANGED <<toDb, fromDb, db, userIdToPlayerId>>
  PROVE  Kept(u)
<1>1. /\ NoLogin(fromClient, u) => NoLogin(fromClient', u)
      /\ OneLogin(fromClient, u) => OneLogin(fromClient', u)
  BY IsReceived, ShorterLogin
<1>2. Serial(fromClient', toDb', fromDb', u)
  BY <1>1, DurAt DEF Serial
<1>3. userIdToPlayerId'[u] = userIdToPlayerId[u]
  OBVIOUS
<1> QED BY <1>2, <1>3, DurAt DEF Kept

LEMMA ClientLoginKept ==
  ASSUME SerialLogins, TypeOK, DurInv, NEW u \in Users,
         NEW c \in Conns, NEW w \in Users, NEW cred \in Creds, ClientLogin(c, w, cred)
  PROVE  Kept(u)
<1>1. PICK m : m = [type |-> "login", userId |-> w, cred |-> cred]
  OBVIOUS
<1>2. /\ Deliver(c, m)
      /\ UNCHANGED <<toDb, fromDb, db, userIdToPlayerId>>
      /\ ~ LoginInFlight(w)
  BY <1>1 DEF ClientLogin, ClientRequest, mgrVars, dbVars
<1>3. m \in ClientMsg /\ (u # w => ~ LoginOf(m, u))
  BY <1>1 DEF ClientMsg, LoginMsg, LoginOf
<1>4. Delivered(fromClient, c, m, fromClient')
  BY <1>2, <1>3 DEF TypeOK, Deliver, Delivered, Tunnels
<1>5. userIdToPlayerId'[u] = userIdToPlayerId[u]
  BY <1>2
<1>6. Serial(fromClient', toDb', fromDb', u)
  <2>1. CASE u = w
    <3>1. NoLogin(fromClient, u) /\ NoSelect(toDb, u) /\ NoAnswer(fromDb, u)
      BY <1>2, <2>1, NotInFlight
    <3>2. OneLogin(fromClient', u)
      BY <1>4, <3>1, LongerLogin
    <3> QED BY <1>2, <3>1, <3>2, DurAt DEF Serial
  <2>2. CASE u # w
    <3>1. /\ NoLogin(fromClient, u) => NoLogin(fromClient', u)
          /\ OneLogin(fromClient, u) => OneLogin(fromClient', u)
      BY <1>3, <1>4, <2>2, LongerLogin
    <3> QED BY <1>2, <3>1, DurAt DEF Serial
  <2> QED BY <2>1, <2>2
<1> QED BY <1>2, <1>5, <1>6, DurAt DEF Kept

(* A login's SELECT is sent when its user is not logged in.                 *)
LEMMA HandleLoginKept ==
  ASSUME TypeOK, BindingOK, DurInv, NEW u \in Users, NEW c \in Conns, HandleLogin(c)
  PROVE  Kept(u)
<1>1. PICK m : m = Head(fromClient[c])
  OBVIOUS
<1>2. Receive(c, "login") /\ UNCHANGED <<fromDb, db, userIdToPlayerId>>
  BY DEF HandleLogin, mgrVars, dbVars
<1>3. m \in ClientMsg /\ m.type = "login"
  BY <1>1, <1>2, ReceiveType
<1>4. CASE UNCHANGED toDb
  BY <1>2, <1>4, ReceiveKept
<1>5. CASE toDb' # toDb
  <2>1. PICK s : s = [type |-> "select", playerId |-> c, userId |-> m.userId, cred |-> m.cred]
    OBVIOUS
  <2>2. toDb' = Append(toDb, s) /\ GetPlayerByUserId(m.userId) = NoPlayer
    BY <1>1, <1>5, <2>1 DEF HandleLogin
  <2>3. m \in LoginMsg
    BY <1>3 DEF ClientMsg, EventMsg, LoginMsg
  <2>4. s \in DbReq /\ ~ WriteOf(s, u) /\ (u # m.userId => ~ SelectOf(s, u))
    BY <2>1, <2>3 DEF LoginMsg, DbReq, SelectReq, WriteOf, SelectOf
  <2>5. Asked(toDb, s, toDb')
    BY <2>2, <2>4 DEF TypeOK, Asked
  <2>6. /\ NoLogin(fromClient, u) => NoLogin(fromClient', u)
        /\ OneLogin(fromClient, u) => OneLogin(fromClient', u)
        /\ OneLogin(fromClient, u) /\ LoginOf(m, u) => NoLogin(fromClient', u)
        /\ LoginOf(m, u) => ~ NoLogin(fromClient, u)
    BY <1>1, <1>2, IsReceived, ShorterLogin
  <2>7. /\ ~ SelectOf(s, u) => /\ NoSelect(toDb, u) => NoSelect(toDb', u)
                               /\ OneSelect(toDb, u) => OneSelect(toDb', u)
        /\ NoSelect(toDb, u) => OneSelect(toDb', u) /\ WritesFirst(toDb', u)
        /\ NoWrite(toDb, u) => NoWrite(toDb', u)
        /\ WritesFirst(toDb, u) => WritesFirst(toDb', u)
    BY <2>4, <2>5, LongerRequests
  <2>8. PICK o : o = userIdToPlayerId[u]
    OBVIOUS
  <2>9. o = userIdToPlayerId'[u]
    BY <1>2, <2>8
  <2>10. CASE u = m.userId
    <3>1. LoginOf(m, u)
      BY <1>3, <2>10 DEF LoginOf
    <3>2. o = NoConn
      BY <2>2, <2>8, <2>10, FreeUser
    <3>3. NoSelect(toDb, u) /\ NoAnswer(fromDb, u) /\ OneLogin(fromClient, u)
      BY <2>6, <3>1, DurAt DEF Serial
    <3>4. Serial(fromClient', toDb', fromDb', u)
      BY <1>2, <2>6, <2>7, <3>1, <3>3 DEF Serial, OneAnswer, NoAnswer
    <3>5. Current(toDb', fromDb', db', o, u)
      BY <1>2, <2>7, <3>2, <3>3 DEF Current, NoAnswer
    <3> QED BY <2>9, <3>4, <3>5 DEF Kept
  <2>11. CASE u # m.userId
    <3>1. Serial(fromClient', toDb', fromDb', u)
      BY <1>2, <2>4, <2>6, <2>7, <2>11, DurAt DEF Serial
    <3>2. Current(toDb, fromDb, db, o, u)
      BY <2>8, DurAt
    <3>3. Current(toDb', fromDb', db', o, u)
      BY <1>2, <2>4, <2>7, <2>11, <3>2 DEF Current
    <3> QED BY <2>9, <3>1, <3>3 DEF Kept
  <2> QED BY <2>10, <2>11
<1> QED BY <1>4, <1>5

(* A logout's write is of a user whose record nobody is asking for.         *)
LEMMA LogoutIs ==
  ASSUME TypeOK, BindingOK, NEW c \in Conns, HandleClose(c), players[c] # NoPlayer
  PROVE  \E w \in Users, v \in Nat :
           /\ players[c] = [userId |-> w, version |-> v]
           /\ userIdToPlayerId[w] = c /\ c # NoConn
           /\ userIdToPlayerId' = [userIdToPlayerId EXCEPT ![w] = NoConn]
           /\ Asked(toDb, [type |-> "write", userId |-> w, version |-> v], toDb')
<1>1. players[c] \in PlayerObj
  BY DEF TypeOK
<1>2. PICK w \in Users, v \in Nat : players[c] = [userId |-> w, version |-> v]
  BY <1>1 DEF PlayerObj
<1>3. playerIdToUserId[c] = w
  BY <1>2 DEF BindingOK
<1>4. userIdToPlayerId[w] = c
  BY <1>3 DEF BindingOK
<1>5. w # NoUser /\ c # NoConn
  BY SessionAssumption
<1>6. userIdToPlayerId' = [userIdToPlayerId EXCEPT ![w] = NoConn]
  BY <1>3, <1>5 DEF HandleClose, RemovePlayerByPlayerId
<1>7. toDb' = Append(toDb, [type |-> "write", userId |-> w, version |-> v])
  BY <1>2 DEF HandleClose, OnLogout
<1>8. Asked(toDb, [type |-> "write", userId |-> w, version |-> v], toDb')
  BY <1>7 DEF Asked, TypeOK, DbReq, WriteReq
<1> QED BY <1>2, <1>4, <1>5, <1>6, <1>8

LEMMA HandleCloseKept ==
  ASSUME TypeOK, BindingOK, DurInv, NEW u \in Users, NEW c \in Conns, HandleClose(c)
  PROVE  Kept(u)
<1>1. Receive(c, "close") /\ UNCHANGED <<fromDb, db>>
  BY DEF HandleClose, dbVars
<1>2. CASE players[c] = NoPlayer
  BY <1>1, <1>2, ReceiveKept DEF HandleClose, mgrVars
<1>3. CASE players[c] # NoPlayer
  <2>1. PICK w \in Users, v \in Nat :
          /\ players[c] = [userId |-> w, version |-> v]
          /\ userIdToPlayerId[w] = c /\ c # NoConn
          /\ userIdToPlayerId' = [userIdToPlayerId EXCEPT ![w] = NoConn]
          /\ Asked(toDb, [type |-> "write", userId |-> w, version |-> v], toDb')
    BY <1>3, LogoutIs
  <2>2. PICK s : s = [type |-> "write", userId |-> w, version |-> v]
    OBVIOUS
  <2>3. Asked(toDb, s, toDb') /\ ~ SelectOf(s, u) /\ (u # w => ~ WriteOf(s, u))
    BY <2>1, <2>2 DEF WriteOf, SelectOf
  <2>4. /\ NoLogin(fromClient, u) => NoLogin(fromClient', u)
        /\ OneLogin(fromClient, u) => OneLogin(fromClient', u)
    BY <1>1, IsReceived, ShorterLogin
  <2>5. /\ NoSelect(toDb, u) => NoSelect(toDb', u)
        /\ OneSelect(toDb, u) => OneSelect(toDb', u)
        /\ ~ WriteOf(s, u) => /\ NoWrite(toDb, u) => NoWrite(toDb', u)
                              /\ WritesFirst(toDb, u) => WritesFirst(toDb', u)
    BY <2>3, LongerRequests
  <2>6. Serial(fromClient', toDb', fromDb', u)
    BY <1>1, <2>4, <2>5, DurAt DEF Serial
  <2>7. CASE u = w
    <3>1. NoSelect(toDb, u) /\ NoAnswer(fromDb, u)
      BY <2>1, <2>7, DurAt DEF Current, NoAnswer
    <3>2. NoSelect(toDb', u) /\ NoAnswer(fromDb', u)
      BY <1>1, <2>5, <3>1
    <3> QED BY <2>6, <3>2 DEF Kept, Current, NoAnswer
  <2>8. CASE u # w
    <3>1. PICK o : o = userIdToPlayerId[u]
      OBVIOUS
    <3>2. o = userIdToPlayerId'[u]
      BY <2>1, <2>8, <3>1 DEF TypeOK
    <3>3. Current(toDb, fromDb, db, o, u)
      BY <3>1, DurAt
    <3>4. Current(toDb', fromDb', db', o, u)
      BY <1>1, <2>3, <2>5, <2>8, <3>3 DEF Current
    <3> QED BY <2>6, <3>2, <3>4 DEF Kept
  <2> QED BY <2>7, <2>8
<1> QED BY <1>2, <1>3

(* An answer puts a Player in the way of its user's next login, and there   *)
(* is no other request of that user.                                       *)
LEMMA HandleLoginResKept ==
  ASSUME TypeOK, BindingOK, DurInv, NEW u \in Users, HandleLoginRes
  PROVE  Kept(u)
<1>1. PICK res : res = Head(fromDb)
  OBVIOUS
<1>2. Taken(fromDb, fromDb') /\ UNCHANGED <<fromClient, toDb, db>>
  BY DEF HandleLoginRes, TypeOK, Taken, dbVars
<1>3. /\ NoAnswer(fromDb, u) => NoAnswer(fromDb', u)
      /\ OneAnswer(fromDb, u) => OneAnswer(fromDb', u)
      /\ OneAnswer(fromDb, u) /\ res.userId = u => NoAnswer(fromDb', u)
      /\ res.userId = u => ~ NoAnswer(fromDb, u)
      /\ \A i \in 1 .. Len(fromDb') : i + 1 \in 1 .. Len(fromDb) /\ fromDb'[i] = fromDb[i + 1]
  BY <1>1, <1>2, ShorterAnswers
<1>4. Serial(fromClient', toDb', fromDb', u)
  BY <1>2, <1>3, DurAt DEF Serial
<1>5. CASE res.userId = u
  <2>1. NoAnswer(fromDb', u) /\ NoSelect(toDb', u)
    BY <1>2, <1>3, <1>5, DurAt DEF Serial
  <2> QED BY <1>4, <2>1 DEF Kept, Current, NoAnswer
<1>6. CASE res.userId # u
  <2>1. PICK o : o = userIdToPlayerId[u]
    OBVIOUS
  <2>2. o = userIdToPlayerId'[u]
    BY <1>1, <1>6, <2>1 DEF HandleLoginRes, mgrVars, CreateAndBind, TypeOK
  <2>3. Current(toDb, fromDb, db, o, u)
    BY <2>1, DurAt
  <2>4. Current(toDb', fromDb', db', o, u)
    BY <1>2, <1>3, <2>3 DEF Current
  <2> QED BY <1>4, <2>2, <2>4 DEF Kept
<1> QED BY <1>5, <1>6

(* A SELECT is carried out after the writes of its user.                    *)
LEMMA SelectIs ==
  ASSUME TypeOK, DbSelect
  PROVE  \E req \in SelectReq, res \in DbRes :
           /\ Head(toDb) = req /\ req.type = "select"
           /\ res.userId = req.userId /\ res.record \in {db[req.userId], NoRecord}
           /\ Served(toDb, toDb') /\ Answered(fromDb, res, fromDb')
<1>1. PICK req : req = Head(toDb)
  OBVIOUS
<1>2. Served(toDb, toDb') /\ req \in DbReq /\ req.type = "select"
  BY <1>1 DEF DbSelect, TypeOK, Served
<1>3. req \in SelectReq
  BY <1>2 DEF DbReq, SelectReq, WriteReq
<1>4. PICK rec \in {db[req.userId], NoRecord} :
        fromDb' = Append(fromDb, [playerId |-> req.playerId, userId |-> req.userId,
                                  cred |-> req.cred, record |-> rec])
  BY <1>1 DEF DbSelect
<1>5. req.userId \in Users /\ req.playerId \in Conns /\ req.cred \in Creds
  BY <1>3 DEF SelectReq
<1>6. rec \in Nat \cup {NoRecord}
  BY <1>4, <1>5 DEF TypeOK
<1>7. PICK res : res = [playerId |-> req.playerId, userId |-> req.userId,
                        cred |-> req.cred, record |-> rec]
  OBVIOUS
<1>8. res \in DbRes /\ res.userId = req.userId /\ res.record = rec
  BY <1>5, <1>6, <1>7 DEF DbRes
<1>9. Answered(fromDb, res, fromDb')
  BY <1>4, <1>7, <1>8 DEF Answered, TypeOK
<1> QED BY <1>1, <1>2, <1>3, <1>4, <1>8, <1>9

LEMMA DbSelectKept ==
  ASSUME TypeOK, DurInv, NEW u \in Users, DbSelect
  PROVE  Kept(u)
<1>1. PICK req \in SelectReq, res \in DbRes :
        /\ Head(toDb) = req /\ req.type = "select"
        /\ res.userId = req.userId /\ res.record \in {db[req.userId], NoRecord}
        /\ Served(toDb, toDb') /\ Answered(fromDb, res, fromDb')
  BY SelectIs
<1>2. UNCHANGED <<fromClient, db, userIdToPlayerId>>
  BY DEF DbSelect, mgrVars, dbVars
<1>3. /\ NoSelect(toDb, u) => NoSelect(toDb', u)
      /\ OneSelect(toDb, u) => OneSelect(toDb', u)
      /\ OneSelect(toDb, u) /\ SelectOf(req, u) => NoSelect(toDb', u)
      /\ SelectOf(req, u) => ~ NoSelect(toDb, u)
      /\ NoWrite(toDb, u) => NoWrite(toDb', u)
      /\ WritesFirst(toDb, u) => WritesFirst(toDb', u)
      /\ WritesFirst(toDb, u) /\ SelectOf(req, u) => NoWrite(toDb', u)
  BY <1>1, ShorterRequests
<1>4. /\ res.userId # u => /\ NoAnswer(fromDb, u) => NoAnswer(fromDb', u)
                           /\ OneAnswer(fromDb, u) => OneAnswer(fromDb', u)
      /\ NoAnswer(fromDb, u) => OneAnswer(fromDb', u)
      /\ \A i \in 1 .. Len(fromDb') :
           fromDb'[i] = res \/ (i \in 1 .. Len(fromDb) /\ fromDb'[i] = fromDb[i])
  <2>1. Answered(fromDb, res, fromDb')
    BY <1>1
  <2> QED BY <2>1, LongerAnswers, Zenon
<1>5. SelectOf(req, u) <=> req.userId = u
  BY <1>1 DEF SelectOf
<1>6. PICK o : o = userIdToPlayerId[u]
  OBVIOUS
<1>7. o = userIdToPlayerId'[u]
  BY <1>2, <1>6
<1>8. Current(toDb, fromDb, db, o, u)
  BY <1>6, DurAt
<1>9. CASE req.userId = u
  <2>1. NoLogin(fromClient, u) /\ NoAnswer(fromDb, u) /\ NoSelect(toDb', u)
    BY <1>3, <1>5, <1>9, DurAt DEF Serial
  <2>2. o = NoConn /\ NoWrite(toDb', u)
    BY <1>3, <1>5, <1>8, <1>9 DEF Current
  <2>3. Serial(fromClient', toDb', fromDb', u)
    BY <1>2, <1>3, <1>4, <2>1, DurAt DEF Serial, OneLogin, NoLogin
  <2>4. \A i \in 1 .. Len(fromDb') : fromDb'[i].userId = u => fromDb'[i].record \in {db'[u], NoRecord}
    BY <1>1, <1>2, <1>4, <1>9, <2>1 DEF NoAnswer
  <2> QED BY <1>7, <2>1, <2>2, <2>3, <2>4 DEF Kept, Current
<1>10. CASE req.userId # u
  <2>1. Serial(fromClient', toDb', fromDb', u)
    BY <1>1, <1>2, <1>3, <1>4, <1>10, DurAt DEF Serial
  <2>2. Current(toDb', fromDb', db', o, u)
    BY <1>1, <1>2, <1>3, <1>4, <1>8, <1>10 DEF Current
  <2> QED BY <1>7, <2>1, <2>2 DEF Kept
<1> QED BY <1>9, <1>10

(* A write reaches the database before its user's record is read.           *)
LEMMA WriteIs ==
  ASSUME TypeOK, DbWrite
  PROVE  \E w \in Users, v \in Nat :
           /\ Head(toDb) = [type |-> "write", userId |-> w, version |-> v]
           /\ Served(toDb, toDb')
           /\ db' = [db EXCEPT ![w] = v]
<1>1. PICK req : req = Head(toDb)
  OBVIOUS
<1>2. Served(toDb, toDb') /\ req \in DbReq /\ req.type = "write"
  BY <1>1 DEF DbWrite, TypeOK, Served
<1>3. req \in WriteReq
  BY <1>2 DEF DbReq, SelectReq, WriteReq
<1>4. PICK w \in Users, v \in Nat : req = [type |-> "write", userId |-> w, version |-> v]
  BY <1>2, <1>3 DEF WriteReq
<1>5. db' = [db EXCEPT ![w] = v]
  <2>1. db' = [db EXCEPT ![req.userId] = req.version]
    BY <1>1 DEF DbWrite
  <2>2. req.userId = w /\ req.version = v
    BY <1>4
  <2> QED BY <2>1, <2>2
<1> QED BY <1>1, <1>2, <1>4, <1>5

LEMMA DbWriteKept ==
  ASSUME TypeOK, DurInv, NEW u \in Users, DbWrite
  PROVE  Kept(u)
<1>1. PICK w \in Users, v \in Nat :
        /\ Head(toDb) = [type |-> "write", userId |-> w, version |-> v]
        /\ Served(toDb, toDb')
        /\ db' = [db EXCEPT ![w] = v]
  BY WriteIs
<1>2. UNCHANGED <<fromClient, fromDb, userIdToPlayerId>>
  BY DEF DbWrite, mgrVars
<1>3. /\ NoSelect(toDb, u) => NoSelect(toDb', u)
      /\ OneSelect(toDb, u) => OneSelect(toDb', u)
      /\ NoWrite(toDb, u) => NoWrite(toDb', u)
      /\ WritesFirst(toDb, u) => WritesFirst(toDb', u)
      /\ NoWrite(toDb, u) => ~ WriteOf(Head(toDb), u)
  BY <1>1, ShorterRequests
<1>4. WriteOf(Head(toDb), u) <=> w = u
  BY <1>1 DEF WriteOf
<1>5. PICK o : o = userIdToPlayerId[u]
  OBVIOUS
<1>6. o = userIdToPlayerId'[u]
  BY <1>2, <1>5
<1>7. Current(toDb, fromDb, db, o, u)
  BY <1>5, DurAt
<1>8. Serial(fromClient', toDb', fromDb', u)
  BY <1>2, <1>3, DurAt DEF Serial
<1>9. NoWrite(toDb, u) => db'[u] = db[u]
  BY <1>1, <1>3, <1>4 DEF TypeOK
<1>10. Current(toDb', fromDb', db', o, u)
  BY <1>2, <1>3, <1>7, <1>9 DEF Current
<1> QED BY <1>6, <1>8, <1>10 DEF Kept

(* What dies with the process is never a part of an answer.                 *)
LEMMA StopKept ==
  ASSUME TypeOK, BindingOK, DurInv, NEW u \in Users, Stop
  PROVE  Kept(u)
<1>1. Cut(toDb, toDb') /\ UNCHANGED <<fromClient, fromDb, db>>
  BY DEF Stop, Cut, TypeOK, dbVars
<1>2. /\ NoSelect(toDb, u) => NoSelect(toDb', u)
      /\ OneSelect(toDb, u) => OneSelect(toDb', u)
      /\ NoWrite(toDb, u) => NoWrite(toDb', u)
      /\ WritesFirst(toDb, u) => WritesFirst(toDb', u)
  BY <1>1, PrefixRequests
<1>3. Serial(fromClient', toDb', fromDb', u)
  BY <1>1, <1>2, DurAt DEF Serial
<1>4. PICK o : o = userIdToPlayerId[u]
  OBVIOUS
<1>5. Current(toDb, fromDb, db, o, u)
  BY <1>4, DurAt
<1>6. userIdToPlayerId'[u] = NoConn
  BY StopEmptiesTables
<1>7. Current(toDb', fromDb', db', NoConn, u)
  BY <1>1, <1>2, <1>5 DEF Current
<1> QED BY <1>3, <1>6, <1>7 DEF Kept

(* What is lost with a failed write or a broken stream leaves no answer     *)
(* wrong: no answer is older than a write that is gone.                     *)
LEMMA WriteFailsKept ==
  ASSUME TypeOK, DurInv, NEW u \in Users, DbWriteFails
  PROVE  Kept(u)
<1>1. Served(toDb, toDb') /\ UNCHANGED <<fromClient, fromDb, db, userIdToPlayerId>>
  BY DEF DbWriteFails, TypeOK, Served, mgrVars
<1>2. /\ NoSelect(toDb, u) => NoSelect(toDb', u)
      /\ OneSelect(toDb, u) => OneSelect(toDb', u)
      /\ NoWrite(toDb, u) => NoWrite(toDb', u)
      /\ WritesFirst(toDb, u) => WritesFirst(toDb', u)
  BY <1>1, ShorterRequests
<1>3. PICK o : o = userIdToPlayerId[u]
  OBVIOUS
<1>4. o = userIdToPlayerId'[u]
  BY <1>1, <1>3
<1>5. Current(toDb, fromDb, db, o, u)
  BY <1>3, DurAt
<1>6. Serial(fromClient', toDb', fromDb', u)
  BY <1>1, <1>2, DurAt DEF Serial
<1>7. Current(toDb', fromDb', db', o, u)
  BY <1>1, <1>2, <1>5 DEF Current
<1> QED BY <1>4, <1>6, <1>7 DEF Kept

LEMMA LinkDropKept ==
  ASSUME TypeOK, DurInv, NEW u \in Users, LinkDrop
  PROVE  Kept(u)
<1>1. /\ Cut(toDb, toDb') /\ CutAnswers(fromDb, fromDb')
      /\ UNCHANGED <<fromClient, db, userIdToPlayerId>>
  BY DEF LinkDrop, TypeOK, Cut, CutAnswers, mgrVars
<1>2. /\ NoSelect(toDb, u) => NoSelect(toDb', u)
      /\ OneSelect(toDb, u) => OneSelect(toDb', u)
      /\ NoWrite(toDb, u) => NoWrite(toDb', u)
      /\ WritesFirst(toDb, u) => WritesFirst(toDb', u)
  BY <1>1, PrefixRequests
<1>3. /\ NoAnswer(fromDb, u) => NoAnswer(fromDb', u)
      /\ OneAnswer(fromDb, u) => OneAnswer(fromDb', u)
      /\ \A i \in 1 .. Len(fromDb') : i \in 1 .. Len(fromDb) /\ fromDb'[i] = fromDb[i]
  BY <1>1, PrefixAnswers
<1>4. PICK o : o = userIdToPlayerId[u]
  OBVIOUS
<1>5. o = userIdToPlayerId'[u]
  BY <1>1, <1>4
<1>6. Current(toDb, fromDb, db, o, u)
  BY <1>4, DurAt
<1>7. Serial(fromClient', toDb', fromDb', u)
  BY <1>1, <1>2, <1>3, DurAt DEF Serial
<1>8. Current(toDb', fromDb', db', o, u)
  BY <1>1, <1>2, <1>3, <1>6 DEF Current
<1> QED BY <1>5, <1>7, <1>8 DEF Kept

LEMMA FrameKept ==
  ASSUME DurInv, NEW u \in Users, UNCHANGED <<fromClient, toDb, fromDb, db, userIdToPlayerId>>
  PROVE  Kept(u)
<1>1. userIdToPlayerId'[u] = userIdToPlayerId[u]
  OBVIOUS
<1> QED BY <1>1, DurAt DEF Kept

LEMMA DurStep ==
  ASSUME SerialLogins, TypeOK, BindingOK, DurInv, [Next]_vars
  PROVE  DurInv'
<1> SUFFICES ASSUME NEW u \in Users PROVE Kept(u)
  BY KeptDur
<1>1. ASSUME NEW c \in Conns, ClientOpen(c) PROVE Kept(u)
  <2>1. [type |-> "new"] \in EventMsg
    BY DEF EventMsg
  <2> QED BY <1>1, <2>1, EventKept DEF ClientOpen, mgrVars, dbVars
<1>2. ASSUME NEW c \in Conns, NEW w \in Users, NEW cred \in Creds, ClientLogin(c, w, cred)
      PROVE  Kept(u)
  BY <1>2, ClientLoginKept
<1>3. ASSUME NEW c \in Conns, ClientExample(c) PROVE Kept(u)
  <2>1. [type |-> "example"] \in EventMsg
    BY DEF EventMsg
  <2> QED BY <1>3, <2>1, EventKept DEF ClientExample, ClientRequest, mgrVars, dbVars
<1>4. [type |-> "close"] \in EventMsg
  BY DEF EventMsg
<1>5. ASSUME NEW c \in Conns, ClientClose(c) PROVE Kept(u)
  BY <1>4, <1>5, EventKept DEF ClientClose, mgrVars, dbVars
<1>6. ASSUME NEW c \in Conns, WorkerClose(c) PROVE Kept(u)
  <2>1. UNCHANGED <<toDb, fromDb, db, userIdToPlayerId>>
    BY <1>6 DEF WorkerClose, mgrVars, dbVars
  <2>2. CASE conn[c] = "open"
    BY <1>4, <1>6, <2>1, <2>2, EventKept DEF WorkerClose
  <2>3. CASE conn[c] # "open"
    BY <1>6, <2>1, <2>3, FrameKept DEF WorkerClose
  <2> QED BY <2>2, <2>3
<1>7. ASSUME NEW c \in Conns, HandleNew(c) \/ HandleExample(c) PROVE Kept(u)
  BY <1>7, ReceiveKept DEF HandleNew, HandleExample, mgrVars, dbVars
<1>8. ASSUME NEW c \in Conns, HandleClose(c) PROVE Kept(u)
  BY <1>8, HandleCloseKept
<1>9. ASSUME NEW c \in Conns, HandleLogin(c) PROVE Kept(u)
  BY <1>9, HandleLoginKept
<1>10. CASE PlayerTick \/ SafeStop \/ UNCHANGED vars
  BY <1>10, FrameKept DEF PlayerTick, SafeStop, vars, mgrVars, dbVars
<1>11. CASE HandleLoginRes
  BY <1>11, HandleLoginResKept
<1>12. CASE Stop
  BY <1>12, StopKept
<1>13. CASE DbSelect
  BY <1>13, DbSelectKept
<1>14. CASE DbWrite
  BY <1>14, DbWriteKept
<1>15. CASE DbWriteFails \/ LinkDrop
  BY <1>15, WriteFailsKept, LinkDropKept
<1> QED
  BY <1>1, <1>2, <1>3, <1>5, <1>6, <1>7, <1>8, <1>9, <1>10, <1>11, <1>12, <1>13, <1>14,
     <1>15 DEF Next

LEMMA DurInit == Init => DurInv
<1> SUFFICES ASSUME Init PROVE DurInv
  OBVIOUS
<1>1. /\ \A c \in Conns : Len(fromClient[c]) = 0
      /\ Len(toDb) = 0 /\ Len(fromDb) = 0
  BY DEF Init
<1>2. 1 .. 0 = {}
  OBVIOUS
<1> QED BY <1>1, <1>2 DEF DurInv, Serial, Current, OneLogin, OneSelect, OneAnswer, NoLogin,
   NoSelect, NoAnswer

-----------------------------------------------------------------------------
(* Where a user's data is before and after a step.                         *)
LEMMA DataIs ==
  ASSUME NEW u
  PROVE  /\ userIdToPlayerId[u] = NoConn => Data(u) = SavedIn(toDb, db, u)
         /\ userIdToPlayerId[u] # NoConn => Data(u) = players[userIdToPlayerId[u]].version
BY SavedIs DEF Data

LEMMA DataBecomes ==
  ASSUME NEW u
  PROVE  /\ userIdToPlayerId'[u] = NoConn => Data(u)' = SavedIn(toDb', db', u)
         /\ userIdToPlayerId'[u] # NoConn => Data(u)' = players'[userIdToPlayerId'[u]].version
BY DEF Data, Saved, SavedIn, Pending, PendingIn

LEMMA DataSame ==
  ASSUME NEW u, userIdToPlayerId'[u] = userIdToPlayerId[u],
         \/ /\ userIdToPlayerId[u] # NoConn
            /\ players'[userIdToPlayerId[u]].version = players[userIdToPlayerId[u]].version
         \/ /\ userIdToPlayerId[u] = NoConn
            /\ SavedIn(toDb', db', u) = SavedIn(toDb, db, u)
  PROVE  Data(u)' = Data(u)
<1>1. PICK o, oo : o = userIdToPlayerId[u] /\ oo = userIdToPlayerId'[u]
  OBVIOUS
<1>2. CASE o = NoConn
  BY <1>1, <1>2, DataIs, DataBecomes
<1>3. CASE o # NoConn
  BY <1>1, <1>3, DataIs, DataBecomes
<1> QED BY <1>2, <1>3

DataKept == \A u \in Users : Data(u)' = Data(u)

(* The owner of a user has a Player of that user, and of no other.          *)
LEMMA OwnerIs ==
  ASSUME TypeOK, BindingOK, NEW u \in Users, userIdToPlayerId[u] # NoConn
  PROVE  /\ userIdToPlayerId[u] \in Conns
         /\ players[userIdToPlayerId[u]] \in PlayerObj
         /\ players[userIdToPlayerId[u]] # NoPlayer
         /\ players[userIdToPlayerId[u]].userId = u
<1>1. PICK c \in Conns : c = userIdToPlayerId[u]
  BY DEF TypeOK
<1>2. playerIdToUserId[c] = u /\ u # NoUser
  BY <1>1, SessionAssumption DEF BindingOK
<1>3. players[c] # NoPlayer
  BY <1>2 DEF BindingOK
<1>4. players[c].userId = u
  BY <1>2, <1>3 DEF BindingOK
<1>5. players[c] \in PlayerObj
  BY <1>3 DEF TypeOK
<1> QED BY <1>1, <1>3, <1>4, <1>5

(* A step that touches neither the tables nor what is saved.                *)
LEMMA DataFrame ==
  ASSUME UNCHANGED <<players, userIdToPlayerId>>,
         \A u \in Users : SavedIn(toDb', db', u) = SavedIn(toDb, db, u)
  PROVE  DataKept
<1> SUFFICES ASSUME NEW u \in Users PROVE Data(u)' = Data(u)
  BY DEF DataKept
<1>1. userIdToPlayerId'[u] = userIdToPlayerId[u]
  OBVIOUS
<1>2. players'[userIdToPlayerId[u]].version = players[userIdToPlayerId[u]].version
  OBVIOUS
<1>3. SavedIn(toDb', db', u) = SavedIn(toDb, db, u)
  OBVIOUS
<1> QED BY <1>1, <1>2, <1>3, DataSame

LEMMA AskedSaved ==
  ASSUME NEW t, NEW m, NEW s, Asked(t, m, s), NEW d, NEW u
  PROVE  SavedIn(s, d, u) = IF WriteOf(m, u) THEN m.version ELSE SavedIn(t, d, u)
BY SavedAppend DEF Asked

LEMMA ServedSaved ==
  ASSUME NEW t, NEW s, Served(t, s), NEW d, NEW e, NEW u,
         IF WriteOf(Head(t), u) THEN e[u] = Head(t).version ELSE e[u] = d[u]
  PROVE  SavedIn(s, e, u) = SavedIn(t, d, u)
BY SavedTail DEF Served

(* The steps that the data does not see.                                   *)
LEMMA DbStepData ==
  ASSUME TypeOK, DbSelect \/ DbWrite
  PROVE  DataKept
<1>1. UNCHANGED <<players, userIdToPlayerId>>
  BY DEF DbSelect, DbWrite, mgrVars
<1>2. ASSUME DbSelect, NEW u \in Users PROVE SavedIn(toDb', db', u) = SavedIn(toDb, db, u)
  <2>1. PICK req \in SelectReq, res \in DbRes :
          /\ Head(toDb) = req /\ req.type = "select"
          /\ res.userId = req.userId /\ res.record \in {db[req.userId], NoRecord}
          /\ Served(toDb, toDb') /\ Answered(fromDb, res, fromDb')
    BY <1>2, SelectIs
  <2>2. ~ WriteOf(Head(toDb), u)
    BY <2>1 DEF WriteOf
  <2>3. db' = db
    BY <1>2 DEF DbSelect, dbVars
  <2>4. Served(toDb, toDb')
    BY <2>1
  <2>5. SavedIn(toDb', db, u) = SavedIn(toDb, db, u)
    BY <2>2, <2>4, ServedSaved
  <2> QED BY <2>3, <2>5
<1>3. ASSUME DbWrite, NEW u \in Users PROVE SavedIn(toDb', db', u) = SavedIn(toDb, db, u)
  <2>1. PICK w \in Users, v \in Nat :
          /\ Head(toDb) = [type |-> "write", userId |-> w, version |-> v]
          /\ Served(toDb, toDb')
          /\ db' = [db EXCEPT ![w] = v]
    BY <1>3, WriteIs
  <2>2. PICK h : h = Head(toDb)
    OBVIOUS
  <2>3. WriteOf(h, u) <=> u = w
    BY <2>1, <2>2 DEF WriteOf
  <2>4. IF u = w THEN db'[u] = h.version ELSE db'[u] = db[u]
    BY <2>1, <2>2 DEF TypeOK
  <2>5. IF WriteOf(Head(toDb), u) THEN db'[u] = Head(toDb).version ELSE db'[u] = db[u]
    BY <2>2, <2>3, <2>4
  <2>6. Served(toDb, toDb')
    BY <2>1
  <2> QED BY <2>5, <2>6, ServedSaved
<1> QED BY <1>1, <1>2, <1>3, DataFrame

LEMMA HandleLoginData ==
  ASSUME TypeOK, NEW c \in Conns, HandleLogin(c)
  PROVE  DataKept
<1>1. UNCHANGED <<players, userIdToPlayerId, db>>
  BY DEF HandleLogin, mgrVars, dbVars
<1>2. CASE UNCHANGED toDb
  <2>1. \A u \in Users : SavedIn(toDb', db', u) = SavedIn(toDb, db, u)
    BY <1>1, <1>2
  <2> QED BY <1>1, <2>1, DataFrame
<1>3. CASE toDb' # toDb
  <2>1. PICK m : m = Head(fromClient[c])
    OBVIOUS
  <2>2. m \in ClientMsg /\ m.type = "login"
    BY <2>1, ReceiveType DEF HandleLogin
  <2>3. m \in LoginMsg
    BY <2>2 DEF ClientMsg, EventMsg, LoginMsg
  <2>4. PICK s : s = [type |-> "select", playerId |-> c, userId |-> m.userId, cred |-> m.cred]
    OBVIOUS
  <2>5. toDb' = Append(toDb, s)
    BY <1>3, <2>1, <2>4 DEF HandleLogin
  <2>6. Asked(toDb, s, toDb') /\ \A u : ~ WriteOf(s, u)
    BY <2>3, <2>4, <2>5 DEF Asked, TypeOK, LoginMsg, DbReq, SelectReq, WriteOf
  <2>7. \A u \in Users : SavedIn(toDb', db', u) = SavedIn(toDb, db, u)
    BY <1>1, <2>6, AskedSaved
  <2> QED BY <1>1, <2>7, DataFrame
<1> QED BY <1>2, <1>3

(* A logout leaves the data where the next login finds it.                  *)
LEMMA LogoutData ==
  ASSUME TypeOK, BindingOK, NEW c \in Conns, HandleClose(c), players[c] # NoPlayer
  PROVE  DataKept /\ \E w \in Users : Durable!Release(w)
<1>1. PICK w \in Users, v \in Nat :
        /\ players[c] = [userId |-> w, version |-> v]
        /\ userIdToPlayerId[w] = c /\ c # NoConn
        /\ userIdToPlayerId' = [userIdToPlayerId EXCEPT ![w] = NoConn]
        /\ Asked(toDb, [type |-> "write", userId |-> w, version |-> v], toDb')
  BY LogoutIs
<1>2. PICK s : s = [type |-> "write", userId |-> w, version |-> v]
  OBVIOUS
<1>3. Asked(toDb, s, toDb') /\ s.version = v /\ \A u : WriteOf(s, u) <=> u = w
  BY <1>1, <1>2 DEF WriteOf
<1>4. UNCHANGED <<db, safeStop>> /\ players' = [players EXCEPT ![c] = NoPlayer]
  BY DEF HandleClose, RemovePlayerByPlayerId, dbVars
<1>5. ASSUME NEW u \in Users PROVE Data(u)' = Data(u)
  <2>1. SavedIn(toDb', db', u) = IF u = w THEN v ELSE SavedIn(toDb, db, u)
    BY <1>3, <1>4, AskedSaved
  <2>2. CASE u = w
    <3>1. userIdToPlayerId'[u] = NoConn
      BY <1>1, <2>2 DEF TypeOK
    <3>2. userIdToPlayerId[u] = c /\ c # NoConn /\ players[c].version = v
      BY <1>1, <2>2
    <3>3. Data(u)' = v
      BY <2>1, <2>2, <3>1, DataBecomes
    <3>4. Data(u) = v
      BY <3>2, DataIs
    <3> QED BY <3>3, <3>4
  <2>3. CASE u # w
    <3>1. userIdToPlayerId'[u] = userIdToPlayerId[u]
      BY <1>1, <2>3 DEF TypeOK
    <3>2. CASE userIdToPlayerId[u] = NoConn
      BY <2>1, <2>3, <3>1, <3>2, DataSame
    <3>3. CASE userIdToPlayerId[u] # NoConn
      <4>1. userIdToPlayerId[u] \in Conns /\ userIdToPlayerId[u] # c
        BY <1>1, <2>3, <3>3, OwnerIs
      <4>2. players'[userIdToPlayerId[u]] = players[userIdToPlayerId[u]]
        BY <1>4, <4>1 DEF TypeOK
      <4> QED BY <3>1, <3>3, <4>2, DataSame
    <3> QED BY <3>2, <3>3
  <2> QED BY <2>2, <2>3
<1>6. Durable!Release(w)
  BY <1>1, <1>4 DEF Durable!Release
<1> QED BY <1>5, <1>6 DEF DataKept

(* The answer that lets a user in carries the user's data: it was read      *)
(* after the last write of the user, and nothing has been written since.    *)
LEMMA AnswerIsData ==
  ASSUME TypeOK, DurInv, fromDb # <<>>, Head(fromDb).userId \in Users,
         Head(fromDb).record # NoRecord
  PROVE  /\ userIdToPlayerId[Head(fromDb).userId] = NoConn
         /\ Data(Head(fromDb).userId) = Head(fromDb).record
<1>1. PICK res, u : res = Head(fromDb) /\ u = res.userId
  OBVIOUS
<1>2. 1 \in 1 .. Len(fromDb) /\ fromDb[1] = res
  <2>1. Len(fromDb) \in Nat \ {0} /\ Head(fromDb) = fromDb[1]
    BY HeadTailProperties DEF TypeOK
  <2> QED BY <1>1, <2>1
<1>3. u \in Users /\ res.record # NoRecord
  BY <1>1
<1>4. Current(toDb, fromDb, db, userIdToPlayerId[u], u)
  BY <1>3, DurAt
<1>5. userIdToPlayerId[u] = NoConn /\ NoWrite(toDb, u) /\ res.record \in {db[u], NoRecord}
  BY <1>1, <1>2, <1>4 DEF Current
<1>6. SavedIn(toDb, db, u) = db[u]
  BY <1>5, SavedNone DEF TypeOK
<1>7. Data(u) = res.record
  BY <1>3, <1>5, <1>6, DataIs
<1> QED BY <1>1, <1>5, <1>7

LEMMA LoginData ==
  ASSUME TypeOK, BindingOK, DurInv, HandleLoginRes, LoginAccepted(Head(fromDb))
  PROVE  /\ DataKept
         /\ \E c \in Conns, u \in Users : Data(u) # NoRecord /\ Durable!Acquire(c, u)
<1>1. PICK c, u, v : c = Head(fromDb).playerId /\ u = Head(fromDb).userId /\ v = Head(fromDb).record
  OBVIOUS
<1>2. /\ fromDb # <<>> /\ UNCHANGED <<toDb, db, safeStop>>
      /\ CreateAndBind(c, u, v)
  BY <1>1 DEF HandleLoginRes, dbVars
<1>3. /\ c \in Conns /\ u \in Users /\ v \in Nat /\ v # NoRecord
      /\ players[c] = NoPlayer /\ ~ safeStop
  BY <1>1, <1>2, AcceptedType, SessionAssumption
<1>4. userIdToPlayerId[u] = NoConn /\ Data(u) = v
  BY <1>1, <1>2, <1>3, AnswerIsData
<1>5. /\ players' = [players EXCEPT ![c] = [userId |-> u, version |-> v]]
      /\ userIdToPlayerId' = [userIdToPlayerId EXCEPT ![u] = c]
      /\ c # NoConn
  BY <1>2, <1>3, SessionAssumption DEF CreateAndBind
<1>6. ASSUME NEW w \in Users, userIdToPlayerId[w] # NoConn
      PROVE  userIdToPlayerId[w] \in Conns /\ userIdToPlayerId[w] # c
  BY <1>3, <1>6, OwnerIs
<1>7. ASSUME NEW w \in Users PROVE Data(w)' = Data(w)
  <2>1. CASE w = u
    <3>1. userIdToPlayerId'[w] = c /\ c # NoConn
      BY <1>3, <1>5, <2>1 DEF TypeOK
    <3>2. players'[c].version = v
      <4>1. players'[c] = [userId |-> u, version |-> v]
        BY <1>3, <1>5 DEF TypeOK
      <4> QED BY <4>1
    <3>3. Data(w)' = v
      BY <3>1, <3>2, DataBecomes
    <3> QED BY <1>4, <2>1, <3>3
  <2>2. CASE w # u
    <3>1. userIdToPlayerId'[w] = userIdToPlayerId[w]
      BY <1>5, <2>2 DEF TypeOK
    <3>2. CASE userIdToPlayerId[w] = NoConn
      BY <1>2, <3>1, <3>2, DataSame
    <3>3. CASE userIdToPlayerId[w] # NoConn
      <4>1. players'[userIdToPlayerId[w]] = players[userIdToPlayerId[w]]
        BY <1>5, <1>6, <3>3 DEF TypeOK
      <4> QED BY <3>1, <3>3, <4>1, DataSame
    <3> QED BY <3>2, <3>3
  <2> QED BY <2>1, <2>2
<1>8. Durable!Acquire(c, u)
  <2>1. ~ safeStop /\ UNCHANGED safeStop
    BY <1>2, <1>3
  <2>2. \A w \in Users : userIdToPlayerId[w] # c
    <3>1. c # NoConn
      BY <1>5
    <3> QED BY <1>6, <3>1
  <2> QED BY <1>4, <1>5, <2>1, <2>2 DEF Durable!Acquire
<1> QED BY <1>3, <1>4, <1>7, <1>8 DEF DataKept

(* A tick of play is one of every user that is logged in.                   *)
LEMMA PlayData ==
  ASSUME TypeOK, BindingOK, PlayerTick
  PROVE  /\ \E u \in Users : userIdToPlayerId[u] # NoConn
         /\ UNCHANGED <<userIdToPlayerId, safeStop>>
         /\ \A u \in Users :
              Data(u)' = IF userIdToPlayerId[u] # NoConn THEN Data(u) + 1 ELSE Data(u)
<1>1. \E u \in Users : userIdToPlayerId[u] # NoConn
  <2>1. PICK c \in Conns : players[c] # NoPlayer
    BY DEF PlayerTick
  <2>2. playerIdToUserId[c] \in Users
    BY <2>1 DEF BindingOK, TypeOK
  <2>3. userIdToPlayerId[playerIdToUserId[c]] = c
    BY <2>2 DEF BindingOK
  <2> QED BY <2>2, <2>3, SessionAssumption
<1>2. UNCHANGED <<userIdToPlayerId, safeStop, toDb, db>>
  BY DEF PlayerTick, dbVars
<1>3. ASSUME NEW u \in Users
      PROVE  Data(u)' = IF userIdToPlayerId[u] # NoConn THEN Data(u) + 1 ELSE Data(u)
  <2>1. CASE userIdToPlayerId[u] = NoConn
    BY <1>2, <2>1, DataSame
  <2>2. CASE userIdToPlayerId[u] # NoConn
    <3>1. PICK c \in Conns : c = userIdToPlayerId[u]
      BY <2>2, OwnerIs
    <3>2. players[c] \in PlayerObj /\ players[c] # NoPlayer
      BY <2>2, <3>1, OwnerIs
    <3>3. players'[c] = [players[c] EXCEPT !.version = players[c].version + 1]
      BY <3>2 DEF PlayerTick
    <3>4. players'[c].version = players[c].version + 1
      BY <3>2, <3>3 DEF PlayerObj
    <3>5. Data(u) = players[c].version
      BY <2>2, <3>1, DataIs
    <3>6. Data(u)' = players'[c].version
      BY <1>2, <2>2, <3>1, DataBecomes
    <3> QED BY <2>2, <3>4, <3>5, <3>6
  <2> QED BY <2>1, <2>2
<1> QED BY <1>1, <1>2, <1>3

(* The environment in which a logout is never lost.                        *)
Dependable == SerialLogins /\ OrderlyStop /\ MaxDrops = 0

(* A stop that comes when everything is saved loses nothing.                *)
LEMMA StopData ==
  ASSUME Dependable, TypeOK, BindingOK, Stop
  PROVE  DataKept /\ UNCHANGED <<userIdToPlayerId, safeStop>>
<1>1. Drained /\ Cut(toDb, toDb') /\ UNCHANGED <<db, safeStop>>
  BY DEF Stop, Dependable, Cut, TypeOK, dbVars
<1>2. ASSUME NEW u \in Users PROVE userIdToPlayerId[u] = NoConn /\ userIdToPlayerId'[u] = NoConn
  <2>1. userIdToPlayerId[u] # NoConn => FALSE
    BY <1>1, OwnerIs DEF Drained, NoPlayers
  <2> QED BY <2>1, StopEmptiesTables
<1>3. userIdToPlayerId' = userIdToPlayerId
  <2>1. userIdToPlayerId' \in [Users -> Conns \cup {NoConn}]
    BY <1>2 DEF Stop, TypeOK
  <2> QED BY <1>2, <2>1 DEF TypeOK
<1>4. ASSUME NEW u \in Users PROVE Data(u)' = Data(u)
  <2>1. NoWrite(toDb, u)
    <3>1. DOMAIN toDb = 1 .. Len(toDb)
      BY LenProperties DEF TypeOK
    <3> QED BY <1>1, <3>1 DEF Drained, NoWrites, NoWrite, WriteOf
  <2>2. NoWrite(toDb', u)
    BY <1>1, <2>1, PrefixRequests
  <2>3. SavedIn(toDb, db, u) = db[u]
    BY <2>1, SavedNone DEF TypeOK
  <2>4. toDb' \in Seq(DbReq)
    BY TypeStep DEF Next, TypeOK
  <2>5. SavedIn(toDb', db', u) = db[u]
    BY <1>1, <2>2, <2>4, SavedNone
  <2> QED BY <1>2, <2>3, <2>5, DataSame
<1> QED BY <1>1, <1>3, <1>4 DEF DataKept

LEMMA DurableStep ==
  ASSUME Dependable, TypeOK, BindingOK, DurInv, [Next]_vars
  PROVE  [Durable!DurableNext]_(Durable!durableVars)
<1>1. DataKept => UNCHANGED [u \in Users |-> Data(u)]
  BY DEF DataKept
<1>2. DataKept /\ UNCHANGED <<userIdToPlayerId, safeStop>> => UNCHANGED Durable!durableVars
  BY <1>1 DEF Durable!durableVars
<1>3. ASSUME UNCHANGED <<players, userIdToPlayerId, toDb, db>> PROVE DataKept
  <2>1. \A u \in Users : SavedIn(toDb', db', u) = SavedIn(toDb, db, u)
    BY <1>3
  <2> QED BY <1>3, <2>1, DataFrame
<1>4. ASSUME NEW c \in Conns,
             \/ ClientOpen(c) \/ (\E u \in Users, cred \in Creds : ClientLogin(c, u, cred))
             \/ ClientExample(c) \/ ClientClose(c) \/ WorkerClose(c)
             \/ HandleNew(c) \/ HandleExample(c)
      PROVE  UNCHANGED <<players, userIdToPlayerId, toDb, db, safeStop>>
  BY <1>4 DEF ClientOpen, ClientLogin, ClientExample, ClientRequest, ClientClose, WorkerClose,
     HandleNew, HandleExample, mgrVars, dbVars
<1>5. ASSUME NEW c \in Conns, HandleClose(c) PROVE [Durable!DurableNext]_(Durable!durableVars)
  <2>1. CASE players[c] = NoPlayer
    BY <1>2, <1>3, <1>5, <2>1 DEF HandleClose, mgrVars, dbVars
  <2>2. CASE players[c] # NoPlayer
    <3>1. PICK w \in Users : Durable!Release(w)
      BY <1>5, <2>2, LogoutData
    <3>2. Durable!LogOut(w)
      BY <1>1, <1>5, <2>2, <3>1, LogoutData DEF Durable!LogOut
    <3> QED BY <3>2 DEF Durable!DurableNext
  <2> QED BY <2>1, <2>2
<1>6. ASSUME NEW c \in Conns, HandleLogin(c) PROVE [Durable!DurableNext]_(Durable!durableVars)
  BY <1>2, <1>6, HandleLoginData DEF HandleLogin, mgrVars
<1>7. CASE HandleLoginRes
  <2>1. CASE LoginAccepted(Head(fromDb))
    <3>1. PICK c \in Conns, u \in Users : Data(u) # NoRecord /\ Durable!Acquire(c, u)
      BY <1>7, <2>1, LoginData
    <3>2. [w \in Users |-> Data(w)][u] = Data(u)
      OBVIOUS
    <3>3. Durable!LogIn(c, u)
      BY <1>1, <1>7, <2>1, <3>1, <3>2, LoginData DEF Durable!LogIn
    <3> QED BY <3>3 DEF Durable!DurableNext
  <2>2. CASE ~ LoginAccepted(Head(fromDb))
    BY <1>2, <1>3, <1>7, <2>2 DEF HandleLoginRes, mgrVars, dbVars
  <2> QED BY <2>1, <2>2
<1>8. CASE PlayerTick
  <2>1. Durable!Play
    <3>1. \E u \in Users : userIdToPlayerId[u] # NoConn
      BY <1>8, PlayData
    <3>2. UNCHANGED <<userIdToPlayerId, safeStop>>
      BY <1>8, PlayData
    <3>3. \A u \in Users :
            Data(u)' = IF userIdToPlayerId[u] # NoConn THEN Data(u) + 1 ELSE Data(u)
      BY <1>8, PlayData
    <3>4. [u \in Users |-> Data(u)]' =
            [u \in Users |-> IF userIdToPlayerId[u] # NoConn
                             THEN [w \in Users |-> Data(w)][u] + 1
                             ELSE [w \in Users |-> Data(w)][u]]
      BY <3>3
    <3> QED BY <3>1, <3>2, <3>4 DEF Durable!Play
  <2> QED BY <2>1 DEF Durable!DurableNext
<1>9. CASE SafeStop
  <2>1. DataKept
    BY <1>3, <1>9 DEF SafeStop, mgrVars, dbVars
  <2>2. Durable!Shut
    BY <1>9 DEF SafeStop, mgrVars, Durable!Shut
  <2> QED BY <1>1, <2>1, <2>2 DEF Durable!DurableNext
<1>10. CASE Stop
  BY <1>2, <1>10, StopData
<1>11. CASE DbSelect \/ DbWrite
  <2>1. UNCHANGED <<userIdToPlayerId, safeStop>>
    BY <1>11 DEF DbSelect, DbWrite, mgrVars
  <2> QED BY <1>2, <1>11, <2>1, DbStepData
<1>12. CASE DbWriteFails \/ LinkDrop
  BY <1>12 DEF DbWriteFails, LinkDrop, Dependable, TypeOK
<1>13. CASE UNCHANGED vars
  BY <1>2, <1>3, <1>13 DEF vars
<1> QED
  BY <1>2, <1>3, <1>4, <1>5, <1>6, <1>7, <1>8, <1>9, <1>10, <1>11, <1>12, <1>13 DEF Next

(* Where the logins of a user do not overlap, nothing is lost and the       *)
(* process is stopped in order, the session keeps every user's data: the    *)
(* copies in the Player, in the writes under way and in the database act    *)
(* as one that only play changes.                                          *)
THEOREM SessionImplementsDurable == Dependable => (Spec => ImplementsDurable)
<1>1. Init => Durable!DurableInit
  <2> SUFFICES ASSUME Init PROVE Durable!DurableInit
    OBVIOUS
  <2>1. ASSUME NEW u \in Users PROVE Data(u) = db[u]
    <3>1. userIdToPlayerId[u] = NoConn /\ NoWrite(toDb, u) /\ toDb \in Seq(DbReq)
      BY DEF Init, NoWrite
    <3> QED BY <3>1, DataIs, SavedNone
  <2>2. [u \in Users |-> Data(u)] \in [Users -> {0, NoRecord}]
    BY <2>1 DEF Init
  <2> QED BY <2>2 DEF Init, Durable!DurableInit, Durable!LockInit
<1>2. Dependable /\ TypeOK /\ BindingOK /\ DurInv /\ [Next]_vars =>
        DurInv' /\ [Durable!DurableNext]_(Durable!durableVars)
  BY DurStep, DurableStep DEF Dependable
<1> SUFFICES ASSUME Dependable PROVE Spec => ImplementsDurable
  OBVIOUS
<1> QED
  BY <1>1, <1>2, DurInit, TypeCorrect, Binding, PTL DEF Spec, ImplementsDurable, Durable!DurableSpec

(* Only the answer of a login can be OK, and none of an attempt that finds  *)
(* its user free is turned down.                                           *)
LEMMA OkStep ==
  ASSUME TypeOK, DurInv, [Next]_vars, NEW c \in Conns, c \in online,
         "OK" \in replies'[c], "OK" \notin replies[c]
  PROVE  players'[c] # NoPlayer
<1>1. HandleLoginRes
  <2>1. ~ UNCHANGED replies
    OBVIOUS
  <2>2. ASSUME NEW d \in Conns, HandleLogin(d) PROVE FALSE
    <3>1. \/ UNCHANGED replies
          \/ Reply(d, "ERR_SERVICE_SAFESTOPED") \/ Reply(d, "ERR_USERID_INPUT_INVALID")
      BY <2>2 DEF HandleLogin
    <3>2. PICK ret : Reply(d, ret) /\ ret # "OK"
      BY <2>1, <3>1
    <3>3. replies' = [replies EXCEPT ![d] = replies[d] \cup {ret}]
      BY <3>2 DEF Reply
    <3>4. replies'[c] = replies[c] \/ replies'[c] = replies[c] \cup {ret}
      BY <3>3 DEF TypeOK
    <3> QED BY <3>2, <3>4
  <2> QED
    BY <2>1, <2>2 DEF Next, ClientOpen, ClientLogin, ClientExample, ClientRequest, ClientClose,
       WorkerClose, HandleNew, HandleClose, HandleExample, PlayerTick, SafeStop, Stop, DbSelect,
       DbWrite, DbWriteFails, LinkDrop, vars
<1>2. PICK res : res = Head(fromDb)
  OBVIOUS
<1>3. res \in DbRes /\ fromDb # <<>>
  BY <1>1, <1>2 DEF HandleLoginRes, TypeOK
<1>4. Reply(res.playerId, LoginRet(res))
  BY <1>1, <1>2 DEF HandleLoginRes
<1>5. res.playerId = c /\ LoginRet(res) = "OK"
  BY <1>3, <1>4 DEF Reply, TypeOK, DbRes
<1>6. ~ safeStop /\ res.record # NoRecord /\ res.cred = "good"
  BY <1>5 DEF LoginRet
<1>7. res.userId \in Users
  BY <1>3 DEF DbRes
<1>8. GetPlayerByUserId(res.userId) = NoPlayer
  BY <1>2, <1>3, <1>6, <1>7, AnswerIsData DEF GetPlayerByUserId
<1>9. CASE players[c] = NoPlayer
  <2>1. LoginAccepted(res)
    BY <1>5, <1>6, <1>8, <1>9 DEF LoginAccepted
  <2>2. CreateAndBind(c, res.userId, res.record)
    BY <1>1, <1>2, <1>5, <2>1 DEF HandleLoginRes
  <2>3. players'[c] = [userId |-> res.userId, version |-> res.record]
    BY <2>2 DEF CreateAndBind, TypeOK
  <2>4. [userId |-> res.userId, version |-> res.record] \in PlayerObj
    BY <1>3, <1>6, <1>7 DEF PlayerObj, DbRes
  <2> QED BY <2>3, <2>4, SessionAssumption
<1>10. CASE players[c] # NoPlayer
  <2>1. ~ LoginAccepted(res)
    BY <1>5, <1>10 DEF LoginAccepted
  <2> QED BY <1>1, <1>2, <1>10, <2>1 DEF HandleLoginRes, mgrVars
<1> QED BY <1>9, <1>10

(* Where the logins of a user do not overlap, an OK is never a lie: the     *)
(* client that is told OK plays, whatever else is lost.                    *)
THEOREM OkIsLoggedIn == SerialLogins => (Spec => OkMeansPlayer)
<1>1. SerialLogins /\ TypeOK /\ BindingOK /\ DurInv /\ [Next]_vars =>
        /\ DurInv'
        /\ [\A c \in Conns :
              c \in online /\ "OK" \in replies'[c] \ replies[c] => players'[c] # NoPlayer]_vars
  BY DurStep, OkStep
<1> SUFFICES ASSUME SerialLogins PROVE Spec => OkMeansPlayer
  OBVIOUS
<1> QED
  BY <1>1, DurInit, TypeCorrect, Binding, PTL DEF Spec, OkMeansPlayer

(* ... and a login loads what the user last held, or what the losses have   *)
(* left of it: that it may load less is due to overlapping logins alone.    *)
LEMMA LoadStep ==
  ASSUME TypeOK, BindingOK, DurInv, [Next]_vars, NEW c \in Conns,
         players[c] = NoPlayer, players'[c] # NoPlayer
  PROVE  players'[c].version = Data(players'[c].userId)
<1>1. PICK res : res = Head(fromDb)
  OBVIOUS
<1>2. HandleLoginRes /\ LoginAccepted(res) /\ CreateAndBind(res.playerId, res.userId, res.record)
  <2>1. ~ UNCHANGED mgrVars
    BY DEF mgrVars
  <2>2. ~ PlayerTick
    BY DEF PlayerTick
  <2>3. ASSUME NEW d \in Conns, RemovePlayerByPlayerId(d) PROVE FALSE
    BY <2>3 DEF RemovePlayerByPlayerId, TypeOK
  <2>4. ~ Stop
    BY DEF Stop
  <2> QED BY <1>1, <2>1, <2>2, <2>3, <2>4, MgrSteps
<1>3. fromDb # <<>> /\ res.userId \in Users /\ res.record \in Nat /\ res.record # NoRecord
  BY <1>1, <1>2, AcceptedType, SessionAssumption DEF HandleLoginRes
<1>4. Data(res.userId) = res.record
  BY <1>1, <1>3, AnswerIsData
<1>5. players'[c] = [userId |-> res.userId, version |-> res.record]
  BY <1>2 DEF CreateAndBind, TypeOK
<1> QED BY <1>4, <1>5

THEOREM SerialLoginLoadsLatest == SerialLogins => (Spec => LoginLoadsLatest)
<1>1. SerialLogins /\ TypeOK /\ BindingOK /\ DurInv /\ [Next]_vars =>
        /\ DurInv'
        /\ [\A c \in Conns :
              players[c] = NoPlayer /\ players'[c] # NoPlayer
                => players'[c].version = Data(players'[c].userId)]_vars
  BY DurStep, LoadStep
<1> SUFFICES ASSUME SerialLogins PROVE Spec => LoginLoadsLatest
  OBVIOUS
<1> QED
  BY <1>1, DurInit, TypeCorrect, Binding, PTL DEF Spec, LoginLoadsLatest
=============================================================================
