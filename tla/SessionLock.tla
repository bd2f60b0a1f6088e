---------------------------- MODULE SessionLock ----------------------------
(***************************************************************************)
(* What the login service promises, without the messages: a user is an     *)
(* exclusive lock.  At most one connection owns it, a connection owns at   *)
(* most one user, the lock is never handed from one owner to the next      *)
(* without being free in between, and it cannot be taken any more once the *)
(* service has been shut down.                                             *)
(***************************************************************************)
CONSTANTS Conns, Users, NoConn

VARIABLES
  owner,  \* the connection that plays each user, or NoConn
  open    \* FALSE once the service takes no more logins

lockVars == <<owner, open>>

LockInit ==
  /\ owner = [u \in Users |-> NoConn]
  /\ open = TRUE

Acquire(c, u) ==
  /\ open
  /\ owner[u] = NoConn
  /\ \A v \in Users : owner[v] # c
  /\ owner' = [owner EXCEPT ![u] = c]
  /\ UNCHANGED open

Release(u) ==
  /\ owner[u] # NoConn
  /\ owner' = [owner EXCEPT ![u] = NoConn]
  /\ UNCHANGED open

(* The service stops: every lock is dropped at once.                       *)
ReleaseAll ==
  /\ owner' = [u \in Users |-> NoConn]
  /\ UNCHANGED open

Shut ==
  /\ open' = FALSE
  /\ UNCHANGED owner

LockNext ==
  \/ \E c \in Conns, u \in Users : Acquire(c, u)
  \/ \E u \in Users : Release(u)
  \/ ReleaseAll
  \/ Shut

LockSpec == LockInit /\ [][LockNext]_lockVars
=============================================================================
