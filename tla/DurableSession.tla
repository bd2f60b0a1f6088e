--------------------------- MODULE DurableSession ---------------------------
(***************************************************************************)
(* The lock of SessionLock together with what it protects: the user's data. *)
(* It changes only under the lock, one tick of play at a time, and is the   *)
(* same before and after a login or a logout, as if the record were never   *)
(* copied to a Player object, mailed to a database and read back.          *)
(***************************************************************************)
EXTENDS SessionLock, Integers

CONSTANT NoRecord

VARIABLE data   \* each user's data: ticks of play, or NoRecord without an account

durableVars == <<owner, open, data>>

DurableInit ==
  /\ LockInit
  /\ data \in [Users -> {0, NoRecord}]

(* A login of an unknown user takes no lock.                               *)
LogIn(c, u) == data[u] # NoRecord /\ Acquire(c, u) /\ UNCHANGED data

LogOut(u) == Release(u) /\ UNCHANGED data

Play ==
  /\ \E u \in Users : owner[u] # NoConn
  /\ data' = [u \in Users |-> IF owner[u] # NoConn THEN data[u] + 1 ELSE data[u]]
  /\ UNCHANGED <<owner, open>>

DurableNext ==
  \/ \E c \in Conns, u \in Users : LogIn(c, u)
  \/ \E u \in Users : LogOut(u)
  \/ Play
  \/ Shut /\ UNCHANGED data

DurableSpec == DurableInit /\ [][DurableNext]_durableVars
=============================================================================
