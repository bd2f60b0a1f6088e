---------------------------- MODULE MCCoroutine ----------------------------
(***************************************************************************)
(* TLC instances of CoroutineMgr.                                          *)
(***************************************************************************)
EXTENDS CoroutineProps

AnyBorder(q) == Borders(q)

(* LuaJIT's binary search in an array part of four slots; a queue that       *)
(* never needed more than four, or two, gives the same answer in either.    *)
LuaJITBorder(q) ==
  {IF q[4] # Nil THEN 4
   ELSE IF q[2] # Nil THEN IF q[3] # Nil THEN 3 ELSE 2
   ELSE IF q[1] # Nil THEN 1 ELSE 0}
=============================================================================
