------------------------------ MODULE MCFSRoom ------------------------------
(***************************************************************************)
(* TLC instance of FSRoom.                                                 *)
(***************************************************************************)
EXTENDS FSRoomProps
=============================================================================
