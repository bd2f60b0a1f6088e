----------------------------- MODULE MCSession -----------------------------
(***************************************************************************)
(* TLC instances of Session.                                               *)
(***************************************************************************)
EXTENDS SessionProps, TLC

(* Connections are interchangeable: nothing compares or orders them.       *)
ConnSymmetry == Permutations(Conns)
=============================================================================
