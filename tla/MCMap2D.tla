------------------------------- MODULE MCMap2D -------------------------------
(***************************************************************************)
(* TLC instance of Map2D.                                                  *)
(***************************************************************************)
EXTENDS Map2DProps, TLC

(* Full speed to both sides, and standing.                                 *)
ThreeDirs == {-Unit, 0, Unit}

(* Nothing distinguishes the users, and only safety is checked.            *)
UserSymmetry == Permutations(Users)
=============================================================================
