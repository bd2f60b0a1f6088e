------------------------------- MODULE MCPath -------------------------------
(***************************************************************************)
(* TLC instance of PathFinding: a map of 7 x 3 tiles inside its border,     *)
(* with any walls in the four columns between start and goal.  Smaller maps *)
(* never make the search improve on a way it has found.                    *)
(***************************************************************************)
EXTENDS PathProps

MiddleColumns == (4 .. 7) \X (2 .. 4)

CornerAndCenter == {<<2, 4>>, <<3, 3>>}
CornerAndBorder == {<<8, 2>>, <<8, 1>>}
=============================================================================
