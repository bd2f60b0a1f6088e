------------------------------- MODULE MCMap3D -------------------------------
(***************************************************************************)
(* TLC instances of Map3D: two maps, of which the first has two beds.      *)
(***************************************************************************)
EXTENDS Map3DProps

TwoBedsInMap1 == [m \in Maps |-> IF m = 1 THEN Beds ELSE {}]

(* From two points both beds can be reached.                               *)
BedPlaces == [b \in Beds |-> IF b = "bed1" THEN 0 ELSE 3]
=============================================================================
