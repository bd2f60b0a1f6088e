----------------------------- MODULE Map2DProps -----------------------------
(***************************************************************************)
(* Correctness properties of the 2D maps.                                  *)
(***************************************************************************)
EXTENDS Map2D

(* A Player's nowMapId and the maps agree: no character is left in a map by *)
(* a user that switched maps, asked for one that does not exist, or logged  *)
(* out, and the requests of a user in a map find its character there.      *)
MemberIffNow ==
  \A u \in Users, m \in Maps :
    InMap(m, u) <=> u \in online /\ nowMapId[u] = m

(* The query of the state sync finds each player in its range once, and    *)
(* nobody who left: FixedUpdate looks each hit up among the players, and a  *)
(* hit without a player would end the process.                             *)
QueryExact ==
  \A m \in Maps :
    /\ \A i \in quadTree[m] : InMap(m, i.userId)
    /\ \A i, j \in quadTree[m] : i.userId = j.userId => i = j
    /\ \A p \in Left .. Right :
         {i.userId : i \in QtHits(m, p - ViewRange, p + ViewRange)} =
           {u \in Users : /\ InMap(m, u)
                          /\ players[m][u].x \in p - ViewRange .. (p + ViewRange) - 1}

(* The server and a client that numbers its inputs anew for every map stay  *)
(* in step for ever: no input of it is refused but the one numbered 0, at   *)
(* the wrap, and a repeated one changes nothing that matters.              *)
InStep ==
  \A u \in Users, m \in Maps :
    InMap(m, u) => \/ players[m][u].lastSeq = clientSeq[u]
                   \/ clientSeq[u] = UINT32_MAX /\ players[m][u].lastSeq = 0

(* Whatever the inputs and however they change between two updates, nobody  *)
(* leaves the map, not even with a part of the body, and nobody is faster   *)
(* than the maximum.                                                       *)
WithinLimits ==
  \A u \in Users, m \in Maps :
    InMap(m, u) => /\ players[m][u].x \in Left .. Right
                   /\ players[m][u].vX \in -MaxSpeed .. MaxSpeed

(* The time that passed and is not simulated yet.                          *)
Lag == [m \in Maps |->
          durationAccumulator[m] + (IF sinceTick[m] = Nil THEN 0 ELSE sinceTick[m])]

Clock == INSTANCE MapClock WITH lag <- Lag

(* The simulation lags and never leads, for hiccups of any length and ticks *)
(* of any rhythm, and gives time up only after a hiccup.                   *)
KeepsTime == Clock!ClockSpec

(* An update brings who heads for a border at full speed nearer to it, or   *)
(* nearer to full speed, so that it arrives after a bounded number of       *)
(* updates: neither the acceleration nor the rounding of the speed and the  *)
(* step to integers leaves it where it is.                                 *)
Headway ==
  [][\A u \in Users, m \in Maps :
       InMap(m, u) /\ FixedUpdate(m) =>
         LET pl == players[m][u]  next == players'[m][u] IN
           /\ pl.dirX = Unit  => next.x = Right \/ next.x > pl.x \/ next.vX > pl.vX
           /\ pl.dirX = -Unit => next.x = Left \/ next.x < pl.x \/ next.vX < pl.vX]_vars
=============================================================================
