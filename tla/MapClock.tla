------------------------------ MODULE MapClock ------------------------------
(***************************************************************************)
(* What a map's fixed steps promise about time: the simulation lags behind *)
(* real time and never leads, every update simulates DT_MS, and time is    *)
(* only given up when the map is more than a whole hiccup late.            *)
(***************************************************************************)
EXTENDS Integers

CONSTANTS Maps, DT_MS, MaxFrame

VARIABLE lag   \* the time, for each map, that has passed and is not simulated

(* Time passes for the maps that run.                                      *)
Pass ==
  \E who \in SUBSET Maps :
    lag' = [m \in Maps |-> IF m \in who THEN lag[m] + 1 ELSE lag[m]]

Simulate(m) ==
  /\ lag[m] >= DT_MS
  /\ lag' = [lag EXCEPT ![m] = @ - DT_MS]

(* After a hiccup, late maps do not make up for all of it.                 *)
GiveUp ==
  /\ lag' \in [Maps -> Nat]
  /\ \A m \in Maps : lag'[m] # lag[m] => lag'[m] \in MaxFrame .. lag[m]

ClockInit == lag = [m \in Maps |-> 0]

ClockNext ==
  \/ Pass
  \/ \E m \in Maps : Simulate(m)
  \/ GiveUp

ClockSpec == ClockInit /\ [][ClockNext]_lag
=============================================================================
