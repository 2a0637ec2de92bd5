------------------------- MODULE MCPositionMonitor -------------------------
(* Small instances of the position monitor. *)
EXTENDS PositionMonitor

OneSymbol == {"BTC"}
FivePrices == {8, 9, 10, 11, 12}

(* A trail alone, a fixed stop with a trail that overtakes it after a good *)
(* tick, a fixed stop with a target.                                       *)
TrailedLevels ==
  [long  |-> {[stop |-> 0, target |-> 0, trail |-> 10],
              [stop |-> 9, target |-> 0, trail |-> 20],
              [stop |-> 8, target |-> 12, trail |-> 0]},
   short |-> {[stop |-> 0, target |-> 0, trail |-> 10],
              [stop |-> 11, target |-> 8, trail |-> 0]}]
=============================================================================
