----------------------------- MODULE MCLearning -----------------------------
(* An instance of the learning loop for TLC. *)
EXTENDS LearningLoop

Sig(agent, corr, direction, confidence, until) ==
  [agent |-> agent, corr |-> corr, symbol |-> "BTC", direction |-> direction,
   confidence |-> confidence, degraded |-> FALSE, until |-> until]

(* The analyst's forecasts, a sharp one soon to expire and a blunt one;    *)
(* another agent's view of the first candle, and a third's late failure.   *)
Failure(corr) == [Sig("third", corr, "flat", 0, 1) EXCEPT !.degraded = TRUE]
FourSignals ==
  <<Sig("analyst", 1, "long", 90, 0), Sig("other", 1, "short", 60, 1),
    Sig("analyst", 2, "long", 60, 1), Failure(1)>>

(* Bound: with both a failed statement and a crash, one closure. *)
Explored == dbFailures + crashes <= 1 \/ Len(topics["closures"]) <= 1
=============================================================================
