------------------------------ MODULE MCTrading ------------------------------
(* Instances of Trading for TLC. *)
EXTENDS Trading

OneSymbol == {"BTC"}

StopAndEntry == {9, 10}
OneTick == {9}

Decision(s, d) ==
  [symbol |-> s, direction |-> d, price |-> 10, weighted |-> 90,
   stop |-> IF d = "long" THEN 9 ELSE 11, target |-> 0]

Longs == {Decision(s, "long") : s \in Symbols}
Both == Longs \cup {Decision(s, "short") : s \in Symbols}

(* The order of events that commute is not explored: a book matters to the *)
(* next order at the broker alone, so books change while one waits; and    *)
(* when no decision is left, what the risk manager reads matters to        *)
(* nothing, so it reads at once.                                           *)
InTime ==
  /\ books' # books => Waiting("broker", "orders")
  /\ (decided = MaxDecisions /\ Waiting("risk", "snapshots")) => RiskSnapshot

(* Bound: what follows the first mistake on every symbol is not explored.  *)
Unmistaken == misled # Symbols
==============================================================================
