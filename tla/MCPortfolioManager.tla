------------------------ MODULE MCPortfolioManager ------------------------
(* Small instances of the portfolio manager.  Prices are multiples of 2520: *)
(* within four fills of sizes 1 and 2 every average entry is an integer.   *)
EXTENDS PortfolioManager

OneSymbol == {"BTC"}
NoLevels == {}
OneLevel == {[stop |-> 2000, target |-> 0, trail |-> 0]}
TwoPrices == {2520, 5040}

(* What the run looks into: four fills in a row as long as nothing goes    *)
(* wrong and the day stays the same; two fills with the orders that set    *)
(* levels; two fills, the first of them a long of one, with a change of    *)
(* day, a failed statement, a stop and a restart; one fill with all that.  *)
Disturbed == today > 1 \/ starts > 1 \/ dbFailures > 0 \/ ~up \/ stopping # "no"
LongOfOne == log[1].direction = "long" /\ log[1].size = 1
Explored ==
  \/ ~Disturbed /\ (orders = << >> \/ Len(log) = 2)
  \/ Len(log) <= 1
  \/ Len(log) = 2 /\ orders = << >> /\ LongOfOne
=============================================================================
