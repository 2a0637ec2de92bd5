---------------------------- MODULE PriceLevels ----------------------------
(***************************************************************************)
(* Support and resistance (services/agents/market_analyst/levels.py): the  *)
(* swing pivots of a series of bars, clustered into levels on either side  *)
(* of a price.  The prices of bars are ticks, those of levels are in units *)
(* of 1 / Unit tick, where the means of up to six pivots are exact.        *)
(* A level's strength is reported and decides nothing: it is left out.     *)
(***************************************************************************)
EXTENDS Integers, Sequences, SequencesExt, Ranks

CONSTANTS
  SwingLookback,  \* swing_lookback
  ClusterPct,     \* level_cluster_pct
  PerSide,        \* support_resistance_levels
  Unit            \* level prices per tick

ASSUME LevelsAssumption ==
  {SwingLookback, ClusterPct, PerSide, Unit} \subseteq Nat \ {0} /\ Unit % 60 = 0

(* find_pivots(): a value at least as far out as all within the lookback   *)
(* on both sides, and further out than one of them.                        *)
Around(k) == k - SwingLookback..k + SwingLookback
Confirmable(s) == SwingLookback + 1..Len(s) - SwingLookback
IsPeak(s, k) == (\A j \in Around(k) : s[k] >= s[j]) /\ (\E j \in Around(k) : s[k] > s[j])

(* The prices of the pivots: of a high by the number of its bar, of a low  *)
(* by its negative.                                                        *)
PivotPrices(bars) ==
  LET highs == [k \in DOMAIN bars |-> bars[k].high]
      depths == [k \in DOMAIN bars |-> -bars[k].low]
      peaks == {k \in Confirmable(bars) : IsPeak(highs, k)}
      troughs == {-k : k \in {j \in Confirmable(bars) : IsPeak(depths, j)}}
  IN  [k \in peaks \cup troughs |-> IF k > 0 THEN highs[k] ELSE -depths[-k]]

(* cluster_pivots(): by rising price, a pivot joins the newest cluster if  *)
(* it is within ClusterPct of the cluster's mean so far.                   *)
Joins(cluster, p) == 100 * (p * cluster.touches - cluster.sum) <= ClusterPct * cluster.sum
AddPivot(clusters, p) ==
  IF clusters # << >> /\ Joins(Last(clusters), p)
  THEN [clusters EXCEPT ![Len(clusters)] = [sum |-> @.sum + p, touches |-> @.touches + 1]]
  ELSE Append(clusters, [sum |-> p, touches |-> 1])
Clusters(pivots) ==
  LET all == Cardinality(DOMAIN pivots)
      after[n \in 0..all] == IF n = 0 THEN << >> ELSE AddPivot(after[n - 1], pivots[Nth(pivots, n)])
  IN  after[all]
ClusterPivots(pivots) ==
  LET clusters == Clusters(pivots)
  IN  {(Unit * clusters[k].sum) \div clusters[k].touches : k \in DOMAIN clusters}

(* detect_levels(): the PerSide nearest below and above the price, by how  *)
(* far off they are.                                                       *)
NearestOf(off) == [k \in 1..Min({PerSide, Cardinality(DOMAIN off)}) |-> Nth(off, k)]
Supports(levels, price) == [l \in {x \in levels : x < price} |-> price - l]
Resistances(levels, price) == [l \in {x \in levels : x > price} |-> l - price]
DetectLevels(bars, price) ==
  LET levels == IF price <= 0 THEN {} ELSE ClusterPivots(PivotPrices(bars))
  IN  [support |-> NearestOf(Supports(levels, price)),
       resistance |-> NearestOf(Resistances(levels, price))]

(* nearest_level(): the closest of one kind, if there is any. *)
NearestLevel(levels, kind, price) ==
  LET distance(l) == IF l < price THEN price - l ELSE l - price
  IN  {l \in Range(levels[kind]) : \A o \in Range(levels[kind]) : distance(l) <= distance(o)}
=============================================================================
