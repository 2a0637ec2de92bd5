---------------------------- MODULE Discoveries ----------------------------
(***************************************************************************)
(* Which cells of a grid of tests count as discoveries: the corrections of *)
(* services/research/statistics.py and what the scripts signal_matrix.py   *)
(* and long_horizon.py make of them.  p-values are whole hundredths, and   *)
(* Alpha is the alpha of 0.05 in hundredths.                               *)
(*                                                                         *)
(* A cell is a record: n, its independent observations, and effective, how *)
(* many they count for; hit and gross, the p-values of its two edge tests; *)
(* net, the sign of its mean net return.                                   *)
(***************************************************************************)
EXTENDS Integers, FiniteSets, FiniteSetsExt, Ranks

CONSTANTS
  Alpha,        \* alpha
  MinTestable   \* MIN_TESTABLE_SAMPLE; 0 in signal_matrix.py, where n > 0 will do

ASSUME DiscoveriesAssumption == Alpha \in 1..100 /\ MinTestable \in Nat

(* The domain of p is a family of tests. *)
Tests(p) == Cardinality(DOMAIN p)
Hits(p) == {Rank(p, i) : i \in {j \in DOMAIN p : p[j] * Tests(p) <= Alpha * Rank(p, j)}}

(* Seeded fault: the ranks are counted up to the first that misses. *)
LargestHitToFirstMiss(p) == Max({r \in 0..Tests(p) : 1..r \subseteq Hits(p)})

LargestHit(p) == Max({0} \cup Hits(p))

(* benjamini_hochberg() and bonferroni(): the tests that are rejected. *)
BenjaminiHochberg(p) == {i \in DOMAIN p : Rank(p, i) <= LargestHit(p)}
Bonferroni(p) == {i \in DOMAIN p : p[i] * Tests(p) <= Alpha}

(* _apply_corrections(): each test is a family of its own, over the cells  *)
(* that can be tested; the others keep their flags down.                   *)
Testable(cells) == {k \in DOMAIN cells : cells[k].effective >= MinTestable /\ cells[k].n > 0}
Flagged(cells, test) == BenjaminiHochberg([k \in Testable(cells) |-> cells[k][test]])
HitFlags(cells) == Flagged(cells, "hit")
GrossFlags(cells) == Flagged(cells, "gross")

(* render_verdict() *)
Edge(cells) == HitFlags(cells) \cup GrossFlags(cells)
RawOnly(cells) ==
  {k \in Testable(cells) \ Edge(cells) : cells[k].hit < Alpha \/ cells[k].gross < Alpha}
Tradeable(cells) == {k \in Edge(cells) : cells[k].net > 0}

-----------------------------------------------------------------------------
(* Properties, of one grid each. *)

(* A family's discoveries are the largest set that its own size justifies, *)
(* whatever the order of the cells and however many are equal: all that    *)
(* survive Bonferroni are among them, and none is left out that has no     *)
(* larger p-value than one of them.                                        *)
Supported(p, S) == \A i \in S : p[i] * Tests(p) <= Alpha * Cardinality(S)
Coherent(p) ==
  LET found == BenjaminiHochberg(p)
  IN  /\ Bonferroni(p) \subseteq found
      /\ \A i \in DOMAIN p, j \in found : p[i] <= p[j] => i \in found
      /\ Supported(p, found)
      /\ \A S \in SUBSET DOMAIN p : Supported(p, S) => S \subseteq found

(* The verdict: a cell that cannot be tested is never a discovery, costs   *)
(* the others nothing and gains them nothing; "raw p < 0.05" counts the    *)
(* testable cells that have one, and none above it.                        *)
Sober(cells) ==
  LET alone == [k \in Testable(cells) |-> cells[k]]
  IN  /\ Edge(cells) = Edge(alone) /\ Tradeable(cells) = Tradeable(alone)
      /\ \A k \in Edge(cells) \cup RawOnly(cells) : cells[k].hit <= Alpha \/ cells[k].gross <= Alpha
      /\ \A k \in Testable(cells) : (cells[k].hit < Alpha \/ cells[k].gross < Alpha) =>
                                        k \in Edge(cells) \cup RawOnly(cells)
=============================================================================
