--------------------------- MODULE ResearchStudy ---------------------------
(***************************************************************************)
(* The studies of services/research: the forward-horizon study of one      *)
(* signal (study.py), the ranking of symbols (long_horizon.py) and the     *)
(* funding carry (basis.py).  Bars and points count from 0, as in the      *)
(* code, so series are functions on 0..n-1.  Bar i of a study opens at     *)
(* time 2 * i and closes just before 2 * (i + 1): close_time is 2 * i + 1. *)
(***************************************************************************)
EXTENDS Integers, Sequences, SequencesExt, Sums, Ranks

CONSTANTS
  Horizon,        \* bars ahead, hours held
  MinBars,        \* SignalSpec.min_bars
  StudyWindow,    \* window_bars
  RankLookback,   \* lookback of cross_sectional_momentum
  MinSymbols,     \* min_symbols
  QuantilePct     \* quantile, in percent

ASSUME StudyAssumption ==
  /\ {Horizon, MinBars, StudyWindow, RankLookback, MinSymbols} \subseteq Nat \ {0}
  /\ QuantilePct \in 1..50

-----------------------------------------------------------------------------
(* ForwardHorizonStudy. *)

(* daily_funding() of the script: the hours of a day (pairs of times here) *)
(* become one point at the end of the day.                                 *)
DailyFunding(hours) == {2 * (t \div 2) + 1 : t \in hours}

(* The funding cursor: past every point settled by the close of bar i, of  *)
(* which the window takes the newest.                                      *)
FundingBy(funding, i) ==
  LET settled == Ascending({t \in funding : t <= 2 * i + 1})
  IN  SubSeq(settled, Max({0, Len(settled) - StudyWindow}) + 1, Len(settled))

(* run(): one observation per bar of the range at which the signal fires.  *)
Observations(n, fires, funding) ==
  LET indices == Ascending(fires \cap (MinBars - 1..n - Horizon - 1))
  IN  [k \in DOMAIN indices |->
         LET i == indices[k]
         IN  [index |-> i, exit |-> i + Horizon, bars |-> Max({0, i + 1 - StudyWindow})..i,
              funding |-> FundingBy(funding, i)]]

(* Seeded fault: the next one may begin on the bar before this one ends. *)
TakeEarly(taken, i) ==
  IF taken = << >> \/ i >= Last(taken) + Horizon - 1 THEN Append(taken, i) ELSE taken

(* _mark_independent(), and the same loop of the other two studies: those  *)
(* taken from left to right, next_allowed a horizon after the last taken.  *)
Take(taken, i) ==
  IF taken = << >> \/ i >= Last(taken) + Horizon THEN Append(taken, i) ELSE taken
MarkIndependent(indices) ==
  LET taken[n \in 0..Len(indices)] == IF n = 0 THEN << >> ELSE Take(taken[n - 1], indices[n])
  IN  taken[Len(indices)]

Study(n, fires, funding) ==
  LET all == Observations(n, fires, funding)
  IN  [all |-> all, independent |-> MarkIndependent([k \in DOMAIN all |-> all[k].index])]

-----------------------------------------------------------------------------
(* CarryStudy.run(): short the perpetual, long the spot, from any point    *)
(* for Horizon points; each collects the rates and pays the basis.         *)

CarryTrades(rates, premiums) ==
  LET n == Cardinality(DOMAIN rates)
      cumulative[k \in 0..n] == IF k = 0 THEN 0 ELSE cumulative[k - 1] + rates[k - 1]
  IN  [i \in 0..n - Horizon - 1 |->
         [collected |-> cumulative[i + Horizon] - cumulative[i],
          basis |-> premiums[i + Horizon] - premiums[i]]]

-----------------------------------------------------------------------------
(* cross_sectional_momentum(): closes[s] maps the days of symbol s to its  *)
(* closes; every position in the calendar at which enough symbols have the *)
(* past, the entry and the exit day.                                       *)

Calendar(closes) == Ascending(UNION {DOMAIN closes[s] : s \in DOMAIN closes})

DaysOf(days, k) == {days[k - RankLookback], days[k], days[k + Horizon]}
Able(closes, days, k) == {s \in DOMAIN closes : DaysOf(days, k) \subseteq DOMAIN closes[s]}

(* t returned less than s. *)
Outdoes(closes, days, k, s, t) ==
  closes[t][days[k]] * closes[s][days[k - RankLookback]]
    < closes[s][days[k]] * closes[t][days[k - RankLookback]]

(* By return, that is, by how many have less, and by name (here: number)   *)
(* where the returns are equal.                                            *)
Ranked(closes, days, k) ==
  LET able == Able(closes, days, k)
  IN  ByValue([s \in able |-> Cardinality({t \in able : Outdoes(closes, days, k, s, t)})])

Legs(ranked, k) ==
  LET take == Max({1, (Len(ranked) * QuantilePct) \div 100})
  IN  [index |-> k, shorts |-> Range(SubSeq(ranked, 1, take)),
       longs |-> Range(SubSeq(ranked, Len(ranked) - take + 1, Len(ranked)))]

Rebalances(closes) ==
  LET days == Calendar(closes)
      positions == {k \in RankLookback + 1..Len(days) - Horizon :
                      Len(Ranked(closes, days, k)) >= MinSymbols}
      all == Ascending(positions)
  IN  [all |-> [j \in DOMAIN all |-> Legs(Ranked(closes, days, all[j]), all[j])],
       independent |-> MarkIndependent(all)]

-----------------------------------------------------------------------------
(* Properties, of one input each. *)

Apart(S) == \A i, j \in S : i < j => i + Horizon <= j

(* A "maximal non-overlapping subsample": no two forward windows of the    *)
(* sample share a bar, and no other such sample is larger.                 *)
Independent(all, sample) ==
  /\ sample \subseteq all /\ Apart(sample)
  /\ \A S \in SUBSET all : Apart(S) => Cardinality(S) <= Cardinality(sample)

(* The signal decides on the newest bars up to its own and on funding      *)
(* settled by its close; the return is from its close, a horizon on.       *)
Unpeeking(o, n, funding) ==
  /\ o.bars \subseteq 0..o.index /\ o.index \in o.bars /\ o.exit \in o.index + 1..n - 1
  /\ \A t \in Range(o.funding) : t < 2 * (o.index + 1)
  /\ Len(o.funding) < StudyWindow => \A t \in funding \ Range(o.funding) : t >= 2 * (o.index + 1)

(* Carry held over and over collects every rate once and pays the basis    *)
(* between its first and its last day, whatever happened in between.       *)
Rolls(rates, premiums) ==
  LET trades == CarryTrades(rates, premiums)
      taken == MarkIndependent(Ascending(DOMAIN trades))
      past == IF taken = << >> THEN 0 ELSE Last(taken) + Horizon
  IN  /\ SumOf([i \in Range(taken) |-> trades[i].collected]) = SumOf([i \in 0..past - 1 |-> rates[i]])
      /\ taken # << >> => SumOf([i \in Range(taken) |-> trades[i].basis]) = premiums[past] - premiums[0]

(* "Series are aligned by date, not by position": the bought outdid the    *)
(* sold between the same two days, and all are still quoted at the exit.   *)
Aligned(closes, r) ==
  LET days == Calendar(closes)
      at == {days[r.index - RankLookback], days[r.index], days[r.index + Horizon]}
      rose(s) == <<closes[s][days[r.index]], closes[s][days[r.index - RankLookback]]>>
  IN  /\ r.longs \cap r.shorts = {} /\ Cardinality(r.longs) = Cardinality(r.shorts)
      /\ \A s \in r.longs \cup r.shorts : at \subseteq DOMAIN closes[s]
      /\ \A l \in r.longs, s \in r.shorts : rose(l)[1] * rose(s)[2] >= rose(s)[1] * rose(l)[2]
=============================================================================
