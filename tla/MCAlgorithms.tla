---------------------------- MODULE MCAlgorithms ----------------------------
(***************************************************************************)
(* The sequential computations of the platform, over all small inputs.  A  *)
(* behaviour is one job: sizing an order and filling it against any        *)
(* snapshot and book; replaying any history; or answering one input of     *)
(* the analyst, the signals, the studies or the corrections.               *)
(***************************************************************************)
EXTENDS RiskManager, PaperBroker, Replay, ResearchSignals, MarketAnalyst, ResearchStudy, Discoveries

CONSTANTS Equities, Grosses, Sides

VARIABLES
  job,    \* what this behaviour is about
  input   \* the input under examination, if that is the job

algorithmVars == <<portfolio, books, now, replayVars, job, input>>

-----------------------------------------------------------------------------
(* Sizing. *)

Snapshots ==
  [known : {TRUE}, equity : Equities, dayStart : {StartingEquity}, gross : Grosses,
   held : {[s \in S |-> d] : S \in SUBSET {"BTC"}, d \in {"long", "short"}}]

AllDecisions ==
  [symbol : {"BTC"}, direction : {"long", "short", "hold"}, price : {0, 10, 17},
   weighted : {40, 90}, stop : {0, 8, 10, 13, 16, 20}, target : {0}]

SomeEquities == {-1, 0, 94, 99, 100, 103}
SomeGrosses == {0, 53, 150, 201}

(* Up to two levels, best first: rising asks, falling bids, and a level    *)
(* may be empty.                                                           *)
Ladder == {<<[price |-> 10, size |-> a], [price |-> p, size |-> b]>> :
             a \in 0..2, b \in {0, 2}, p \in {13}}
Shorter(side) == side \cup {<<l[1]>> : l \in side} \cup {<< >>}
TwoLevels == Shorter(Ladder)
Mirrored(side) == [i \in DOMAIN side |-> [side[i] EXCEPT !.price = 23 - @]]

Snapshot == ~portfolio.known /\ \E p \in Snapshots : OnSnapshot(p) /\ UNCHANGED <<books, now>>
Book ==
  books = << >> /\ \E a, b \in Sides :
    OnBook("BTC", [asks |-> a, bids |-> Mirrored(b), at |-> now]) /\ UNCHANGED portfolio

-----------------------------------------------------------------------------
(* Replay: bars around 10, and signals with and without levels. *)

Shape(l, h, c) == [low |-> l, high |-> h, close |-> c]
SomeShapes ==
  {Shape(10, 10, 10), Shape(10, 12, 12), Shape(8, 10, 8), Shape(8, 12, 10), Shape(9, 11, 9),
   Shape(11, 12, 11)}
Says(d, s, t) == [direction |-> d, stop |-> s, target |-> t]
SomeSignals == {Says("long", 1, 2), Says("short", 2, 1), Says("long", 0, 0)}

-----------------------------------------------------------------------------
(* Inputs. *)

(* Bars that open where the last one closed. *)
BarsOf(closes, volumes) ==
  [k \in DOMAIN closes |->
     LET open == IF k = 1 THEN closes[k] ELSE closes[k - 1]
     IN  [high |-> Max({open, closes[k]}), low |-> Min({open, closes[k]}), close |-> closes[k],
          volume |-> volumes[k]]]
SixCloses(first, S) == {<<first>> \o c : c \in [1..5 -> S]}
SomeVolumes == {<<1, 1, 1, 1, 1, 1>>, <<1, 1, 1, 1, 1, 4>>, <<1, 3, 1, 3, 1, 0>>, <<0, 0, 0, 0, 0, 0>>}

(* Funding, the sizes of the bids and asks, and open interest. *)
Surroundings ==
  {[funding |-> << >>, bids |-> << >>, asks |-> << >>, openInterest |-> << >>],
   [funding |-> <<1, -2>>, bids |-> <<2, 1>>, asks |-> <<2>>, openInterest |-> <<3, 3, 4>>],
   [funding |-> <<1, 0, -1>>, bids |-> <<1>>, asks |-> <<2, 2>>, openInterest |-> <<5, 4, 4>>],
   [funding |-> <<2, 0>>, bids |-> <<2>>, asks |-> <<2>>, openInterest |-> <<0, 3, 2>>]}
PriceAxis == 20
Markets == [closes : SixCloses(10, {9, 10, 11}), volumes : SomeVolumes, around : Surroundings]
MarketOf(x) == [bars |-> BarsOf(x.closes, x.volumes)] @@ x.around
Timeframes == [closes : SixCloses(10, {9, 10, 11}), volumes : SomeVolumes]

(* Contexts as the builder holds them: the hour has any bars, the minute   *)
(* has risen, fallen or only begun; the price is that of the book, of the  *)
(* tape or of a candle.                                                    *)
InOrder == <<"1m", "15m", "1h">>
SomeWeights == "1m" :> 20 @@ "15m" :> 30 @@ "1h" :> 50
Fed(b, i, series) ==
  FoldLeft(LAMBDA c, k : AddCandle(c, [interval |-> i, open |-> k, closed |-> TRUE] @@ series[k]),
           b, [k \in DOMAIN series |-> k])
Risen6 == <<20, 20, 20, 21, 20, 21>>
Fallen6 == <<20, 21, 20, 20, 18, 18>>
Begun == <<20, 20>>
JustBelow == 20 * Unit + Unit \div 2 - Unit \div 100   \* a level at 20.5
Markings == {<<Begun, 0, 0>>, <<Begun, 0, 19 * Unit>>, <<Fallen6, 18 * Unit + 1, 0>>,
             <<Fallen6, 0, 0>>, <<Risen6, JustBelow, 0>>, <<Risen6, 0, 0>>, <<Risen6, 18 * Unit - 1, 0>>}
ContextOf(x) ==
  LET fed == Fed(Fed(EmptyBuilder, "1m", BarsOf(x.marking[1], x.marking[1])), "1h", BarsOf(x.hour, x.hour))
      quoted == IF x.marking[2] = 0 THEN fed ELSE AddOrderBook(fed, [mid |-> x.marking[2]])
  IN  Build(IF x.marking[3] = 0 THEN quoted ELSE AddTrade(quoted, [price |-> x.marking[3]]))
Contexts == {ContextOf(x) : x \in [marking : Markings, hour : SixCloses(20, {18, 20, 21})]}

Composites == UNION {[S -> {-600, -160, -50, -49, 0, 49, 50, 160, 600}] : S \in (SUBSET TrackedIntervals) \ {{}}}

(* Bars at which a signal fires; hours of funding, as they are or by day.  *)
StudyBars == 8
Hours == {{}, {0, 4, 5}, {1, 2, 3, 9}}
Firings == [bars : {StudyBars}, fires : SUBSET (0..StudyBars - 1), funding : Hours \cup {DailyFunding(h) : h \in Hours}]
Carries == [rates : [0..4 -> {-1, 2}], premiums : [0..4 -> {0, 3}]]
Listings == UNION {[from..4 -> {2, 3}] : from \in 0..4} \cup {[d \in {0, 1, 3, 4} |-> d + 1]}
Universes == [{1, 2} -> Listings]

(* A cell that can be tested, by each test; one that never fired, in a     *)
(* grid as wide as it is long; and one that fired too seldom.              *)
CellOf(n, effective, h, g) ==
  [n |-> n, effective |-> effective, hit |-> h, gross |-> g, net |-> IF g = 2 THEN 1 ELSE -1]
Cells ==
  {CellOf(MinTestable, MinTestable, h, g) : h \in {1, 3, 5, 6}, g \in {2, 9}}
    \cup {CellOf(0, MinTestable, h, 2) : h \in {1, 6}} \cup {CellOf(1, MinTestable - 1, h, 9) : h \in {1, 6}}
Grids == [1..2 -> Cells] \cup [1..3 -> Cells]

Inputs ==
  [market |-> Markets, timeframe |-> Timeframes, context |-> Contexts, composites |-> Composites,
   firing |-> Firings, carry |-> Carries, universe |-> Universes, grid |-> Grids]

Answer == input = Nothing /\ job \in DOMAIN Inputs /\ input' \in Inputs[job]

-----------------------------------------------------------------------------
AlgorithmsInit ==
  /\ NoPortfolioYet /\ NoBooksYet /\ ReplayInit
  /\ job \in {"sizing", "replay"} \cup DOMAIN Inputs /\ input = Nothing

AlgorithmsNext ==
  \/ /\ job = "sizing" /\ (Snapshot \/ Book)
     /\ UNCHANGED <<replayVars, job, input>>
  \/ /\ job = "replay" /\ ReplayNext
     /\ UNCHANGED <<portfolio, books, now, job, input>>
  \/ /\ Answer
     /\ UNCHANGED <<portfolio, books, now, replayVars, job>>

AlgorithmsSpec == AlgorithmsInit /\ [][AlgorithmsNext]_algorithmVars

-----------------------------------------------------------------------------
(* Properties of the answers; each is defined, with what it says of the    *)
(* code, beside the computation it is about.                               *)

Of(kind, P(_)) == job = kind /\ input # Nothing => P(input)

(* Each signal of the library calls of a market the opposite of what it    *)
(* calls of the same market upside down, and follows or fades a higher     *)
(* close or funding rate: ResearchSignals!Symmetric and Responsive.        *)
SignalsAreConsistent ==
  Of("market", LAMBDA x : \A w \in {MarketOf(x)} : Symmetric(w, PriceAxis) /\ Responsive(w, 1))

(* The analyst's stop is behind the price, its target ahead of it, and its *)
(* levels on their sides, nearest first: MarketAnalyst!Bracketed.          *)
LevelsBracketPrice == Of("context", LAMBDA x : \A s \in {Analyze(x)} : s # Nothing => Bracketed(s))

(* Full confidence needs timeframes that all point the direction taken:    *)
(* MarketAnalyst!Unanimous.                                                *)
ConvictionIsUnanimous == Of("composites", LAMBDA c : Unanimous(c))

(* An established trend is not scored against: MarketAnalyst!NotFaded.     *)
TrendIsNotFaded == Of("timeframe", LAMBDA x : \A t \in {AnalyzeTimeframe(BarsOf(x.closes, x.volumes))} : NotFaded(t))

(* No two independent observations of a study share any of their future,   *)
(* none is left out that could be in, and none has seen its own future:    *)
(* ResearchStudy!Independent, Unpeeking, Rolls and Aligned.                *)
SamplesAreIndependent ==
  /\ Of("firing",
        LAMBDA f : LET s == Study(f.bars, f.fires, f.funding)
                   IN  /\ Independent({s.all[k].index : k \in DOMAIN s.all}, Range(s.independent))
                       /\ \A k \in DOMAIN s.all : Unpeeking(s.all[k], f.bars, f.funding))
  /\ Of("carry", LAMBDA c : Rolls(c.rates, c.premiums))
  /\ Of("universe",
        LAMBDA u : LET r == Rebalances(u)
                   IN  /\ Independent({r.all[k].index : k \in DOMAIN r.all}, Range(r.independent))
                       /\ \A k \in DOMAIN r.all : Aligned(u, r.all[k]))

(* A grid's discoveries are those its own tests support, whatever their    *)
(* order and whatever else was in the grid: Discoveries!Coherent, Sober.   *)
DiscoveriesAreCoherent ==
  Of("grid", LAMBDA g : Coherent([k \in DOMAIN g |-> g[k].hit]) /\ Sober(g))
=============================================================================
