--------------------------- MODULE MarketAnalyst ---------------------------
(***************************************************************************)
(* MarketAnalystAgent (services/agents/market_analyst/agent.py): from the  *)
(* market context of a symbol to a direction, a confidence and protective  *)
(* prices.  Scores are integers in thousandths; what the code rounds to    *)
(* four digits is dropped below a thousandth here.  The stop and the       *)
(* target are in thousandths of 1 / Unit tick, so that the code's factors  *)
(* 0.999, 1.001 and 0.015 are exact.                                       *)
(***************************************************************************)
EXTENDS Indicators, PriceLevels, MarketContext, Sums

CONSTANTS
  Intervals,              \* candle_intervals, in their order
  Weight,                 \* timeframe_weights
  Rsi, Overbought,        \* rsi_period; rsi_overbought, and rsi_oversold as 100 less it
  Fast, Slow, Signalling, \* the periods of macd
  EmaShort, EmaLong,      \* ema_fast, ema_slow
  Bands, Deviations,      \* bollinger_period, bollinger_std
  SqueezeBars,            \* bandwidths a squeeze is judged by (20 in the code)
  AtrBars, VolumeBars,    \* atr_period, volume_ma_period
  MinAbsScore,            \* min_abs_score, in thousandths
  FullConviction          \* full_conviction_score, in thousandths

ASSUME AnalystAssumption ==
  /\ {MinAbsScore, FullConviction} \subseteq 1..1000
  /\ {Rsi, Fast, Slow, Signalling, EmaShort, EmaLong, Bands, Deviations, SqueezeBars, AtrBars,
      VolumeBars} \subseteq Nat \ {0}
  /\ Fast < Slow
  /\ Intervals \in Seq(TrackedIntervals) /\ Range(Intervals) = TrackedIntervals
  /\ DOMAIN Weight = TrackedIntervals /\ \A i \in TrackedIntervals : Weight[i] \in Nat \ {0}

-----------------------------------------------------------------------------
(* One timeframe. *)

RequiredBars ==
  Max({Rsi + 1, Slow + Signalling, EmaLong, Bands, AtrBars + 1, VolumeBars}) + 2

(* The prices of a candle series as the indicators take them. *)
PricesOf(bars) == Scaled([k \in DOMAIN bars |-> bars[k].close])

(* histogram / price * 200, clamped; nothing while it is not defined *)
HistogramScore(histogram, price) ==
  IF histogram = << >> \/ price <= 0 THEN 0 ELSE ClampedQuot(200 * Last(histogram), price)

(* _trend_score(): where the averages and the price stand to each other.   *)
Position(price, fast, slow) ==
  IF price > fast /\ fast > slow THEN 1000
  ELSE IF price < fast /\ fast < slow THEN -1000
  ELSE 350 * Sign(price - slow)
Separation(fast, slow) == ClampedQuot(100 * (fast - slow), slow)
TrendScore(price, fast, slow, histogram) ==
  IF fast = << >> \/ slow = << >> \/ Last(slow) = 0 THEN 0
  ELSE Clamp(Quot(45 * Separation(Last(fast), Last(slow)) + 35 * Position(price, Last(fast), Last(slow))
                  + 20 * HistogramScore(histogram, price), 100))

(* _momentum_score(); a stretched RSI counts four fifths. *)
Centred(r) == Quot(1000 * (r.gain - r.loss), r.gain + r.loss)
RsiScore(r) ==
  IF RsiAtLeast(r, Overbought) \/ RsiAtMost(r, 100 - Overbought) THEN Quot(4 * Centred(r), 5)
  ELSE Centred(r)
CrossScore(line, signal) ==
  IF CrossedAbove(line, signal) THEN 1000 ELSE IF CrossedBelow(line, signal) THEN -1000 ELSE 0
MomentumScore(rsi, line, signal, histogram, price) ==
  Clamp(Quot(45 * (IF rsi = << >> THEN 0 ELSE RsiScore(rsi[1]))
             + 35 * HistogramScore(histogram, price) + 20 * CrossScore(line, signal), 100))

(* _volatility_score(): the bands at bar n by their middle times Bands and *)
(* the sum of the squares of Bands times the distances from it.            *)
BandsAt(closes, n) ==
  LET w == SubSeq(closes, n - Bands + 1, n)
      sum == Added(w)
  IN  [sum |-> sum, squares |-> Added([k \in DOMAIN w |-> (Bands * w[k] - sum) * (Bands * w[k] - sum)])]
Narrower(a, b) == a.squares * b.sum * b.sum < b.squares * a.sum * a.sum

(* The newest bandwidth is under three quarters of the middle one. *)
Squeezed(closes) ==
  LET all == [k \in 1..Len(closes) - Bands + 1 |-> BandsAt(closes, k + Bands - 1)]
      newest == Last(all)
      typical == SortSeq(Newer(SqueezeBars, all), Narrower)[SqueezeBars \div 2 + 1]
  IN  /\ Len(all) >= SqueezeBars
      /\ 16 * newest.squares * typical.sum * typical.sum
           < 9 * typical.squares * newest.sum * newest.sum

(* The distance from the middle in band widths, against its sign. *)
Root(q) == CHOOSE n \in 0..1000 : n * n <= q /\ q < (n + 1) * (n + 1)
Reversion(closes) ==
  LET bands == BandsAt(closes, Len(closes))
      off == Bands * Last(closes) - bands.sum
      width == Deviations * Deviations * bands.squares
  IN  IF bands.squares = 0 THEN 0
      ELSE IF Bands * off * off >= width THEN -1000 * Sign(off)
      ELSE -Sign(off) * Root((1000000 * Bands * off * off) \div width)

(* Seeded fault: the reversion counts as much in a trend as in a range. *)
VolatilityScoreUngated(closes, trend) ==
  IF Len(closes) < Bands THEN 0
  ELSE IF Squeezed(closes) THEN Quot(trend, 2)
  ELSE Reversion(closes)

VolatilityScore(closes, trend) ==
  IF Len(closes) < Bands THEN 0
  ELSE IF Squeezed(closes) THEN Quot(trend, 2)
  ELSE Quot(Reversion(closes) * (1000 - Abs(trend)), 1000)

(* _volume_score() *)
VolumeScore(closes, volumes, hint) ==
  LET recent == Added(Newer(VolumeBars, volumes))
      over == IF recent = 0 \/ Last(volumes) = 0 THEN 0
              ELSE ClampedQuot(Last(volumes) * VolumeBars - recent, recent)
      slope == NormalizedSlope(OnBalanceVolume(closes, volumes), VolumeBars)
  IN  Quot((IF hint >= 0 THEN over ELSE -over) + ClampedQuot(5 * slope.num, slope.den), 2)

(* analyze_timeframe(), for a series of at least RequiredBars: the weights *)
(* are COMPONENT_WEIGHTS.                                                  *)
WithComposite(s) ==
  [s EXCEPT !.composite =
     Clamp(Quot(40 * s.trend + 30 * s.momentum + 20 * s.volatility + 10 * s.volume, 100))]
Scores(closes, volumes, trend, momentum) ==
  WithComposite([trend |-> trend, momentum |-> momentum,
                 volatility |-> VolatilityScore(closes, trend),
                 volume |-> VolumeScore(closes, volumes, trend), composite |-> 0])
ScoresOf(prices, closes, volumes, line, histogram) ==
  Scores(closes, volumes,
         TrendScore(Last(prices), Ema(prices, EmaShort), Ema(prices, EmaLong), histogram),
         MomentumScore(RsiParts(prices, Rsi), line, MacdSignalLine(line, Signalling), histogram,
                       Last(prices)))
AnalyzeTimeframe(bars) ==
  LET line == MacdLine(PricesOf(bars), Fast, Slow)
  IN  ScoresOf(PricesOf(bars), [k \in DOMAIN bars |-> bars[k].close],
               [k \in DOMAIN bars |-> bars[k].volume], line, MacdHistogram(line, Signalling))

-----------------------------------------------------------------------------
(* All timeframes: c maps the intervals that are scored to composites. *)

(* _confluence() *)
Score(c) ==
  Clamp(Quot(SumOf([i \in DOMAIN c |-> Weight[i] * c[i]]), SumOf([i \in DOMAIN c |-> Weight[i]])))

(* Seeded fault: only a view strong enough to trade on counts as one. *)
ViewingStrongly(c) == {i \in DOMAIN c : Abs(c[i]) >= MinAbsScore}

Viewing(c) == {i \in DOMAIN c : Abs(c[i]) >= 50}
Agreement(c) ==
  LET views == Cardinality(Viewing(c))
      ups == Cardinality({i \in Viewing(c) : c[i] > 0})
  IN  IF views = 0 THEN 0 ELSE (1000 * (2 * Max({ups, views - ups}) - views)) \div views

(* _confidence() *)
Confidence(score, agreement) ==
  (Min({1000, (1000 * Abs(score)) \div FullConviction}) * (6000 + 4 * agreement)) \div 10000

(* Direction.from_score() *)
FromScore(score) ==
  IF score >= MinAbsScore THEN "long" ELSE IF score <= -MinAbsScore THEN "short" ELSE "flat"

(* The view that analyze() forms of the composites. *)
View(c) ==
  LET confidence == Confidence(Score(c), Agreement(c))
      direction == FromScore(Score(c))
  IN  [direction |-> direction,
       confidence |-> IF direction = "flat" THEN Min({confidence, MinAbsScore}) ELSE confidence]

-----------------------------------------------------------------------------
(* The signal. *)

(* AgentContext.reference_price: the mid of the book, the last trade, or   *)
(* the newest close of the first interval that has one.                    *)
ReferencePrice(context) ==
  IF context.book # Nothing THEN context.book.mid
  ELSE IF context.tape # << >> THEN Last(context.tape).price
  ELSE LET held == {k \in DOMAIN Intervals : Intervals[k] \in DOMAIN context.candles}
       IN  Unit * Newest(context.candles[Intervals[Min(held)]]).close

(* The atr of the anchor timeframe, in units. *)
AtrOf(bars) ==
  Last(Atr([k \in DOMAIN bars |-> [high |-> Unit * bars[k].high, low |-> Unit * bars[k].low,
                                   close |-> Unit * bars[k].close]], AtrBars))

(* Seeded fault: a level so near that it ends up on the wrong side is kept. *)
AheadAnywhere(x, price, sign) == TRUE

(* Is the protective price x on the side that sign says? *)
Ahead(x, price, sign) == sign * x > sign * 1000 * price

(* _protective_levels(): just short of the nearest levels where they are   *)
(* on the right side of the price, else off the price by the atr.          *)
ShortOf(levels, kind, price, sign) ==
  {x \in {(1000 - sign) * l : l \in NearestLevel(levels, kind, price)} :
     Ahead(x, price, IF kind = "resistance" THEN 1 ELSE -1)}
ProtectiveLevels(direction, price, levels, atr) ==
  LET buffer == IF atr # 0 THEN 1500 * atr ELSE 15 * price
      sign == IF direction = "long" THEN 1 ELSE -1
      stops == ShortOf(levels, IF sign = 1 THEN "support" ELSE "resistance", price, sign)
      targets == ShortOf(levels, IF sign = 1 THEN "resistance" ELSE "support", price, sign)
  IN  IF direction = "flat" \/ price <= 0 THEN [stop |-> {}, target |-> {}]
      ELSE [stop |-> IF stops # {} THEN stops ELSE {1000 * price - sign * buffer},
            target |-> {t \in IF targets # {} THEN targets ELSE {1000 * price + 2 * sign * buffer} :
                          t > 0}]

(* analyze(): nothing while no timeframe has enough candles; else the      *)
(* view, with the levels of the timeframe of the greatest weight.          *)
Scored(context) == {i \in DOMAIN context.candles : Len(context.candles[i]) >= RequiredBars}
Anchor(S) == CHOOSE i \in S : \A j \in S : Weight[j] <= Weight[i]
Signal(view, price, levels, atr) ==
  LET protective == ProtectiveLevels(view.direction, price, levels, atr)
  IN  [direction |-> view.direction, confidence |-> view.confidence, price |-> price,
       levels |-> levels, stop |-> protective.stop, target |-> protective.target]
SignalOn(context, view, anchor) ==
  Signal(view, ReferencePrice(context),
         DetectLevels(context.candles[anchor], ReferencePrice(context)),
         AtrOf(context.candles[anchor]))
Analyze(context) ==
  IF Scored(context) = {} THEN Nothing
  ELSE SignalOn(context,
                View([i \in Scored(context) |-> AnalyzeTimeframe(context.candles[i]).composite]),
                Anchor(Scored(context)))

-----------------------------------------------------------------------------
(* Properties, of one input each. *)

(* Whatever the levels and wherever the price stands among them, the stop  *)
(* is behind the price and the target ahead of it; the reported levels     *)
(* are on their sides, nearest first; the price reaches no level ahead     *)
(* before the target, unless the first is within a thousandth of it, when  *)
(* the target is by the atr and may be beyond others.                      *)
Bracketed(signal) ==
  LET sign == IF signal.direction = "long" THEN 1 ELSE -1
      ahead == IF sign = 1 THEN signal.levels.resistance ELSE signal.levels.support
      p == signal.price
  IN  /\ \A k \in DOMAIN signal.levels.support :
           signal.levels.support[k] < (IF k = 1 THEN p ELSE signal.levels.support[k - 1])
      /\ \A k \in DOMAIN signal.levels.resistance :
           signal.levels.resistance[k] > (IF k = 1 THEN p ELSE signal.levels.resistance[k - 1])
      /\ (signal.direction = "flat") <=> (signal.stop = {})
      /\ \A s \in signal.stop : sign * s < sign * 1000 * p
      /\ \A t \in signal.target :
           /\ sign * t > sign * 1000 * p
           /\ \A l \in Range(ahead) :
                sign * 1000 * l <= sign * t => (1000 - sign) * ahead[1] * sign <= sign * 1000 * p

(* "A view the timeframes disagree about can never reach full confidence": *)
(* at full confidence no timeframe with a score of 0.05 or more points the *)
(* other way.                                                              *)
Unanimous(c) ==
  View(c).confidence = 1000 =>
    /\ View(c).direction # "flat"
    /\ \A i \in DOMAIN c : Abs(c[i]) >= 50 => (c[i] > 0 <=> View(c).direction = "long")

(* "Reading %B as reversion pressure would fight the trend -- and does so  *)
(* hard enough to cancel it": the bands take off less than half of what an *)
(* established trend adds, and one that momentum does not oppose is never  *)
(* scored against.                                                         *)
NotFaded(t) ==
  LET s == Sign(t.trend)
  IN  Abs(t.trend) > 500 =>
        /\ 2 * 20 * s * t.volatility > -(40 * s * t.trend)
        /\ s * t.momentum >= 0 => s * t.composite >= 0
=============================================================================
