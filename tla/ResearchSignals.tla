--------------------------- MODULE ResearchSignals ---------------------------
(***************************************************************************)
(* The signals under study (services/research/signals.py and               *)
(* services/research/long_horizon.py), reduced to the direction they call: *)
(* 1 for long, -1 for short, 0 for flat.  A window is a record of the      *)
(* series that SignalWindow carries; bars have high, low, close, volume.   *)
(***************************************************************************)
EXTENDS Indicators

CONSTANTS
  RsiPeriod, RsiBand,               \* rsi_reversion, rsi_momentum
  MacdFast, MacdSlow, MacdSignal,   \* macd_histogram
  EmaFast, EmaSlow,                 \* ema_cross
  BandPeriod, BandWidth,            \* bollinger_percent_b
  MoveLookback, AtrPeriod,          \* atr_normalized_momentum
  ObvLookback,                      \* obv_divergence
  OiLookback,                       \* open_interest_change
  TrendLookback,                    \* momentum_60d and its kin, tsmom_30d and its kin
  ExtremeBand, MinRates,            \* funding_extreme, in percent, and its minimum of rates
  FundingHistory,                   \* and the newest rates it looks at
  DrawdownPct                       \* drawdown_from_high, in percent

CloseOf(w) == [k \in DOMAIN w.bars |-> w.bars[k].close]
VolumeOf(w) == [k \in DOMAIN w.bars |-> w.bars[k].volume]
PriceOf(w) == Scaled(CloseOf(w))
ScaledBars(w) ==
  [k \in DOMAIN w.bars |->
     [high |-> Fixed * w.bars[k].high, low |-> Fixed * w.bars[k].low, close |-> Fixed * w.bars[k].close]]

(* The sign of the newest value of a series, if there is one: _directional *)
Directional(s) == IF s = << >> THEN 0 ELSE Sign(Last(s))

(* Seeded fault: the upper threshold itself does not count as overbought. *)
RsiReversionStrict(w) ==
  LET r == RsiParts(PriceOf(w), RsiPeriod)
  IN  IF r = << >> THEN 0
      ELSE IF RsiAtMost(r[1], 50 - RsiBand) THEN 1
      ELSE IF ~RsiAtMost(r[1], 50 + RsiBand) THEN -1 ELSE 0

RsiReversion(w) ==
  LET r == RsiParts(PriceOf(w), RsiPeriod)
  IN  IF r = << >> THEN 0
      ELSE IF RsiAtMost(r[1], 50 - RsiBand) THEN 1
      ELSE IF RsiAtLeast(r[1], 50 + RsiBand) THEN -1 ELSE 0

RsiMomentum(w) ==
  LET r == RsiParts(PriceOf(w), RsiPeriod)
  IN  IF r = << >> THEN 0 ELSE Sign(r[1].gain - r[1].loss)

MacdSignalOf(w) == Directional(MacdHistogram(MacdLine(PriceOf(w), MacdFast, MacdSlow), MacdSignal))

EmaCross(w) ==
  LET fast == Ema(PriceOf(w), EmaFast)
      slow == Ema(PriceOf(w), EmaSlow)
  IN  IF fast = << >> \/ slow = << >> THEN 0 ELSE Sign(Last(fast) - Last(slow))

BollingerPercentB(w) == -BandSide(CloseOf(w), BandPeriod, BandWidth)

AtrMomentum(w) ==
  LET c == CloseOf(w)
      range == Atr(ScaledBars(w), AtrPeriod)
  IN  IF Len(c) <= MoveLookback \/ range = << >> \/ Last(range) <= 0 THEN 0
      ELSE Sign(Last(c) - c[Len(c) - MoveLookback])

(* obv_divergence: a new extreme of the price that the volume does not     *)
(* confirm is faded; a new high is looked at before a new low.             *)
NewHigh(s) == Highest(Newer(ObvLookback, s)) > Highest(SubSeq(s, Len(s) - 2 * ObvLookback + 1, Len(s) - ObvLookback))
NewLow(s) == Lowest(Newer(ObvLookback, s)) < Lowest(SubSeq(s, Len(s) - 2 * ObvLookback + 1, Len(s) - ObvLookback))
UnconfirmedHigh(w) == NewHigh(CloseOf(w)) /\ ~NewHigh(OnBalanceVolume(CloseOf(w), VolumeOf(w)))
UnconfirmedLow(w) == NewLow(CloseOf(w)) /\ ~NewLow(OnBalanceVolume(CloseOf(w), VolumeOf(w)))
ObvDivergence(w) ==
  IF Len(w.bars) < 2 * ObvLookback THEN 0
  ELSE IF UnconfirmedHigh(w) THEN -1
  ELSE IF UnconfirmedLow(w) THEN 1 ELSE 0

FundingContrarian(w) == -Directional(w.funding)

(* order_book_imbalance: the sizes of the best levels of either side *)
BookImbalance(w) == Sign(Added(w.bids) - Added(w.asks))

OpenInterestChange(w) ==
  LET c == CloseOf(w)
      oi == w.openInterest
  IN  IF Len(oi) <= OiLookback \/ Len(c) <= OiLookback THEN 0
      ELSE IF oi[Len(oi) - OiLookback] <= 0 \/ Last(oi) <= oi[Len(oi) - OiLookback] THEN 0
      ELSE Sign(Last(c) - c[Len(c) - OiLookback])

-----------------------------------------------------------------------------
(* long_horizon.py *)

(* momentum_60d, _120d, _200d *)
PriceVsAverage(w) ==
  LET c == CloseOf(w)
  IN  IF Len(c) < TrendLookback + 1 THEN 0
      ELSE Sign(TrendLookback * Last(c) - Added(Newer(TrendLookback, c)))

(* tsmom_30d, _90d, _180d *)
TrailingReturnSign(w) ==
  LET c == CloseOf(w)
  IN  IF Len(c) < TrendLookback + 1 THEN 0 ELSE Sign(Last(c) - c[Len(c) - TrendLookback])

(* funding_extreme: the newest rate by its percentile among the newest.    *)
FundingExtreme(w) ==
  LET f == Newer(Min({FundingHistory, Len(w.funding)}), w.funding)
      atMost == Cardinality({k \in DOMAIN f : f[k] <= Last(f)})
  IN  IF Len(f) < MinRates THEN 0
      ELSE IF 100 * atMost >= (100 - ExtremeBand) * Len(f) THEN -1
      ELSE IF 100 * atMost <= ExtremeBand * Len(f) THEN 1 ELSE 0

(* drawdown_from_high: far enough below the highest of the newest closes   *)
DrawdownFromHigh(w) ==
  LET c == CloseOf(w)
      high == Highest(Newer(TrendLookback, c))
  IN  IF Len(c) >= TrendLookback /\ 100 * (high - Last(c)) >= DrawdownPct * high THEN 1 ELSE 0

-----------------------------------------------------------------------------
(* Properties. *)

(* The same market upside down, about the price axis / 2. *)
UpsideDown(w, axis) ==
  [w EXCEPT !.bars = [k \in DOMAIN @ |->
                        [@[k] EXCEPT !.high = axis - w.bars[k].low, !.low = axis - w.bars[k].high,
                                     !.close = axis - @]],
            !.funding = [k \in DOMAIN @ |-> -@[k]],
            !.bids = w.asks, !.asks = w.bids]

(* Every convention of the library is one rule for both directions: what   *)
(* it calls of a market it calls the opposite of the market upside down,   *)
(* at thresholds too.  An unconfirmed new high and an unconfirmed new low  *)
(* in one window are the exception; funding_extreme and drawdown_from_high *)
(* are not symmetric by design.                                            *)
Symmetric(w, axis) ==
  LET m == UpsideDown(w, axis)
  IN  /\ RsiReversion(m) = -RsiReversion(w)
      /\ RsiMomentum(m) = -RsiMomentum(w)
      /\ MacdSignalOf(m) = -MacdSignalOf(w)
      /\ EmaCross(m) = -EmaCross(w)
      /\ BollingerPercentB(m) = -BollingerPercentB(w)
      /\ AtrMomentum(m) = -AtrMomentum(w)
      /\ ObvDivergence(m) = -ObvDivergence(w)
           \/ (UnconfirmedHigh(w) /\ UnconfirmedLow(w))
      /\ FundingContrarian(m) = -FundingContrarian(w)
      /\ BookImbalance(m) = -BookImbalance(w)
      /\ OpenInterestChange(m) = -OpenInterestChange(w)
      /\ PriceVsAverage(m) = -PriceVsAverage(w)
      /\ TrailingReturnSign(m) = -TrailingReturnSign(w)

(* The same market, had its newest candle closed higher, or its newest     *)
(* funding rate been higher.                                               *)
ClosedHigher(w, by) ==
  [w EXCEPT !.bars[Len(w.bars)].close = @ + by,
            !.bars[Len(w.bars)].high = Max({@, Last(w.bars).close + by})]
FundedHigher(w, by) ==
  IF w.funding = << >> THEN w ELSE [w EXCEPT !.funding[Len(w.funding)] = @ + by]

(* A signal that follows the price never turns down because the price      *)
(* ended higher; one that fades the price, or crowded funding, never turns *)
(* up because there is more to fade.                                       *)
Follows(S(_), w, more) == S(w) <= S(more)
Fades(S(_), w, more) == S(more) <= S(w)
Responsive(w, by) ==
  LET up == ClosedHigher(w, by)
      crowded == FundedHigher(w, by)
  IN  /\ Follows(RsiMomentum, w, up) /\ Follows(MacdSignalOf, w, up) /\ Follows(EmaCross, w, up)
      /\ Follows(AtrMomentum, w, up) /\ Follows(OpenInterestChange, w, up)
      /\ Follows(PriceVsAverage, w, up) /\ Follows(TrailingReturnSign, w, up)
      /\ Fades(RsiReversion, w, up) /\ Fades(BollingerPercentB, w, up)
      /\ Fades(DrawdownFromHigh, w, up)
      /\ Fades(FundingContrarian, w, crowded) /\ Fades(FundingExtreme, w, crowded)
=============================================================================
