----------------------------- MODULE Indicators -----------------------------
(***************************************************************************)
(* The technical indicators (services/agents/market_analyst/indicators.py).*)
(* A series is a sequence, oldest first; an indicator that is not defined  *)
(* yet is << >>, one that is defined is the sequence of its defined        *)
(* values, so that its last element is last_defined().                     *)
(*                                                                         *)
(* The code's floats are integers here, in units of 1 / Fixed; a division  *)
(* drops what is smaller, towards zero, so that a series and the same      *)
(* series upside down stay each other's opposites.                         *)
(***************************************************************************)
EXTENDS Integers, Sequences, SequencesExt, Sums

CONSTANT Fixed

ASSUME FixedAssumption == Fixed \in Nat \ {0}

Quot(a, b) == IF a < 0 THEN -((-a) \div b) ELSE a \div b
Abs(a) == IF a < 0 THEN -a ELSE a
Sign(a) == IF a > 0 THEN 1 ELSE IF a < 0 THEN -1 ELSE 0
Added(s) == SumOf(s)
Scaled(s) == [k \in DOMAIN s |-> s[k] * Fixed]
Newer(n, s) == SubSeq(s, Len(s) - n + 1, Len(s))
Highest(s) == Max(Range(s))
Lowest(s) == Min(Range(s))
Changes(s) == [k \in 1..Len(s) - 1 |-> s[k + 1] - s[k]]

(* clamp(), for scores in thousandths *)
Clamp(x) == Max({-1000, Min({1000, x})})

(* clamp() of a / b, b > 0; what it cuts off is never computed. *)
ClampedQuot(a, b) == IF Abs(a) >= b THEN 1000 * Sign(a) ELSE Quot(1000 * a, b)

(* A series that starts from the mean of the first p values and goes the   *)
(* share part / whole of the way to each next one: ema, Wilder's averages. *)
Smoothed(s, p, part, whole) ==
  LET value[n \in 0..Len(s) - p] ==
        IF n = 0 THEN Quot(Added(SubSeq(s, 1, p)), p)
        ELSE LET last == value[n - 1] IN last + Quot(part * (s[p + n] - last), whole)
  IN  IF Len(s) < p THEN << >> ELSE [k \in 1..Len(s) - p + 1 |-> value[k - 1]]

Ema(s, p) == Smoothed(s, p, 2, p + 1)
Wilder(s, p) == Smoothed(s, p, 1, p)

(* rsi(): the averages of gains and losses it is the ratio of, as          *)
(* 100 * gain / (gain + loss), and 50 when both are nought.                *)
RsiOf(gain, loss) == IF gain + loss = 0 THEN [gain |-> 1, loss |-> 1] ELSE [gain |-> gain, loss |-> loss]
Ups(moves) == [k \in DOMAIN moves |-> Max({moves[k], 0})]
Downs(moves) == [k \in DOMAIN moves |-> Max({-moves[k], 0})]
RsiParts(s, p) ==
  IF Len(s) <= p THEN << >>
  ELSE <<RsiOf(Last(Wilder(Ups(Changes(s)), p)), Last(Wilder(Downs(Changes(s)), p)))>>
RsiAtLeast(r, level) == 100 * r.gain >= level * (r.gain + r.loss)
RsiAtMost(r, level) == 100 * r.gain <= level * (r.gain + r.loss)

(* macd(): the line from where the slow average is defined, its signal     *)
(* line and, where that is defined, the difference.                        *)
Minus(longer, s) == [k \in DOMAIN s |-> longer[k + Len(longer) - Len(s)] - s[k]]
MacdLine(s, fast, slow) == Minus(Ema(s, fast), Ema(s, slow))
MacdSignalLine(line, signal) == Ema(line, signal)
MacdHistogram(line, signal) == Minus(line, MacdSignalLine(line, signal))

(* bollinger(): on which side of the bands the last value lies, by the     *)
(* squares of its distance from the middle and of the bands' width.        *)
BandSide(s, p, width) ==
  IF Len(s) < p THEN 0
  ELSE LET w == Newer(p, s)
           off == p * Last(s) - Added(w)
           squares == [k \in DOMAIN w |-> (p * w[k] - Added(w)) * (p * w[k] - Added(w))]
       IN  IF p * off * off > width * width * Added(squares) THEN Sign(off) ELSE 0

(* true_range() and atr(), of bars with high, low and close *)
TrueRange(bars) ==
  [k \in DOMAIN bars |->
     LET b == bars[k]
     IN  IF k = 1 THEN b.high - b.low
         ELSE LET c == bars[k - 1].close
              IN  Max({b.high - b.low, Abs(b.high - c), Abs(b.low - c)})]
Atr(bars, p) == Wilder(TrueRange(bars), p)

(* on_balance_volume() *)
OnBalanceVolume(closes, volumes) ==
  LET obv[n \in 0..Len(closes)] ==
        IF n <= 1 THEN 0 ELSE obv[n - 1] + Sign(closes[n] - closes[n - 1]) * volumes[n]
  IN  [k \in DOMAIN closes |-> obv[k]]

(* normalized_slope() of the last n values, as a fraction *)
NormalizedSlope(s, n) ==
  LET w == Newer(Min({n, Len(s)}), s)
      x == [k \in DOMAIN w |-> 2 * k - Len(w) - 1]
      over == Added([k \in DOMAIN w |-> x[k] * x[k]]) * Added([k \in DOMAIN w |-> Abs(w[k])])
  IN  IF over = 0 THEN [num |-> 0, den |-> 1]
      ELSE [num |-> 2 * Len(w) * Added([k \in DOMAIN w |-> x[k] * w[k]]), den |-> over]

(* crossed_above() on the last two values of each series *)
CrossedAbove(fast, slow) ==
  /\ Len(fast) >= 2 /\ Len(slow) >= 2
  /\ fast[Len(fast) - 1] <= slow[Len(slow) - 1] /\ Last(fast) > Last(slow)
CrossedBelow(fast, slow) == CrossedAbove(slow, fast)
=============================================================================
