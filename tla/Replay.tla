------------------------------- MODULE Replay -------------------------------
(***************************************************************************)
(* ReplayEngine.run() (services/backtest/replay.py): one symbol's history, *)
(* bar by bar, through the analyst, with the exits of one open trade at a  *)
(* time.  The analyst is any signal; prices are in ticks, levels in        *)
(* hundredths of a tick.  A second interval closes every Slower bars of    *)
(* the driving one.                                                        *)
(***************************************************************************)
EXTENDS Integers, Sequences, SequencesExt

CONSTANTS
  BarShapes,    \* bars: [low, high, close]
  Signals,      \* what the analyst may say: [direction, stop, target] off the close
  Slower,       \* driving bars per bar of the other interval
  WarmupBars,   \* warmup_bars
  WindowBars,   \* window_bars
  MaxBarsHeld,  \* max_bars_held; 0 for none
  TrailingPct,  \* trailing_stop_pct; 0 for none
  MaxBars       \* bound: bars of the history

ASSUME ReplayAssumption ==
  /\ BarShapes # {} /\ BarShapes \subseteq [low : Nat, high : Nat, close : Nat]
  /\ Signals \subseteq [direction : {"long", "short"}, stop : Nat, target : Nat]
  /\ {WindowBars, Slower} \subseteq Nat \ {0} /\ {WarmupBars, MaxBarsHeld, TrailingPct} \subseteq Nat
  /\ MaxBars > WarmupBars

VARIABLES
  bars,       \* the driving bars so far
  openTrade,  \* open_trade
  trades,     \* result.trades
  live,       \* history: the builder of a live agent that reads the same candles
  shown,      \* history: what the analyst was shown last, here and by the live agent
  over        \* whether run() has returned

replayVars == <<bars, openTrade, trades, live, shown, over>>

NoTrade == [none |-> TRUE]
Hundred == 100
Best(d, a, b) == IF d = "long" THEN Max({a, b}) ELSE Min({a, b})

-----------------------------------------------------------------------------
(* _OpenTrade. *)

(* observe(): the extreme takes in the bar. *)
ObservedBar(t, bar) ==
  [t EXCEPT !.bars = @ + 1,
            !.extreme = Best(t.direction, @, IF t.direction = "long" THEN bar.high ELSE bar.low)]

TrailingStop(t) ==
  IF TrailingPct = 0 THEN {}
  ELSE {t.extreme * (IF t.direction = "long" THEN Hundred - TrailingPct ELSE Hundred + TrailingPct)}

(* The tighter of the fixed and the trailing stop, if there is any. *)
EffectiveStop(t) ==
  LET stops == TrailingStop(t) \cup (IF t.stop = 0 THEN {} ELSE {t.stop})
  IN  IF stops = {} THEN {} ELSE {CHOOSE s \in stops : \A o \in stops : Best(t.direction, s, o) = s}

(* Has the bar been at the level, going against or with the trade? *)
Fallen(d, bar, level) == IF d = "long" THEN bar.low * Hundred <= level ELSE bar.high * Hundred >= level
Risen(d, bar, level) == IF d = "long" THEN bar.high * Hundred >= level ELSE bar.low * Hundred <= level

StopExits(t, bar) ==
  {[reason |-> IF TrailingStop(t) = {s} /\ t.stop # s THEN "trailing_stop" ELSE "stop_loss",
    price |-> s] : s \in {l \in EffectiveStop(t) : Fallen(t.direction, bar, l)}}
TargetExits(t, bar) ==
  {[reason |-> "take_profit", price |-> t.target] :
     hit \in {h \in {t.target} : h # 0 /\ Risen(t.direction, bar, h)}}

(* Seeded fault: the target is looked at first. *)
ExitOnTargetFirst(t, bar) ==
  IF TargetExits(t, bar) # {} THEN TargetExits(t, bar) ELSE StopExits(t, bar)

(* _exit_on(): the stop is looked at first. *)
ExitOn(t, bar) == IF StopExits(t, bar) # {} THEN StopExits(t, bar) ELSE TargetExits(t, bar)

(* _close() *)
Closed(t, exit, at, forced) ==
  [direction |-> t.direction, entry |-> t.entry, entryPrice |-> t.entryPrice, stop |-> t.stop,
   target |-> t.target, exit |-> at, price |-> exit.price, reason |-> exit.reason,
   forced |-> forced, held |-> t.bars]
AtClose(bar) == [reason |-> "manual", price |-> bar.close * Hundred]

-----------------------------------------------------------------------------
(* run(). *)

(* Managing the open trade against bar n: the trade that closes, if any. *)
Closes(t, bar, n) ==
  IF ExitOn(t, bar) # {} THEN {Closed(t, e, n, FALSE) : e \in ExitOn(t, bar)}
  ELSE IF MaxBarsHeld # 0 /\ t.bars >= MaxBarsHeld THEN {Closed(t, AtClose(bar), n, TRUE)}
  ELSE {}

(* The live agent: every candle as it closes, the slower one first where   *)
(* both close.                                                             *)
Live == INSTANCE MarketContext
          WITH TrackedIntervals <- {"driving", "other"}, MaxCandles <- WindowBars, MaxTape <- 1

Candle(i, k) == [interval |-> i, open |-> k, closed |-> TRUE]
LiveReads(builder, n) ==
  Live!AddCandle(IF n % Slower = 0 THEN Live!AddCandle(builder, Candle("other", n \div Slower))
                                   ELSE builder,
                 Candle("driving", n))

(* Seeded fault: the window of the other interval holds the bar under way. *)
WindowsWithOpenBar(n) ==
  LET m == (n + Slower - 1) \div Slower
  IN  [driving |-> (IF n > WindowBars THEN n - WindowBars + 1 ELSE 1)..n,
       other |-> (IF m > WindowBars THEN m - WindowBars + 1 ELSE 1)..m]

(* What the analyst sees at bar n, as the numbers of the bars: the last    *)
(* WindowBars of each interval that have closed.                           *)
Windows(n) ==
  LET m == n \div Slower
  IN  [driving |-> (IF n > WindowBars THEN n - WindowBars + 1 ELSE 1)..n,
       other |-> (IF m > WindowBars THEN m - WindowBars + 1 ELSE 1)..m]

(* Off the entry price, on either side. *)
Level(d, price, offset, sign) ==
  IF offset = 0 THEN 0
  ELSE Hundred * (IF d = "long" THEN price + sign * offset ELSE price - sign * offset)

Entered(s, bar, n) ==
  [direction |-> s.direction, entry |-> n, entryPrice |-> bar.close,
   stop |-> Level(s.direction, bar.close, s.stop, -1),
   target |-> Level(s.direction, bar.close, s.target, 1), extreme |-> bar.close, bars |-> 0]

(* One bar: manage the trade, and if none is left, ask for a view. *)
ReplayBar(bar) ==
  LET n == Len(bars) + 1
      managed == IF openTrade = NoTrade THEN NoTrade ELSE ObservedBar(openTrade, bar)
      closed == IF openTrade = NoTrade THEN {} ELSE Closes(managed, bar, n)
  IN  /\ ~over /\ n <= MaxBars
      /\ bars' = Append(bars, bar)
      /\ live' = LiveReads(live, n)
      /\ IF n <= WarmupBars THEN UNCHANGED <<openTrade, trades, shown>>
         ELSE /\ trades' = trades \o SetToSeq(closed)
              /\ IF managed # NoTrade /\ closed = {}
                 THEN openTrade' = managed /\ UNCHANGED shown
                 ELSE /\ shown' = [windows |-> Windows(n), context |-> Live!Build(live')]
                      /\ \/ openTrade' = NoTrade
                         \/ \E s \in Signals : openTrade' = Entered(s, bar, n)
      /\ UNCHANGED over

(* The end of the history: an open trade is closed at the last close. *)
EndReplay ==
  /\ ~over /\ Len(bars) > WarmupBars /\ over' = TRUE
  /\ trades' = IF openTrade = NoTrade THEN trades
               ELSE Append(trades, Closed(openTrade, AtClose(Last(bars)), Len(bars), TRUE))
  /\ openTrade' = NoTrade
  /\ UNCHANGED <<bars, live, shown>>

ReplayInit ==
  /\ bars = << >> /\ openTrade = NoTrade /\ trades = << >> /\ over = FALSE
  /\ live = Live!EmptyBuilder /\ shown = NoTrade

(* Nothing here reads the prices of the warm-up: its bars are all alike. *)
NextBars == IF Len(bars) < WarmupBars THEN {CHOOSE bar \in BarShapes : TRUE} ELSE BarShapes
ReplayNext == (\E bar \in NextBars : ReplayBar(bar)) \/ EndReplay

-----------------------------------------------------------------------------
(* Properties. *)

(* "Over a context window bounded exactly as the live MarketContextBuilder *)
(* bounds it": what the analyst is shown is what the live agent, fed every *)
(* candle that has closed by then and none that has not, shows it too.     *)
Numbers(candles) == {candles[k].open : k \in DOMAIN candles}

ReplaySeesLiveWindow ==
  shown # NoTrade =>
    \A i \in {"driving", "other"} :
      shown.windows[i] = Numbers(Live!CandlesFor(shown.context, i))

(* A trade ends at the first bar that reaches a level of it, at that       *)
(* level, the stop when the bar reaches both ("the losing outcome is       *)
(* assumed"); the stop follows the best price since the entry.  Only a     *)
(* trade that no bar ended is closed by force, at the limit of bars or at  *)
(* the end.  One trade is open at a time.                                  *)
Path(t, k) == [direction |-> t.direction, stop |-> t.stop,
               extreme |-> LET seen == {t.entryPrice} \cup
                                 {IF t.direction = "long" THEN bars[j].high ELSE bars[j].low :
                                    j \in t.entry + 1..k}
                           IN  IF t.direction = "long" THEN Max(seen) ELSE Min(seen)]
Stopped(t, k) == \E l \in EffectiveStop(Path(t, k)) : Fallen(t.direction, bars[k], l)
Reached(t, k) == t.target # 0 /\ Risen(t.direction, bars[k], t.target)

EndsRight(t) ==
  /\ \A k \in t.entry + 1..t.exit - 1 : ~Stopped(t, k) /\ ~Reached(t, k)
  /\ t.held = t.exit - t.entry
  /\ IF t.forced THEN /\ t.held > 0 => ~Stopped(t, t.exit) /\ ~Reached(t, t.exit)
                      /\ t.held = MaxBarsHeld \/ (over /\ t.exit = Len(bars))
     ELSE IF Stopped(t, t.exit) THEN {t.price} = EffectiveStop(Path(t, t.exit))
     ELSE Reached(t, t.exit) /\ t.price = t.target

ExitsAtFirstTouch ==
  /\ \A k \in DOMAIN trades : EndsRight(trades[k])
  /\ \A k \in 1..Len(trades) - 1 : trades[k].exit <= trades[k + 1].entry
=============================================================================
