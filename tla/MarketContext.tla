---------------------------- MODULE MarketContext ----------------------------
(***************************************************************************)
(* MarketContextBuilder (services/agents/common/context.py): the bounded   *)
(* market state of one symbol that an agent analyses.  The live agents     *)
(* feed it from Kafka; the replay must show the analyst the same windows.  *)
(*                                                                         *)
(* A candle is a record with fields interval, open and closed; the other   *)
(* fields are whatever the user of this module tells apart.                *)
(***************************************************************************)
EXTENDS Integers, Sequences

CONSTANTS
  TrackedIntervals,  \* HyperliquidSettings.candle_intervals
  MaxCandles,        \* warmup_candles, the candles kept per interval
  MaxTape            \* max_trades, the trade prints kept

ASSUME ContextAssumption == MaxCandles \in Nat \ {0} /\ MaxTape \in Nat \ {0}

Nothing == [none |-> TRUE]

Newest(s) == s[Len(s)]

(* deque(maxlen=n): appending to a full deque drops its oldest entry. *)
KeepLast(n, s) == IF Len(s) <= n THEN s ELSE SubSeq(s, Len(s) - n + 1, Len(s))

EmptyBuilder ==
  [candles |-> [i \in TrackedIntervals |-> << >>], book |-> Nothing, tape |-> << >>]

(* Seeded fault: a candle that is still open is kept. *)
StoresOpen(b, c) ==
  /\ c.interval \in TrackedIntervals
  /\ b.candles[c.interval] # << >> => c.open >= Newest(b.candles[c.interval]).open

(* add_candle: is the candle kept?  Not an open one, not one of an         *)
(* interval that is not tracked, not one older than the newest kept.       *)
Stores(b, c) ==
  /\ c.closed
  /\ c.interval \in TrackedIntervals
  /\ b.candles[c.interval] # << >> => c.open >= Newest(b.candles[c.interval]).open

Repeats(s, c) == s # << >> /\ Newest(s).open = c.open

(* A repeated open time replaces the newest candle, a later one follows it. *)
WithCandle(s, c) ==
  IF Repeats(s, c) THEN [s EXCEPT ![Len(s)] = c] ELSE KeepLast(MaxCandles, Append(s, c))

AddCandle(b, c) ==
  IF Stores(b, c) THEN [b EXCEPT !.candles[c.interval] = WithCandle(@, c)] ELSE b

AddOrderBook(b, book) == [b EXCEPT !.book = book]
AddTrade(b, trade) == [b EXCEPT !.tape = KeepLast(MaxTape, Append(@, trade))]

(* build(): intervals without candles are left out of the context.  No     *)
(* agent asks for the portfolio, so a context has none.                    *)
Build(b) == [b EXCEPT !.candles = [i \in {j \in DOMAIN @ : @[j] # << >>} |-> @[i]]]

CandlesFor(context, i) == IF i \in DOMAIN context.candles THEN context.candles[i] ELSE << >>
=============================================================================
