----------------------------- MODULE MarketFeed -----------------------------
(***************************************************************************)
(* From the exchange to an agent: HyperliquidCollector                     *)
(* (services/data_ingestion/market_data/hyperliquid_collector.py) decides  *)
(* when a candle is closed and publishes it, and a SignalAgent             *)
(* (services/agents/common/base_agent.py) keeps what it reads in a         *)
(* MarketContextBuilder and analyses it at every close.                    *)
(*                                                                         *)
(* The exchange is external: trades fall into time slots, a candle of      *)
(* interval i spans Length[i] slots, and after every trade a connected     *)
(* client is sent the candle of every interval, in any order.  The content *)
(* of a candle is told by its version, the number of its last trade.       *)
(***************************************************************************)
EXTENDS MarketContext, WebSocketClient, FiniteSets, SequencesExt

CONSTANTS
  Length,             \* slots per candle, by interval
  PublishUnclosed,    \* publish_unclosed_candles
  Triggers,           \* SignalAgent.trigger_intervals
  MaxSlot,            \* bound: time
  MaxTrades,          \* bound: trades
  MaxCrashes          \* bound: crashes of collector and agent

ASSUME FeedAssumption ==
  /\ IsFiniteSet(DOMAIN Length) /\ \A i \in DOMAIN Length : Length[i] \in Nat \ {0}
  /\ PublishUnclosed \in BOOLEAN
  /\ MaxSlot \in Nat /\ MaxTrades \in Nat /\ MaxCrashes \in Nat

VARIABLES
  trades,             \* external: the slots of the trades so far
  missed,             \* history: candles the collector missed an update of
  held,               \* _open_candles, by interval
  candles,            \* the topic market.candles
  position, origin,   \* what the agent has read, and from where this process read
  builder,            \* the agent's context_builder
  analysed,           \* the trigger and the context of the last analyze()
  crashes

collector == <<held, connection>>
agent == <<position, origin, builder, analysed>>
feedVars == <<trades, missed, collector, candles, agent, crashes>>

Intervals == DOMAIN Length
OpenOf(i, slot) == slot - (slot % Length[i])
Slot == Max(Range(trades) \cup {0})
FinalVersion(i, o) == CHOOSE k \in DOMAIN trades :
                        /\ OpenOf(i, trades[k]) = o
                        /\ \A j \in DOMAIN trades : OpenOf(i, trades[j]) = o => j <= k

-----------------------------------------------------------------------------
(* The exchange. *)

Frame(i, slot, n) == [channel |-> "candle", interval |-> i, open |-> OpenOf(i, slot),
                      ver |-> n, valid |-> TRUE]
Frames(slot, n) == {[k \in 1..Cardinality(Intervals) |-> Frame(order[k], slot, n)] :
                      order \in SetToSeqs(Intervals)}
Control == [channel |-> "control"]
Garbled(f) == [f EXCEPT !.valid = FALSE]

Sent(frames) ==
  IF conn = "open" THEN wire' = wire \o frames /\ UNCHANGED missed
                   ELSE missed' = missed \cup {<<f.interval, f.open>> : f \in Range(frames)}
                        /\ UNCHANGED wire

(* A trade in the current slot or a later one. *)
Trade(slot) ==
  /\ trades' = Append(trades, slot)
  /\ \E frames \in Frames(slot, Len(trades) + 1) : Sent(frames)

(* A trade whose message is preceded by a pong or an acknowledgement, and  *)
(* one of whose payloads the collector cannot parse.                       *)
GarbledTrade(slot) ==
  /\ conn = "open"
  /\ trades' = Append(trades, slot)
  /\ \E i \in Intervals :
       LET f == Frame(i, slot, Len(trades) + 1)
       IN  wire' = wire \o <<Control, Garbled(f)>> /\ missed' = missed \cup
             {<<j, OpenOf(j, slot)>> : j \in Intervals}

(* A trade of the slot before that is reported after the first of a new one. *)
LateTrade(slot) ==
  /\ conn = "open" /\ trades # << >> /\ slot > Slot /\ Len(trades) < MaxTrades - 1
  /\ trades' = trades \o <<slot, Slot>>
  /\ missed' = missed \cup {<<i, OpenOf(i, Slot)>> : i \in Intervals}
  /\ \E new \in Frames(slot, Len(trades) + 1), old \in Frames(Slot, Len(trades) + 2) :
       wire' = wire \o new \o old

Exchange ==
  /\ Len(trades) < MaxTrades /\ wire = << >>
  /\ \E slot \in Slot..MaxSlot : Trade(slot) \/ GarbledTrade(slot) \/ LateTrade(slot)
  /\ UNCHANGED <<held, conn, delay, outages, candles, agent, crashes>>

-----------------------------------------------------------------------------
(* The collector. *)

NoCandles == [i \in Intervals |-> Nothing]

Candle(f, closed) == [interval |-> f.interval, open |-> f.open, ver |-> f.ver,
                      closed |-> closed]

Rolls(f) == held[f.interval] # Nothing /\ f.open > held[f.interval].open

(* Seeded fault: an update of an older candle is taken for the newest. *)
StaleNever(f) == FALSE

Stale(f) == held[f.interval] # Nothing /\ f.open < held[f.interval].open

(* What handle_candle() publishes: on rollover the candle held back, as    *)
(* closed; then the update itself, if open candles are published.          *)
Publications(f) ==
  IF Stale(f) THEN << >>
  ELSE (IF Rolls(f) THEN <<Candle(held[f.interval], TRUE)>> ELSE << >>)
         \o (IF PublishUnclosed THEN <<Candle(f, FALSE)>> ELSE << >>)

(* Seeded fault: the first version of a candle is kept. *)
KeepFirst(f) == held' = IF Stale(f) \/ (held[f.interval] # Nothing /\ ~Rolls(f)) THEN held
                        ELSE [held EXCEPT ![f.interval] = f]

Keep(f) == held' = IF Stale(f) THEN held ELSE [held EXCEPT ![f.interval] = f]

HandleCandle(f) ==
  /\ candles' = candles \o Publications(f)
  /\ Keep(f)

(* run(): a message that cannot be parsed is skipped. *)
Collect ==
  /\ Recv
  /\ IF Yields(Head(wire)) /\ Head(wire).valid
     THEN HandleCandle(Head(wire)) ELSE UNCHANGED <<held, candles>>
  /\ UNCHANGED <<trades, missed, agent, crashes>>

Lost == {<<f.interval, f.open>> : f \in {g \in Range(wire) : Yields(g)}}

(* A publish raises, whether or not the broker has the candle: run() ends  *)
(* in stop(), and the process with it.                                     *)
CollectorFails ==
  /\ conn = "open" /\ wire # << >> /\ crashes < MaxCrashes
  /\ LET f == Head(wire)
     IN  /\ Yields(f) /\ f.valid /\ Publications(f) # << >>
         /\ \E n \in 0..Len(Publications(f)) :
              candles' = candles \o SubSeq(Publications(f), 1, n)
  /\ missed' = missed \cup Lost
  /\ CloseClient
  /\ held' = NoCandles
  /\ crashes' = crashes + 1
  /\ UNCHANGED <<trades, agent>>

CollectorStarts == OpenClient /\ UNCHANGED <<trades, missed, held, candles, agent, crashes>>

CollectorConnection ==
  /\ Reconnection
  /\ missed' = IF wire' = wire THEN missed ELSE missed \cup Lost
  /\ UNCHANGED <<trades, held, candles, agent, crashes>>

-----------------------------------------------------------------------------
(* The agent. *)

IsTrigger(i) == Triggers = {} \/ i \in Triggers

(* handle(Candle): keep it, and analyse at the close of a trigger interval. *)
AgentReads ==
  /\ position < Len(candles)
  /\ position' = position + 1
  /\ LET c == candles[position + 1]
     IN  /\ builder' = AddCandle(builder, c)
         /\ analysed' = IF Stores(builder, c) /\ IsTrigger(c.interval)
                        THEN [trigger |-> c, context |-> Build(builder')]
                        ELSE analysed
  /\ UNCHANGED <<trades, missed, collector, candles, origin, crashes>>

(* A restart: what was buffered is gone, and the offsets committed so far  *)
(* say where to go on.                                                     *)
AgentRestarts ==
  /\ crashes < MaxCrashes /\ position > 0
  /\ crashes' = crashes + 1
  /\ \E p \in 0..position : position' = p /\ origin' = p
  /\ builder' = EmptyBuilder /\ analysed' = Nothing
  /\ UNCHANGED <<trades, missed, collector, candles>>

FeedInit ==
  /\ trades = << >> /\ missed = {}
  /\ ConnectionInit /\ held = NoCandles
  /\ candles = << >>
  /\ position = 0 /\ origin = 0 /\ builder = EmptyBuilder /\ analysed = Nothing
  /\ crashes = 0

FeedNext ==
  \/ Exchange
  \/ Collect \/ CollectorFails \/ CollectorStarts \/ CollectorConnection
  \/ AgentReads \/ AgentRestarts

FeedSpec == FeedInit /\ [][FeedNext]_feedVars

-----------------------------------------------------------------------------
(* Properties. *)

(* The topic keeps its promise across lost connections, late updates and   *)
(* restarts of the collector: the feed implements CandleTopic.             *)
Topic == INSTANCE CandleTopic WITH topic <- candles
TopicKeepsPromise == Topic!TopicSpec

(* "True once the exchange has finalised the candle" (Candle.is_closed): a *)
(* closed candle has the content the exchange ended it with, unless an     *)
(* update of it never reached the collector or came after its successor.   *)
ClosedIsFinal ==
  \A k \in DOMAIN candles :
    LET c == candles[k]
    IN  c.closed => c.ver = FinalVersion(c.interval, c.open) \/ <<c.interval, c.open>> \in missed

(* What an agent analyses is the end of the topic: per interval the last   *)
(* MaxCandles closed candles its process has read, in their order, and the *)
(* window of the trigger ends with the candle that triggered.              *)
ClosedRead(i) == {k \in origin + 1..position : candles[k].closed /\ candles[k].interval = i}
After(k, read) == Cardinality({j \in read : j > k})
Ends(window, read) ==
  /\ Len(window) = IF Cardinality(read) < MaxCandles THEN Cardinality(read) ELSE MaxCandles
  /\ \A k \in read : After(k, read) < MaxCandles =>
                       window[Len(window) - After(k, read)] = candles[k]
WindowEndsTopic ==
  /\ \A i \in TrackedIntervals : Ends(builder.candles[i], ClosedRead(i))
  /\ analysed # Nothing =>
       Newest(CandlesFor(analysed.context, analysed.trigger.interval)) = analysed.trigger
=============================================================================
