---------------------------- MODULE MCMarketData ----------------------------
(***************************************************************************)
(* The three collectors of market data and the two loaders of its history. *)
(* They are separate processes with no state in common, so a behaviour     *)
(* shows one of them: service says which.                                  *)
(***************************************************************************)
EXTENDS MarketFeed, BookFeed, MetricsPoller, CandleHistory, FundingHistory

VARIABLE service

MinuteAndTwo == [m1 |-> 1, m2 |-> 2]
Tracked == {"m1", "m2"}
TriggerOnMinute == {"m1"}

allVars == <<feedVars, bookVars, metricsVars, historyVars, service>>

NoHistory ==
  listed = {} /\ broken = {} /\ now = 0 /\ StoreInit /\ emptyWindows = 0

DataInit ==
  /\ FeedInit /\ BookInit /\ MetricsInit
  /\ \/ service \in {"candles", "books", "metrics"} /\ NoHistory
     \/ service = "candle history" /\ HistoryInit
     \/ service = "funding history" /\ FundingInit /\ emptyWindows = 0

BesideCandles == <<clock, sent, lastPublished, books, newest, metricsVars, historyVars, service>>
BesideBooks ==
  <<trades, missed, held, candles, agent, crashes, metricsVars, historyVars, service>>
BesideMetrics == <<feedVars, bookVars, historyVars, service>>
BesideHistory == <<feedVars, bookVars, metricsVars, service>>

DataNext ==
  \/ service = "candles" /\ FeedNext /\ UNCHANGED BesideCandles
  \/ service = "books" /\ BookNext /\ UNCHANGED BesideBooks
  \/ service = "metrics" /\ MetricsNext /\ UNCHANGED BesideMetrics
  \/ service = "candle history" /\ HistoryNext /\ UNCHANGED BesideHistory
  \/ service = "funding history" /\ FundingNext /\ UNCHANGED <<BesideHistory, emptyWindows>>

DataFairness ==
  /\ WF_allVars(service = "candles" /\ Collect /\ UNCHANGED BesideCandles)
  /\ WF_allVars(service = "candles" /\ CollectorStarts /\ UNCHANGED BesideCandles)
  /\ WF_allVars(/\ service = "candles" /\ CollectorConnection /\ outages' = outages
                /\ UNCHANGED BesideCandles)
  /\ WF_allVars(/\ service = "books" /\ BookConnection /\ outages' = outages
                /\ UNCHANGED BesideBooks)
  /\ WF_allVars(/\ service = "metrics" /\ (Poll \/ PublishMetrics \/ Published)
                /\ UNCHANGED BesideMetrics)
  /\ WF_allVars(service = "metrics" /\ NextTick /\ UNCHANGED BesideMetrics)

DataSpec == DataInit /\ [][DataNext]_allVars /\ DataFairness

(* "A dropped socket is invisible to the caller apart from a gap in the    *)
(* message stream" (hyperliquid_ws.py), "a transient HTTP error must never *)
(* end it" (hyperliquid_perp_metrics.py): whatever outages there were, a   *)
(* collector is connected again, and the poller polls again unless it was  *)
(* told to stop.                                                           *)
FeedsRecover ==
  /\ service \in {"candles", "books"} => (conn # "open" ~> conn = "open")
  /\ service = "metrics" => (poll # "polling" ~> poll \in {"polling", "stopped"})

(* What is loaded has no hole that the exchange does not have. *)
HistoryIsComplete ==
  /\ service = "candle history" => CandlesComplete
  /\ service = "funding history" => FundingComplete
=============================================================================
