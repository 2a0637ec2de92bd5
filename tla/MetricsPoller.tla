---------------------------- MODULE MetricsPoller ----------------------------
(***************************************************************************)
(* PerpMetricsCollector                                                    *)
(* (services/data_ingestion/market_data/hyperliquid_perp_metrics.py): poll *)
(* the contract state of every symbol, publish it symbol by symbol, and    *)
(* wait for the next tick, whatever fails.                                 *)
(***************************************************************************)
EXTENDS Integers, FiniteSets

CONSTANTS
  Universe,      \* external: coins of the exchange
  Wanted,        \* HyperliquidSettings.symbols
  MaxPollFaults  \* bound: polls and publications that fail

VARIABLES
  poll,          \* where run() is: "polling", "publishing", "waiting", "stopped"
  batch,         \* parsed metrics still to be published
  pollFaults

metricsVars == <<poll, batch, pollFaults>>

MetricsInit == poll = "polling" /\ batch = {} /\ pollFaults = 0

(* parse_contexts: the wanted coins whose context can be parsed; one that  *)
(* cannot is skipped.                                                      *)
Parsed(malformed) == (Universe \cap Wanted) \ malformed

(* poll_once returns. *)
Poll ==
  /\ poll = "polling"
  /\ \E malformed \in SUBSET Universe : batch' = Parsed(malformed)
  /\ poll' = "publishing"
  /\ UNCHANGED pollFaults

PublishMetrics ==
  /\ poll = "publishing" /\ batch # {}
  /\ \E s \in batch : batch' = batch \ {s}
  /\ UNCHANGED <<poll, pollFaults>>

Published == poll = "publishing" /\ batch = {} /\ poll' = "waiting" /\ UNCHANGED <<batch, pollFaults>>

(* The request, the response's shape or a publication fails: what was not  *)
(* published of this poll is dropped.                                      *)
PollFails ==
  /\ poll \in {"polling", "publishing"} /\ pollFaults < MaxPollFaults
  /\ pollFaults' = pollFaults + 1
  /\ poll' = "waiting" /\ batch' = {}

NextTick == poll = "waiting" /\ poll' = "polling" /\ UNCHANGED <<batch, pollFaults>>

(* run() is cancelled: its finally clause stops everything. *)
StopPolling ==
  /\ poll # "stopped"
  /\ poll' = "stopped" /\ batch' = {}
  /\ UNCHANGED pollFaults

MetricsNext == Poll \/ PublishMetrics \/ Published \/ PollFails \/ NextTick \/ StopPolling

=============================================================================
