----------------------------- MODULE RiskManager -----------------------------
(***************************************************************************)
(* The risk manager (services/agents/risk_manager/agent.py): it keeps the  *)
(* latest portfolio snapshot and answers every decision with a verdict     *)
(* and, if it approves, an order.                                          *)
(*                                                                         *)
(* Sizes are whole quanta, money and prices are integers; percentages are  *)
(* integers.  A stop of 0 stands for Python's None.                        *)
(***************************************************************************)
EXTENDS Integers, FiniteSets

CONSTANTS
  Decisions,        \* the decisions that may come
  StartingEquity,   \* equity assumed before the first snapshot
  MinConfidence,    \* RiskSettings.min_confidence, in percent
  DailyLossPct,     \* daily_loss_limit_pct
  MaxOpen,          \* max_open_positions
  RiskPct,          \* risk_per_trade_pct
  MaxNotional,      \* max_position_notional
  MaxLeverage,      \* max_portfolio_leverage
  MinNotional,      \* min_order_notional
  DefaultStopPct,   \* default_stop_distance_pct
  MinStopPct,       \* min_stop_distance_pct
  TrailPct          \* trailing_stop_pct

ASSUME RiskAssumption ==
  /\ {StartingEquity, MaxOpen, RiskPct, MaxNotional, MaxLeverage, DefaultStopPct}
       \subseteq Nat \ {0}
  /\ {MinConfidence, DailyLossPct, MinNotional, MinStopPct, TrailPct} \subseteq Nat
  /\ \A d \in Decisions :
       d.direction \in {"long", "short", "hold"} /\ {d.price, d.weighted, d.stop} \subseteq Int

VARIABLE portfolio   \* _portfolio: the latest snapshot, or NoSnapshot

NoSnapshot == [known |-> FALSE, equity |-> StartingEquity, dayStart |-> StartingEquity,
               gross |-> 0, held |-> [s \in {} |-> "long"]]

-----------------------------------------------------------------------------
(* evaluate(): what the decision d would be answered, by the snapshot p. *)

Magnitude(x) == IF x < 0 THEN -x ELSE x
LeastOf(S) == CHOOSE x \in S : \A y \in S : x <= y

(* Seeded fault: a stop on the wrong side of the price is accepted. *)
UsableEitherSide(d) ==
  /\ d.stop > 0
  /\ Magnitude(d.price - d.stop) * 100 >= MinStopPct * d.price

(* _resolve_stop: the suggested stop if it is on the right side and not    *)
(* too tight, the default distance otherwise.                              *)
Usable(d) ==
  /\ d.stop > 0
  /\ IF d.direction = "long" THEN d.stop < d.price ELSE d.stop > d.price
  /\ Magnitude(d.price - d.stop) * 100 >= MinStopPct * d.price

DefaultOffset(d) == (d.price * DefaultStopPct) \div 100
ResolveStop(d) ==
  IF Usable(d) THEN d.stop
  ELSE IF d.direction = "long" THEN d.price - DefaultOffset(d) ELSE d.price + DefaultOffset(d)
StopDistance(d) == Magnitude(d.price - ResolveStop(d))

Headroom(p) == p.equity * MaxLeverage - p.gross

(* Seeded fault: the headroom is not a cap of the size. *)
CapsWithoutHeadroom(d, p) ==
  {(p.equity * RiskPct) \div (100 * StopDistance(d)), MaxNotional \div d.price}

(* Seeded fault: the budget is taken over the default stop distance.       *)
CapsOfDefault(d, p) ==
  {(p.equity * RiskPct) \div (100 * DefaultOffset(d)), MaxNotional \div d.price}
    \cup (IF Headroom(p) > 0 THEN {Headroom(p) \div d.price} ELSE {})

(* The caps of the size: the risk budget over the stop distance, the       *)
(* notional cap, and the leverage headroom unless it is used up.           *)
Caps(d, p) ==
  {(p.equity * RiskPct) \div (100 * StopDistance(d)), MaxNotional \div d.price}
    \cup (IF Headroom(p) > 0 THEN {Headroom(p) \div d.price} ELSE {})
Size(d, p) == LeastOf(Caps(d, p))

LosesTooMuch(p) ==
  /\ p.known /\ p.dayStart > 0
  /\ (p.equity - p.dayStart) * 100 <= -(DailyLossPct * p.dayStart)

(* Refused before any sizing. *)
Unanswerable(d, p) ==
  d.direction = "hold" \/ p.equity <= 0 \/ d.price <= 0 \/ StopDistance(d) <= 0

Reasons(d, p) ==
  {r \in {"low_confidence", "daily_loss_limit", "duplicate_exposure", "max_open_positions",
          "max_leverage", "size_below_minimum"} :
     \/ r = "low_confidence" /\ d.weighted < MinConfidence
     \/ r = "daily_loss_limit" /\ LosesTooMuch(p)
     \/ r = "duplicate_exposure" /\ d.symbol \in DOMAIN p.held
          /\ p.held[d.symbol] # d.direction
     \/ r = "max_open_positions" /\ d.symbol \notin DOMAIN p.held
          /\ Cardinality(DOMAIN p.held) >= MaxOpen
     \/ r = "max_leverage" /\ Headroom(p) <= 0
     \/ r = "size_below_minimum"
          /\ (Size(d, p) <= 0 \/ Size(d, p) * d.price < MinNotional)}

Approves(d, p) == ~Unanswerable(d, p) /\ Reasons(d, p) = {}

(* The order of an approved decision. *)
OrderFor(d, p) ==
  [symbol |-> d.symbol, direction |-> d.direction, size |-> Size(d, p),
   levels |-> [stop |-> ResolveStop(d), target |-> d.target, trail |-> TrailPct]]

(* handle(PortfolioSnapshot) *)
OnSnapshot(p) == portfolio' = p

NoPortfolioYet == portfolio = NoSnapshot

-----------------------------------------------------------------------------
(* Properties: of any decision, at any time. *)

(* RiskSettings.risk_per_trade_pct: if its stop is hit at its price, an    *)
(* approved order loses no more than the risk budget, whichever cap, stop  *)
(* or rounding decided its size.                                           *)
RiskWithinBudget ==
  \A d \in Decisions : Approves(d, portfolio) =>
    100 * Size(d, portfolio) * StopDistance(d) <= RiskPct * portfolio.equity

(* RiskSettings.max_portfolio_leverage and max_position_notional: by the   *)
(* latest snapshot, the order leaves the portfolio within its leverage and *)
(* is itself within the notional cap.                                      *)
ExposureWithinLimits ==
  \A d \in Decisions : Approves(d, portfolio) =>
    LET notional == Size(d, portfolio) * d.price
    IN  /\ notional <= MaxNotional
        /\ portfolio.gross + notional <= MaxLeverage * portfolio.equity

(* A suggested stop on the wrong side, or none, never reaches an order:    *)
(* its stop is at a loss.                                                  *)
StopIsALoss ==
  \A d \in Decisions : Approves(d, portfolio) =>
    IF d.direction = "long" THEN ResolveStop(d) < d.price ELSE ResolveStop(d) > d.price
=============================================================================
