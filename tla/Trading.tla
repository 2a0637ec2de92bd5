------------------------------- MODULE Trading -------------------------------
(***************************************************************************)
(* The execution chain: risk manager, paper broker, portfolio manager and  *)
(* position monitor, each a process of its own, connected by the topics    *)
(* risk.orders (OrderIntent), exec.fills (Fill) and portfolio.snapshots.   *)
(*                                                                         *)
(* A topic delivers its messages in order, to each consumer at its own     *)
(* pace; nothing orders the messages of two topics.  inbox[c][t] is what   *)
(* consumer c has still to take from topic t.                              *)
(*                                                                         *)
(* No process crashes here and persistence is off: PositionMonitor and     *)
(* PortfolioManager are about that.                                        *)
(***************************************************************************)
EXTENDS Integers, Sequences, FiniteSets, Sums, TLC

CONSTANTS
  Symbols, Prices,
  Decisions,       \* the decisions the decision engine may send
  Depths,          \* the size on either side of a book
  CausalDelivery,  \* TRUE: the monitor takes an order before its fill, a fill
                   \* before a snapshot, and the portfolio an order before its fill
  MaxDecisions,    \* bound: decisions sent
  MaxOrders,       \* bound: orders, opening and exit, sent
  MaxMarks,        \* bound: snapshots published because a book moved a mark
  MaxSize,         \* bound: size the monitor tracks
  MaxNow,          \* bound: the clock of the book age
  MaxBookAge,
  StartingEquity, MaxOpen, RiskPct, MaxNotional, MaxLeverage

OrderIds == 1..MaxOrders
Unprotected == [stop |-> 0, target |-> 0, trail |-> 0]

ASSUME TradingAssumption ==
  /\ CausalDelivery \in BOOLEAN
  /\ {MaxDecisions, MaxOrders, MaxMarks, MaxNow} \subseteq Nat

VARIABLES
  portfolio,                          \* risk manager
  books, now,                         \* paper broker
  account, holdings, orders,          \* portfolio manager
  guarded, pendingOrders, exits,      \* position monitor
  store, outstanding,                 \* position monitor: see PositionMonitor
  inbox,                              \* messages under way
  sent,                               \* orders sent
  exitOrders,                         \* history: the reduce-only ones among them
  taken,                              \* history: fills the monitor has taken
  late,                               \* history: symbols with an Unsettled fill, until a
                                      \* snapshot of the fills taken is reconciled
  misled,                             \* history: symbols of a fill on top of such a one, or
                                      \* of a Mistaken snapshot
  decided, marks                      \* bounds: decisions and marks so far

riskVars == <<portfolio>>
brokerVars == <<books, now>>
portfolioVars == <<account, holdings, orders>>
monitorVars == <<guarded, pendingOrders, exits, store, outstanding>>
bounds == <<decided, marks>>
sending == <<sent, exitOrders>>
errors == <<taken, late, misled>>
vars == <<riskVars, brokerVars, portfolioVars, monitorVars, inbox, sending, errors, bounds>>

Risk == INSTANCE RiskManager WITH
  MinConfidence <- 50, DailyLossPct <- 3, MinNotional <- 1, DefaultStopPct <- 10,
  MinStopPct <- 1, TrailPct <- 0

Broker == INSTANCE PaperBroker WITH OrderSizes <- {}, Slippage <- 0, Fee <- 0

Port == INSTANCE PortfolioManager WITH
  Sizes <- 1..MaxSize, Fees <- {0}, Levels <- {}, MaxFills <- 0, MaxDay <- 1,
  MaxDbFailures <- 0, MaxStarts <- 1, today <- 1, todo <- << >>, outbox <- << >>,
  stateRow <- << >>, table <- << >>, closures <- 0, log <- << >>, position <- 0,
  committed <- 0, up <- TRUE, connected <- FALSE, stopping <- "no", looping <- TRUE,
  missed <- FALSE, seen <- {}, published <- 0, built <- 0, dbFailures <- 0, starts <- 1

Monitor == INSTANCE PositionMonitor WITH
  Protections <- [d \in {"long", "short"} |-> {}], DefaultTrail <- 0,
  MaxDbFailures <- 0, MaxCrashes <- 0,
  positions <- guarded, outbox <- exits, up <- TRUE, dbFailures <- 0, crashes <- 0

-----------------------------------------------------------------------------
(* The bus. *)

Consumes == [risk |-> {"snapshots"}, broker |-> {"orders"},
             portfolio |-> {"orders", "fills"}, monitor |-> {"orders", "fills", "snapshots"}]
Agents == DOMAIN Consumes

(* The inboxes once the messages of the sequence msgs are published on t.  *)
Published(box, t, msgs) ==
  [c \in Agents |-> [u \in Consumes[c] |-> IF u = t THEN box[c][u] \o msgs ELSE box[c][u]]]

Taken(c, t) == [inbox EXCEPT ![c][t] = Tail(@)]
Waiting(c, t) == inbox[c][t] # << >>
Next1(c, t) == Head(inbox[c][t])

(* What causal delivery holds back. *)
NotOvertaken(c, ahead) == CausalDelivery => \A t \in ahead : ~Waiting(c, t)

(* The snapshot of the portfolio h, as the consumers read it; the trades   *)
(* say which fills it includes. *)
Snapshot(a, h) ==
  [equity |-> Port!Equity(a, h), dayStart |-> a.dayStart, trades |-> a.trades,
   gross |-> SumOf([s \in DOMAIN h |-> h[s].size * h[s].mark]), positions |-> h]

-----------------------------------------------------------------------------
(* Risk manager. *)

Sendable == sent + Len(exits) < MaxOrders

RiskDecides(d) ==
  /\ decided < MaxDecisions /\ decided' = decided + 1
  /\ IF Risk!Approves(d, portfolio)
     THEN LET o == Risk!OrderFor(d, portfolio)
          IN  /\ Sendable /\ sent' = sent + 1
              /\ inbox' = Published(inbox, "orders",
                   <<[id |-> sent + 1, symbol |-> o.symbol, direction |-> o.direction,
                      size |-> o.size, levels |-> o.levels, reduceOnly |-> FALSE]>>)
     ELSE UNCHANGED <<sent, inbox>>
  /\ UNCHANGED <<riskVars, brokerVars, portfolioVars, monitorVars, exitOrders, errors, marks>>

RiskSnapshot ==
  /\ Waiting("risk", "snapshots")
  /\ LET s == Next1("risk", "snapshots")
     IN  Risk!OnSnapshot([known |-> TRUE, equity |-> s.equity, dayStart |-> s.dayStart,
                          gross |-> s.gross,
                          held |-> [x \in DOMAIN s.positions |-> s.positions[x].direction]])
  /\ inbox' = Taken("risk", "snapshots")
  /\ UNCHANGED <<brokerVars, portfolioVars, monitorVars, sending, errors, bounds>>

-----------------------------------------------------------------------------
(* Paper broker. *)

Book(price, depth) ==
  [asks |-> <<[price |-> price, size |-> depth]>>,
   bids |-> <<[price |-> price, size |-> depth]>>, at |-> now]

BrokerBook(s, price, depth) ==
  /\ Broker!OnBook(s, Book(price, depth))
  /\ UNCHANGED <<riskVars, portfolioVars, monitorVars, inbox, sending, errors, bounds>>

(* An order that is rejected leaves no trace. *)
BrokerOrder ==
  /\ Waiting("broker", "orders")
  /\ LET o == Next1("broker", "orders")
         fills == IF Broker!Fills(o) THEN <<Broker!FillOf(o)>> ELSE << >>
     IN  inbox' = Published(Taken("broker", "orders"), "fills", fills)
  /\ UNCHANGED <<riskVars, brokerVars, portfolioVars, monitorVars, sending, errors, bounds>>

Clock ==
  /\ now < MaxNow /\ now' = now + 1
  /\ UNCHANGED <<riskVars, books, portfolioVars, monitorVars, inbox, sending, errors, bounds>>

-----------------------------------------------------------------------------
(* Portfolio manager. *)

PortfolioOrder ==
  /\ Waiting("portfolio", "orders")
  /\ LET o == Next1("portfolio", "orders") IN Port!OnOrder(o.id, o.levels)
  /\ inbox' = Taken("portfolio", "orders")
  /\ UNCHANGED <<riskVars, brokerVars, monitorVars, sending, errors, bounds>>

PortfolioFill ==
  /\ Waiting("portfolio", "fills") /\ NotOvertaken("portfolio", {"orders"})
  /\ Port!Apply(Next1("portfolio", "fills"))
  /\ inbox' = Published(Taken("portfolio", "fills"), "snapshots",
                        <<Snapshot(account', holdings')>>)
  /\ UNCHANGED <<riskVars, brokerVars, monitorVars, sending, errors, bounds>>

(* A book moves the mark of a position; the snapshot may be throttled. *)
PortfolioMark(s, price) ==
  /\ s \in DOMAIN holdings
  /\ marks < MaxMarks /\ marks' = marks + 1
  /\ holdings' = [holdings EXCEPT ![s].mark = price]
  /\ \/ inbox' = Published(inbox, "snapshots", <<Snapshot(account, holdings')>>)
     \/ UNCHANGED inbox
  /\ UNCHANGED <<riskVars, brokerVars, account, orders, monitorVars, sending, errors, decided>>

-----------------------------------------------------------------------------
(* Position monitor. *)

(* The run loop publishes before it takes the next event. *)
MonitorIdle == exits = << >>

MonitorOrder ==
  /\ MonitorIdle /\ Waiting("monitor", "orders")
  /\ Monitor!OnOrder(Next1("monitor", "orders"))
  /\ inbox' = Taken("monitor", "orders")
  /\ UNCHANGED <<riskVars, brokerVars, portfolioVars, exits, sending, errors, bounds>>

(* A fill that the monitor cannot account for in full, and leaves to the   *)
(* next snapshot: an opening fill ahead of its order, or what is left of   *)
(* one that flips the position. *)
Unsettled(f) ==
  \/ f.symbol \notin DOMAIN guarded /\ f.order \notin DOMAIN pendingOrders
  \/ /\ f.symbol \in DOMAIN guarded /\ guarded[f.symbol].direction # f.direction
     /\ guarded[f.symbol].size < f.size

MonitorFill ==
  /\ MonitorIdle /\ Waiting("monitor", "fills") /\ NotOvertaken("monitor", {"orders"})
  /\ LET f == Next1("monitor", "fills")
     IN  /\ Monitor!OnFill(f)
         /\ late' = IF Unsettled(f) THEN late \cup {f.symbol} ELSE late
         /\ misled' = misled \cup (late \cap {f.symbol})
  /\ taken' = taken + 1
  /\ inbox' = Taken("monitor", "fills")
  /\ UNCHANGED <<riskVars, brokerVars, portfolioVars, exits, sending, bounds>>

(* The symbols where a snapshot changes what is guarded, though it is not  *)
(* of the fills the monitor has taken. *)
Mistaken(s) ==
  IF s.trades = taken THEN {}
  ELSE Monitor!Dropped(s.positions) \cup Monitor!Unguarded(s.positions)

MonitorSnapshot ==
  /\ MonitorIdle /\ Waiting("monitor", "snapshots")
  /\ NotOvertaken("monitor", {"orders", "fills"})
  /\ LET snapshot == Next1("monitor", "snapshots")
         p == snapshot.positions
     IN  /\ Monitor!OnSnapshot([s \in DOMAIN p |->
              [direction |-> p[s].direction, size |-> p[s].size, stop |-> p[s].levels.stop,
               target |-> p[s].levels.target, trail |-> p[s].levels.trail, mark |-> p[s].mark]])
         /\ misled' = misled \cup Mistaken(snapshot)
         /\ late' = IF snapshot.trades = taken THEN {} ELSE late
  /\ inbox' = Taken("monitor", "snapshots")
  /\ UNCHANGED <<riskVars, brokerVars, portfolioVars, exits, sending, taken, bounds>>

MonitorPrice(s, price) ==
  /\ MonitorIdle /\ Sendable
  /\ Monitor!OnPrice(s, price)
  /\ UNCHANGED <<riskVars, brokerVars, portfolioVars, inbox, sending, errors, bounds>>

MonitorPublish ==
  /\ exits # << >>
  /\ LET x == Head(exits)
     IN  inbox' = Published(inbox, "orders",
           <<[id |-> sent + 1, symbol |-> x.symbol, direction |-> x.direction,
              size |-> x.size, levels |-> Unprotected, reduceOnly |-> TRUE]>>)
  /\ exits' = Tail(exits)
  /\ sent' = sent + 1
  /\ exitOrders' = exitOrders \cup {sent + 1}
  /\ UNCHANGED <<riskVars, brokerVars, portfolioVars, guarded, pendingOrders, store,
                 outstanding, errors, bounds>>

-----------------------------------------------------------------------------

Init ==
  /\ Risk!NoPortfolioYet /\ Broker!NoBooksYet
  /\ account = Port!Fresh /\ holdings = << >> /\ orders = << >>
  /\ guarded = << >> /\ pendingOrders = << >> /\ exits = << >> /\ store = << >>
  /\ outstanding = [s \in Symbols |-> 0]
  /\ inbox = [c \in Agents |-> [t \in Consumes[c] |-> << >>]]
  /\ sent = 0 /\ exitOrders = {} /\ decided = 0 /\ marks = 0
  /\ taken = 0 /\ late = {} /\ misled = {}

Next ==
  \/ \E d \in Decisions : RiskDecides(d)
  \/ RiskSnapshot
  \/ \E s \in Symbols, price \in Prices, depth \in Depths : BrokerBook(s, price, depth)
  \/ BrokerOrder \/ Clock
  \/ PortfolioOrder \/ PortfolioFill
  \/ \E s \in Symbols, price \in Prices : PortfolioMark(s, price)
  \/ MonitorOrder \/ MonitorFill \/ MonitorSnapshot
  \/ \E s \in Symbols, price \in Prices : MonitorPrice(s, price)
  \/ MonitorPublish

Spec == Init /\ [][Next]_vars

(* Every process keeps taking what is published; nothing makes a decision, *)
(* a book or a tick come. *)
FairSpec ==
  /\ Spec
  /\ WF_vars(RiskSnapshot) /\ WF_vars(BrokerOrder)
  /\ WF_vars(PortfolioOrder) /\ WF_vars(PortfolioFill)
  /\ WF_vars(MonitorOrder) /\ WF_vars(MonitorFill) /\ WF_vars(MonitorSnapshot)
  /\ WF_vars(MonitorPublish)

-----------------------------------------------------------------------------
(* Properties. *)

Quiet == exits = << >> /\ \A c \in Agents : \A t \in Consumes[c] : ~Waiting(c, t)

(* Once the messages are through, every position is guarded, in its        *)
(* direction and at its size, and nothing else is, in whatever order the   *)
(* topics were read: a fill ahead of its order and what is left of a flip  *)
(* are adopted from the next snapshot, and a flip whose snapshot came too  *)
(* early (late) waits for one more.  Two things the code does not recover  *)
(* from are set aside (misled): a snapshot of other fills than the monitor *)
(* has taken that makes _reconcile drop or adopt, and a fill of a symbol   *)
(* where an earlier one still waits for its snapshot; _reconcile compares  *)
(* symbols, never sides or sizes, so no later snapshot corrects them.      *)
Guards(s) == IF s \in DOMAIN guarded THEN <<guarded[s].direction, guarded[s].size>> ELSE << >>
Holds(s) == IF s \in DOMAIN holdings THEN <<holdings[s].direction, holdings[s].size>> ELSE << >>
GuardsWhatIsHeld == Quiet => \A s \in Symbols \ (misled \cup late) : Guards(s) = Holds(s)

(* trading.py on reduce_only: "whether the order may only reduce": the     *)
(* fill of an exit order never opens, adds to or flips a position.         *)
ExitFillApplied ==
  /\ Waiting("portfolio", "fills") /\ Next1("portfolio", "fills").order \in exitOrders
  /\ inbox'["portfolio"]["fills"] = Tail(inbox["portfolio"]["fills"])
ReduceOnlyReduces ==
  [][ExitFillApplied =>
       \A s \in DOMAIN holdings' :
         /\ s \in DOMAIN holdings /\ holdings[s].direction = holdings'[s].direction
         /\ holdings'[s].size <= holdings[s].size]_vars

(* An exit the monitor waits for is answered: no symbol stays guarded with *)
(* exit_pending set, in which state no breach fires another.               *)
ExitIsAnswered ==
  \A s \in Symbols :
    (s \in DOMAIN guarded /\ guarded[s].exitPending)
      ~> (s \notin DOMAIN guarded \/ ~guarded[s].exitPending)

=============================================================================
