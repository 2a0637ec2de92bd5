-------------------------- MODULE PortfolioManager --------------------------
(***************************************************************************)
(* The portfolio manager (services/agents/portfolio_manager/tracker.py):   *)
(* PortfolioTracker's accounting, and how PortfolioManagerAgent persists   *)
(* and publishes it.                                                       *)
(*                                                                         *)
(* A fill changes the account in memory; then the agent awaits up to three *)
(* statements, one transaction each: the position, its closure, the        *)
(* account.  todo holds the statements still to run.  A statement that     *)
(* raises ends handle(): neither the other statements nor the publications *)
(* happen.  A crash can come between any two of them, and so can stop(),   *)
(* which a signal runs in a task of its own (common/base_agent.py): it     *)
(* saves the account and closes the pool under whatever is under way.      *)
(*                                                                         *)
(* Prices and money are integers; a configuration takes prices that are    *)
(* multiples of a scale on which every average entry price is exact.       *)
(***************************************************************************)
EXTENDS Integers, Sequences, FiniteSets, Sums, TLC

CONSTANTS
  Symbols,         \* the symbols traded
  Prices,          \* prices of fills and marks
  Sizes,           \* sizes of fills
  Fees,            \* fees of fills
  OrderIds,        \* identities of orders
  Levels,          \* the [stop, target, trail] an order may attach
  StartingEquity,  \* PaperSettings.starting_equity
  MaxFills,        \* bound: fills the broker publishes
  MaxDay,          \* bound: UTC days
  MaxDbFailures,   \* bound: failing statements
  MaxStarts        \* bound: process starts

Directions == {"long", "short"}
Fill == [order : OrderIds, symbol : Symbols, direction : Directions, size : Sizes,
         price : Prices, fee : Fees]
Unprotected == [stop |-> 0, target |-> 0, trail |-> 0]

ASSUME PortfolioAssumption ==
  /\ Prices \subseteq Nat \ {0} /\ Sizes \subseteq Nat \ {0} /\ Fees \subseteq Nat
  /\ StartingEquity \in Nat \ {0}
  /\ MaxFills \in Nat /\ MaxDay \in Nat /\ MaxDbFailures \in Nat /\ MaxStarts \in Nat \ {0}

VARIABLES
  account,    \* cash, day_start_equity, realized_pnl, fees_paid, counters, day
  holdings,   \* _positions: dict of Position by symbol
  orders,     \* _orders: dict of the levels of the orders seen, by order id
  today,      \* the UTC date
  todo,       \* statements of _persist_after_fill still to run
  outbox,     \* publications handle() is about to return or returned
  stateRow,   \* the portfolio_state row
  table,      \* the positions table
  closures,   \* the position_closures table, a count
  log,        \* the fills topic
  position,   \* fills the consumer has handed out
  committed,  \* fills the consumer group has committed
  up,         \* the process runs
  connected,  \* _repository is not None
  stopping,   \* stop(): "no", "asked" (_stopping is set), "saving", "closing"
  looping,    \* run() has not left its loop
  missed,     \* history: a statement of this process failed or was refused
  seen,       \* history: fills applied at least once, by this or an earlier process
  published,  \* history: closures published
  built,      \* history: closures apply_fill built
  dbFailures, starts

memory  == <<account, holdings, orders>>
tables  == <<stateRow, table, closures>>
bus     == <<log, position, committed>>
life    == <<up, connected, stopping, looping, missed>>
history == <<seen, published, built, dbFailures, starts>>
vars == <<memory, today, todo, outbox, tables, bus, life, history>>

-----------------------------------------------------------------------------
(* PortfolioTracker. *)

Sign(d) == IF d = "long" THEN 1 ELSE -1
Smaller(a, b) == IF a < b THEN a ELSE b

Without(f, s) == [x \in DOMAIN f \ {s} |-> f[x]]
With(f, s, v) == [x \in DOMAIN f \cup {s} |-> IF x = s THEN v ELSE f[x]]

Unrealized(h, s) == (h[s].mark - h[s].entry) * h[s].size * Sign(h[s].direction)
Equity(a, h) == a.cash + SumOf([s \in DOMAIN h |-> Unrealized(h, s)])

(* _roll_day *)
RollDay(a, h) ==
  IF a.day = today THEN a ELSE [a EXCEPT !.day = today, !.dayStart = Equity(a, h)]

(* Seeded fault: what is left of a flip opens at the size of the fill. *)
OpenedWhole(f, size, levels) ==
  [direction |-> f.direction, size |-> f.size, entry |-> f.price, mark |-> f.price,
   realized |-> 0, fees |-> f.fee, levels |-> levels]

(* _open *)
Opened(f, size, levels) ==
  [direction |-> f.direction, size |-> size, entry |-> f.price, mark |-> f.price,
   realized |-> 0, fees |-> f.fee, levels |-> levels]

(* Seeded fault: the new fill's price counts once, whatever its size. *)
AddedUnweighted(h, f) ==
  [h EXCEPT !.size = @ + f.size, !.entry = (@ + f.price) \div 2, !.mark = f.price,
            !.fees = @ + f.fee]

(* _add: the volume-weighted average entry. *)
Added(h, f) ==
  [h EXCEPT !.size = @ + f.size,
            !.entry = (@ * h.size + f.price * f.size) \div (h.size + f.size),
            !.mark = f.price, !.fees = @ + f.fee]

(* _reduce_or_flip: the size the fill closes, and what that realises. *)
Closed(h, f) == Smaller(h.size, f.size)
Realized(h, f) == (f.price - h.entry) * Closed(h, f) * Sign(h.direction)

Reduced(h, f) ==
  [h EXCEPT !.size = @ - Closed(h, f), !.mark = f.price,
            !.realized = @ + Realized(h, f), !.fees = @ + f.fee]

Opposes(h, f) == f.symbol \in DOMAIN h /\ h[f.symbol].direction # f.direction

GoesFlat(h, f) == Opposes(h, f) /\ h[f.symbol].size <= f.size

(* apply_fill on the positions: open with the levels of the order, if it   *)
(* is known, add, reduce, close, or flip, which leaves the rest without.   *)
LevelsOf(f) == IF f.order \in DOMAIN orders THEN orders[f.order] ELSE Unprotected
HoldingsAfter(h, f) ==
  LET s == f.symbol
  IN  IF s \notin DOMAIN h THEN With(h, s, Opened(f, f.size, LevelsOf(f)))
      ELSE IF ~Opposes(h, f) THEN With(h, s, Added(h[s], f))
      ELSE IF ~GoesFlat(h, f) THEN With(h, s, Reduced(h[s], f))
      ELSE IF f.size > h[s].size THEN With(h, s, Opened(f, f.size - h[s].size, Unprotected))
      ELSE Without(h, s)

(* apply_fill on the account: the fee, the realised PnL, the counters. *)
AccountAfter(a, h, f) ==
  LET pnl == IF Opposes(h, f) THEN Realized(h[f.symbol], f) ELSE 0
  IN  [RollDay(a, h) EXCEPT
         !.cash = @ - f.fee + pnl,
         !.fees = @ + f.fee,
         !.realized = @ + pnl,
         !.trades = @ + 1,
         !.wins = IF pnl > 0 THEN @ + 1 ELSE @,
         !.losses = IF pnl < 0 THEN @ + 1 ELSE @]

-----------------------------------------------------------------------------
(* PortfolioManagerAgent: statements and publications. *)

SavePosition(h, s) ==
  IF s \in DOMAIN h THEN [op |-> "save", symbol |-> s, row |-> h[s]]
                    ELSE [op |-> "delete", symbol |-> s]
RecordClosure == [op |-> "closure"]
SaveState == [op |-> "state"]
Load == [op |-> "load"]
Resave == [op |-> "resave"]

(* Without a repository there is nothing to await. *)
Statements(h, f) ==
  LET save == SavePosition(HoldingsAfter(h, f), f.symbol)
  IN  IF ~connected THEN << >>
      ELSE IF GoesFlat(h, f) THEN <<save, RecordClosure, SaveState>> ELSE <<save, SaveState>>

Publications(h, f) == IF GoesFlat(h, f) THEN <<"closure", "snapshot">> ELSE <<"snapshot">>

(* handle(OrderIntent): remember it, so a closure knows its reason and a   *)
(* position its levels. *)
OnOrder(id, levels) ==
  /\ orders' = With(orders, id, levels)
  /\ UNCHANGED <<account, holdings>>

(* handle(Fill): take its order from the cache and apply it in memory. *)
Apply(f) ==
  /\ account' = AccountAfter(account, holdings, f)
  /\ holdings' = HoldingsAfter(holdings, f)
  /\ orders' = Without(orders, f.order)

(* ...then _persist_after_fill, then publish. *)
OnFill(f) ==
  /\ Apply(f)
  /\ todo' = Statements(holdings, f)
  /\ outbox' = Publications(holdings, f)
  /\ built' = IF GoesFlat(holdings, f) THEN built + 1 ELSE built

(* handle(OrderBookSnapshot): mark() a held position at the mid price;     *)
(* snapshot() rolls the day, if the publication is not throttled.          *)
OnBook(s, price) ==
  LET marked == [holdings EXCEPT ![s].mark = price]
  IN  /\ s \in DOMAIN holdings
      /\ holdings' = marked
      /\ \/ account' = RollDay(account, marked) /\ outbox' = <<"snapshot">>
         \/ UNCHANGED <<account, outbox>>
      /\ UNCHANGED orders

(* One statement succeeds. *)
Execute(st) ==
  /\ stateRow' = IF st.op \in {"state", "resave"} THEN account ELSE stateRow
  /\ table' = CASE st.op = "save"   -> With(table, st.symbol, st.row)
                [] st.op = "delete" -> Without(table, st.symbol)
                [] OTHER            -> table
  /\ closures' = IF st.op = "closure" THEN closures + 1 ELSE closures

(* Seeded fault: restore() keeps the cash and forgets the fees paid. *)
RestoreWithoutFees == account' = [stateRow EXCEPT !.fees = 0] /\ holdings' = table

(* Seeded fault: restore() takes the equity of now for the baseline. *)
RestoreRebased ==
  account' = [stateRow EXCEPT !.dayStart = Equity(stateRow, table)] /\ holdings' = table

(* restore() *)
Restore == account' = stateRow /\ holdings' = table

-----------------------------------------------------------------------------
(* The process, its topic and its database. *)

Fresh == [cash |-> StartingEquity, dayStart |-> StartingEquity, realized |-> 0,
          fees |-> 0, trades |-> 0, wins |-> 0, losses |-> 0, day |-> 1]

(* A first start: on_start() has saved the fresh account and returned. *)
Init ==
  /\ account = Fresh
  /\ holdings = << >>
  /\ orders = << >>
  /\ today = 1
  /\ todo = << >> /\ outbox = << >>
  /\ stateRow = Fresh
  /\ table = << >>
  /\ closures = 0
  /\ log = << >> /\ position = 0 /\ committed = 0
  /\ up = TRUE /\ connected = TRUE /\ stopping = "no" /\ looping = TRUE /\ missed = FALSE
  /\ seen = {} /\ published = 0 /\ built = 0
  /\ dbFailures = 0 /\ starts = 1

Idle == up /\ todo = << >> /\ outbox = << >>
Taking == Idle /\ looping /\ stopping = "no"

(* The broker publishes a fill; this model lets it when the last is taken. *)
NewFill ==
  /\ position = Len(log) /\ Len(log) < MaxFills
  /\ \E f \in Fill : log' = Append(log, f)
  /\ UNCHANGED <<memory, today, todo, outbox, tables, position, committed, life, history>>

TakeFill ==
  /\ Taking /\ position < Len(log)
  /\ position' = position + 1
  /\ seen' = seen \cup {position + 1}
  /\ OnFill(log[position + 1])
  /\ UNCHANGED <<today, tables, log, committed, life, published, dbFailures, starts>>

TakeOrder ==
  /\ Taking
  /\ \E id \in OrderIds, levels \in Levels : OnOrder(id, levels)
  /\ UNCHANGED <<today, todo, outbox, tables, bus, life, history>>

TakeBook ==
  /\ Taking
  /\ \E s \in Symbols, price \in Prices : OnBook(s, price)
  /\ UNCHANGED <<today, todo, tables, bus, life, history>>

(* on_start() is at its statements; nothing is restored before the first.  *)
Loading == todo # << >> /\ todo[1].op = "load"
Starting == todo # << >> /\ todo[1].op \in {"load", "resave"}

(* Seeded fault: the account is saved only with a closure. *)
StatementNoState ==
  /\ up /\ todo # << >>
  /\ IF todo[1].op = "state" /\ outbox # << >> /\ outbox[1] # "closure"
     THEN UNCHANGED tables ELSE Execute(todo[1])
  /\ IF Loading THEN Restore
     ELSE account' = (IF Len(todo) = 1 THEN RollDay(account, holdings) ELSE account) /\ UNCHANGED holdings
  /\ todo' = Tail(todo)
  /\ UNCHANGED <<orders, today, outbox, bus, life, history>>

(* The awaited statement returns.  After the last one the handler, or      *)
(* on_start(), goes on to snapshot(), which rolls the day.                 *)
Statement ==
  /\ up /\ todo # << >> /\ (stopping = "closing" => Len(todo) = 1)
  /\ Execute(todo[1])
  /\ todo' = Tail(todo)
  /\ IF Loading THEN Restore
     ELSE /\ account' = IF Len(todo) = 1 THEN RollDay(account, holdings) ELSE account
          /\ UNCHANGED holdings
  /\ UNCHANGED <<orders, today, outbox, bus, life, history>>

(* What follows a statement that raised: on_error() logs it and the loop   *)
(* goes on, but on_start() has no such net: the process ends.              *)
Abandon ==
  /\ todo' = << >> /\ outbox' = << >>
  /\ missed' = TRUE
  /\ up' = ~Starting
  /\ UNCHANGED <<connected, stopping, looping>>

StatementFails ==
  /\ up /\ todo # << >> /\ dbFailures < MaxDbFailures
  /\ dbFailures' = dbFailures + 1
  /\ Abandon
  /\ UNCHANGED <<memory, today, tables, bus, seen, published, built, starts>>

(* The pool is closing: the statement it is at returns, the next one is    *)
(* refused. *)
StatementRefused ==
  /\ up /\ Len(todo) > 1 /\ stopping = "closing"
  /\ Execute(todo[1])
  /\ Abandon
  /\ UNCHANGED <<memory, today, bus, history>>

Publish ==
  /\ up /\ todo = << >> /\ outbox # << >>
  /\ published' = IF outbox[1] = "closure" THEN published + 1 ELSE published
  /\ outbox' = Tail(outbox)
  /\ UNCHANGED <<memory, today, todo, tables, bus, life, seen, built, dbFailures, starts>>

AutoCommit ==
  /\ up /\ committed' = position
  /\ UNCHANGED <<memory, today, todo, outbox, tables, log, position, life, history>>

Midnight ==
  /\ today < MaxDay /\ today' = today + 1
  /\ UNCHANGED <<memory, todo, outbox, tables, bus, life, history>>

Crash ==
  /\ up /\ starts < MaxStarts
  /\ up' = FALSE
  /\ todo' = << >> /\ outbox' = << >>
  /\ UNCHANGED <<memory, today, tables, bus, connected, stopping, looping, missed, history>>

(* A signal starts stop(), whatever is under way. *)
AskStop ==
  /\ up /\ stopping = "no" /\ starts < MaxStarts
  /\ stopping' = "saving"
  /\ UNCHANGED <<memory, today, todo, outbox, tables, bus, up, connected, looping, missed, history>>

(* on_stop(): the account is saved, and the pool starts to close. *)
StopSaves ==
  /\ up /\ stopping = "saving"
  /\ stateRow' = IF connected THEN account ELSE stateRow
  /\ stopping' = "closing"
  /\ UNCHANGED <<memory, today, todo, outbox, table, closures, bus, up, connected, looping, missed,
                 history>>

(* The statement of on_stop() raises.  The task of the signal ends with it *)
(* and leaves the loop running; in run() it ends the process.              *)
StopSaveFails ==
  /\ up /\ stopping = "saving" /\ connected /\ dbFailures < MaxDbFailures
  /\ dbFailures' = dbFailures + 1
  /\ stopping' = "asked"
  /\ up' = looping
  /\ UNCHANGED <<memory, today, todo, outbox, tables, bus, connected, looping, missed,
                 seen, published, built, starts>>

(* The loop finds _stopping set, when the next message is in its hands: it *)
(* leaves without handling it, and run() stops again.                      *)
LeaveLoop ==
  /\ Idle /\ looping /\ stopping # "no"
  /\ looping' = FALSE
  /\ position' \in position .. Smaller(position + 1, Len(log))
  /\ stopping' = IF stopping = "asked" THEN "saving" ELSE stopping
  /\ UNCHANGED <<memory, today, todo, outbox, tables, log, committed, up, connected, missed, history>>

(* The consumer commits what it has handed out, unless run() ends first;   *)
(* the producer stops under what is still to be published.                 *)
Exit ==
  /\ up /\ stopping = "closing" /\ todo = << >>
  /\ up' = FALSE
  /\ outbox' = << >>
  /\ committed' \in {committed, position}
  /\ UNCHANGED <<memory, today, todo, tables, log, position, connected, stopping, looping, missed,
                 history>>

(* on_start(): restore() from the tables, save the account, and publish a  *)
(* snapshot; or, where no database answers, go on with a fresh account.    *)
Start ==
  /\ ~up
  /\ up' = TRUE /\ stopping' = "no" /\ looping' = TRUE /\ missed' = FALSE
  /\ connected' \in BOOLEAN
  /\ starts' = starts + 1
  /\ position' = committed
  /\ account' = [Fresh EXCEPT !.day = today]
  /\ holdings' = << >>
  /\ orders' = << >>
  /\ todo' = IF connected' THEN <<Load, Resave>> ELSE << >>
  /\ outbox' = <<"snapshot">>
  /\ UNCHANGED <<today, tables, log, committed, seen, published, built, dbFailures>>

Next ==
  \/ NewFill \/ TakeFill \/ TakeOrder \/ TakeBook
  \/ Statement \/ StatementFails \/ StatementRefused \/ Publish
  \/ AutoCommit \/ Midnight \/ Crash
  \/ AskStop \/ StopSaves \/ StopSaveFails \/ LeaveLoop \/ Exit \/ Start

Spec == Init /\ [][Next]_vars

-----------------------------------------------------------------------------
(* Properties. *)

(* What a set of fills amounts to, each counted once. *)
Exposure(s, fills) ==
  SumOf([i \in fills |-> IF log[i].symbol = s THEN Sign(log[i].direction) * log[i].size ELSE 0])
Invested == SumOf([i \in seen |-> Sign(log[i].direction) * log[i].size * log[i].price])
Charged == SumOf([i \in seen |-> log[i].fee])

Held(h, s) == IF s \in DOMAIN h THEN Sign(h[s].direction) * h[s].size ELSE 0
Worth == SumOf([s \in DOMAIN holdings |-> Held(holdings, s) * holdings[s].mark])

(* "Positions net per symbol": through opens, adds, reductions, closes and *)
(* flips a position is the sum of the fills.                               *)
NetsPerSymbol == starts = 1 => \A s \in Symbols : Held(holdings, s) = Exposure(s, seen)

(* The accounting model of the module comment: equity, reached through     *)
(* average entries, realised parts and flips, is what the fills cost and   *)
(* the positions are worth at their marks, as long as no restart replays   *)
(* or loses a fill.                                                        *)
EquityIsMarkToMarket ==
  starts = 1 => Equity(account, holdings) = StartingEquity - Charged - Invested + Worth

(* "Realised PnL is always net of costs": cash is what was realised less   *)
(* the fees, also in an account rebuilt after a crash at any statement.    *)
CashIdentity ==
  /\ account.cash = StartingEquity + account.realized - account.fees
  /\ stateRow.cash = StartingEquity + stateRow.realized - stateRow.fees

(* repositories.py on load_state(): "everything needed to rebuild the      *)
(* in-memory tracker exactly".  Unless a statement of this process failed, *)
(* or stop() closed the pool on one, the tables are the tracker whenever   *)
(* no statement waits: the positions but for their marks, the account, and *)
(* the baseline once its day is saved; and every closure apply_fill built  *)
(* is recorded and published once.                                         *)
Unmarked(h) == [s \in DOMAIN h |-> [h[s] EXCEPT !.mark = 0]]
Undated(a) == [a EXCEPT !.dayStart = 0, !.day = 1]
TablesFollow ==
  (up /\ connected /\ todo = << >> /\ ~missed) =>
    /\ Unmarked(table) = Unmarked(holdings)
    /\ Undated(stateRow) = Undated(account)
    /\ stateRow.day = account.day => stateRow.dayStart = account.dayStart
    /\ starts = 1 => closures = built /\ (outbox = << >> => published = built)

(* The daily loss limit is measured from day_start_equity.  A baseline     *)
(* that reached the table is that of its whole UTC day, in the table and   *)
(* in every process that reads it, through failed statements, crashes and  *)
(* restarts; except that a stop() which overtakes restore() saves the      *)
(* account nobody has restored yet.                                        *)
SavedBaselineStands ==
  [][/\ stateRow'.dayStart # stateRow.dayStart => stateRow'.day > stateRow.day \/ Loading
     /\ (up' /\ connected' /\ ~Loading' /\ account'.day = stateRow'.day) =>
          account'.dayStart = stateRow'.dayStart]_vars

(* repositories.py: "a replayed fill must not be double-counted". *)
ReplayedFillCountsOnce == account.trades <= Cardinality(seen)

=============================================================================
