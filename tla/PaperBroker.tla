----------------------------- MODULE PaperBroker -----------------------------
(***************************************************************************)
(* The paper broker (services/agents/execution/paper_broker.py): it keeps  *)
(* the latest order book of each symbol and fills an order against it, in  *)
(* part if the book is too thin, and not at all, without a word on any     *)
(* topic, if it has no book, a stale one or an empty side.                 *)
(***************************************************************************)
EXTENDS Integers, Sequences, Sums

CONSTANTS
  OrderSizes,   \* the sizes of the orders that may come
  MaxBookAge,   \* PaperSettings.max_book_age_s
  Slippage,     \* slippage_bps
  Fee           \* taker_fee_bps

Bps == 10000

ASSUME BrokerAssumption ==
  /\ OrderSizes \subseteq Nat \ {0}
  /\ {MaxBookAge, Fee} \subseteq Nat /\ Slippage \in 0..Bps

VARIABLES
  books,  \* _books: dict of order books by symbol
  now     \* the wall clock

(* A book: its sides are sequences of [price, size], best level first. *)

(* Seeded fault: a level is taken whole. *)
TakenWhole(levels, size) ==
  [i \in 1..Len(levels) |-> levels[i].size]

(* walk_book: what the order takes of each level, best first. *)
Taken(levels, size) ==
  LET left[i \in 0..Len(levels)] ==
        IF i = 0 THEN size
        ELSE LET rest == left[i - 1]
             IN  IF rest <= levels[i].size THEN 0 ELSE rest - levels[i].size
  IN  [i \in 1..Len(levels) |-> left[i - 1] - left[i]]

Filled(levels, size) == SumOf(Taken(levels, size))
Notional(levels, size) ==
  LET taken == Taken(levels, size)
  IN  SumOf([i \in 1..Len(levels) |-> taken[i] * levels[i].price])

(* Seeded fault: an order takes the other side of the book. *)
SideSwapped(o) == IF o.direction = "long" THEN books[o.symbol].bids ELSE books[o.symbol].asks

Side(o) == IF o.direction = "long" THEN books[o.symbol].asks ELSE books[o.symbol].bids

(* simulate_fill: the orders FillRejected is not raised for. *)
Fills(o) ==
  /\ o.symbol \in DOMAIN books
  /\ now - books[o.symbol].at <= MaxBookAge
  /\ Filled(Side(o), o.size) > 0

(* quantize(ROUND_HALF_UP) of the non-negative a / b. *)
Rounded(a, b) == (2 * a + b) \div (2 * b)

(* The average book price, worse by the slippage, to the quantum. *)
FillPrice(o) ==
  LET worse == IF o.direction = "long" THEN Bps + Slippage ELSE Bps - Slippage
  IN  Rounded(Notional(Side(o), o.size) * worse, Filled(Side(o), o.size) * Bps)

FillOf(o) ==
  LET filled == Filled(Side(o), o.size)
  IN  [order |-> o.id, symbol |-> o.symbol, direction |-> o.direction, size |-> filled,
       price |-> FillPrice(o), fee |-> Rounded(filled * FillPrice(o) * Fee, Bps)]

(* handle(OrderBookSnapshot) *)
OnBook(s, book) ==
  /\ books' = [x \in DOMAIN books \cup {s} |-> IF x = s THEN book ELSE books[x]]
  /\ UNCHANGED now

NoBooksYet == books = << >> /\ now = 0

-----------------------------------------------------------------------------
(* Properties: of any order, against the books as they are. *)

Orders == [id : {1}, symbol : DOMAIN books, direction : {"long", "short"}, size : OrderSizes]

(* What n units of a side cost if any n of them may be taken. *)
Allocations(levels, n) ==
  {take \in [1..Len(levels) -> 0..n] :
     /\ \A i \in 1..Len(levels) : take[i] <= levels[i].size
     /\ SumOf(take) = n}
CostOf(levels, take) ==
  SumOf([i \in 1..Len(levels) |-> take[i] * levels[i].price])

(* walk_book takes the cheapest asks, or the dearest bids, there are: the  *)
(* book can fill what it took at its cost, no other choice of as many      *)
(* units is better for the order, and it leaves nothing it could have had. *)
WalkIsBest ==
  \A o \in Orders :
    LET levels == Side(o)
        n == Filled(levels, o.size)
    IN  /\ n <= o.size
        /\ n < o.size => Allocations(levels, n + 1) = {}
        /\ \E take \in Allocations(levels, n) :
             CostOf(levels, take) = Notional(levels, o.size)
        /\ \A take \in Allocations(levels, n) :
             IF o.direction = "long" THEN CostOf(levels, take) >= Notional(levels, o.size)
             ELSE CostOf(levels, take) <= Notional(levels, o.size)

(* Of two orders of the same side the larger pays no better price, however *)
(* the average, the slippage and the quantum round.                        *)
SizeIsNeverRewarded ==
  \A o, q \in Orders :
    (Fills(o) /\ Fills(q) /\ o.symbol = q.symbol /\ o.direction = q.direction
       /\ o.size <= q.size)
      => IF o.direction = "long" THEN FillPrice(o) <= FillPrice(q)
         ELSE FillPrice(o) >= FillPrice(q)
=============================================================================
