------------------------------ MODULE BookFeed ------------------------------
(***************************************************************************)
(* HyperliquidOrderBookCollector                                           *)
(* (services/data_ingestion/market_data/hyperliquid_orderbook.py): the     *)
(* snapshots of one symbol's book, throttled.                              *)
(***************************************************************************)
EXTENDS WebSocketClient

CONSTANTS
  MinInterval,  \* min_publish_interval_s
  MaxTime,      \* bound: time
  MaxBooks      \* bound: snapshots the exchange sends

ASSUME BookAssumption == MinInterval \in Nat /\ MaxTime \in Nat /\ MaxBooks \in Nat

VARIABLES
  clock,         \* time.monotonic()
  sent,          \* external: snapshots sent so far
  lastPublished, \* _last_published of the symbol; -1 for none
  books,         \* the topic market.orderbook: [ver, at]
  newest         \* history: the last two-sided snapshot handled, and when

bookVars == <<clock, sent, lastPublished, books, newest, connection>>

Snapshot(v, sides) == [channel |-> "l2Book", ver |-> v, bids |-> "bids" \in sides,
                       asks |-> "asks" \in sides]

BookInit ==
  /\ clock = 0 /\ sent = 0 /\ lastPublished = -1 /\ books = << >>
  /\ newest = [ver |-> 0, at |-> 0]

(* The exchange sends a snapshot; a side of the book may be empty. *)
Quote ==
  /\ conn = "open" /\ wire = << >> /\ sent < MaxBooks
  /\ sent' = sent + 1
  /\ \E sides \in {{"bids"}, {"bids", "asks"}} : wire' = <<Snapshot(sent + 1, sides)>>
  /\ UNCHANGED <<clock, lastPublished, books, newest, conn, delay, outages>>

BookClock ==
  /\ clock < MaxTime /\ clock' = clock + 1
  /\ UNCHANGED <<sent, lastPublished, books, newest, connection>>

(* _should_publish *)
Throttled == lastPublished >= 0 /\ clock - lastPublished < MinInterval

(* Seeded fault: a throttled snapshot restarts the interval. *)
HandleBookStarving(f) ==
  /\ newest' = IF f.bids /\ f.asks THEN [ver |-> f.ver, at |-> clock] ELSE newest
  /\ IF f.bids /\ f.asks
     THEN /\ lastPublished' = clock
          /\ books' = IF Throttled THEN books ELSE Append(books, [ver |-> f.ver, at |-> clock])
     ELSE UNCHANGED <<lastPublished, books>>

(* handle_book: a one-sided book is dropped, a throttled one too. *)
HandleBook(f) ==
  /\ newest' = IF f.bids /\ f.asks THEN [ver |-> f.ver, at |-> clock] ELSE newest
  /\ IF f.bids /\ f.asks /\ ~Throttled
     THEN /\ lastPublished' = IF MinInterval > 0 THEN clock ELSE lastPublished
          /\ books' = Append(books, [ver |-> f.ver, at |-> clock])
     ELSE UNCHANGED <<lastPublished, books>>

TakeBook == Recv /\ HandleBook(Head(wire)) /\ UNCHANGED <<clock, sent>>

BookConnection == Reconnection /\ UNCHANGED <<clock, sent, lastPublished, books, newest>>

BookNext == Quote \/ BookClock \/ TakeBook \/ BookConnection

BookSpec == ConnectionInit /\ BookInit /\ [][BookNext]_bookVars

(* The throttle spaces what it publishes and starves nobody: a book that   *)
(* was handled and is not the last one published came less than the        *)
(* interval after that one.                                                *)
ThrottleSpacesAndPasses ==
  /\ \A k \in 1..Len(books) - 1 : books[k + 1].at - books[k].at >= MinInterval
  /\ newest.ver > 0 =>
       /\ books # << >>
       /\ newest.ver # books[Len(books)].ver => newest.at - books[Len(books)].at < MinInterval
=============================================================================
