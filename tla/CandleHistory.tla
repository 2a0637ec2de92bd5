---------------------------- MODULE CandleHistory ----------------------------
(***************************************************************************)
(* HyperliquidHistoryClient.fetch_range()                                  *)
(* (services/data_ingestion/market_data/hyperliquid_history.py): candles   *)
(* of one interval, window by window.  Time counts steps of the interval.  *)
(***************************************************************************)
EXTENDS HistoryStore

CONSTANTS
  WindowSteps,      \* the steps of a window, 4000 in the code
  MaxEmptyWindows   \* max_empty_windows

ASSUME CandleAssumption == WindowSteps \in Nat \ {0} /\ MaxEmptyWindows \in Nat \ {0}

VARIABLE emptyWindows  \* consecutive windows without a candle

historyVars == <<storeVars, emptyWindows>>

Sooner(a, b) == IF a < b THEN a ELSE b
WindowEnd == Sooner(cursor + WindowSteps, finish)

(* fetch_window(): the candles of one window; those that cannot be parsed  *)
(* are skipped.  The exchange decides whether endTime is included.         *)
FetchWindow(included) ==
  {t \in Available : cursor <= t /\ (t < WindowEnd \/ (included /\ t = WindowEnd))}

(* Seeded fault: an empty window is taken for the end of the history. *)
AfterWindowEmptyEnds(batch) ==
  IF batch = {} THEN [cursor |-> WindowEnd, empty |-> emptyWindows + 1, done |-> TRUE]
  ELSE [cursor |-> Max(batch) + 1, empty |-> 0, done |-> Max(batch) <= cursor]

(* Where the walk goes after a window, and whether it ends there: an empty *)
(* window is stepped over, unless too many have come in a row; otherwise   *)
(* the walk goes on after the newest candle, if that is past the cursor.   *)
AfterWindow(batch) ==
  IF batch = {}
  THEN [cursor |-> WindowEnd, empty |-> emptyWindows + 1,
        done |-> emptyWindows + 1 >= MaxEmptyWindows]
  ELSE [cursor |-> Max(batch) + 1, empty |-> 0, done |-> Max(batch) <= cursor]

FetchRange ==
  /\ Asking /\ attempt' = 0
  /\ \E included \in BOOLEAN :
       LET batch == FetchWindow(included)
           next == AfterWindow(batch)
       IN  /\ collected' = collected \cup batch
           /\ pages' = pages + 1
           /\ emptyWindows' = next.empty
           /\ cursor' = next.cursor
           /\ phase' = IF next.done THEN "writing" ELSE "asking"
  /\ UNCHANGED <<listed, broken, now, request, cache, answer, loads>>

HistoryInit ==
  /\ listed \in SUBSET (0..MaxNow - 1) /\ broken \in {{}} \cup {{t} : t \in listed \cap {2}}
  /\ now = MaxNow - 1
  /\ StoreInit /\ emptyWindows = 0

HistoryNext ==
  \/ FetchRange
  \/ StoreNext /\ emptyWindows' = IF phase' = "asking" /\ pages' = 0 THEN 0 ELSE emptyWindows

-----------------------------------------------------------------------------
(* Properties. *)

Inside(rows) == {t \in Available : Min(rows) <= t /\ t <= Max(rows)}
Requested == {t \in Available : start <= t /\ t < finish}

(* The exchange keeps no gap as long as a window, and does not begin later *)
(* than the empty windows the walk puts up with.                           *)
NoLongGap ==
  /\ \A a \in Requested : (\E b \in Requested : b > a) => \E b \in Requested : a < b /\ b < a + WindowSteps
  /\ Requested # {} => Min(Requested) - start < MaxEmptyWindows * WindowSteps

(* A history that is returned has no hole: what lies between its ends and  *)
(* can be parsed is in it, whatever was rate-limited, torn or cached.  A   *)
(* fresh one covers the range that was asked for, unless the exchange's    *)
(* gaps or the budget of requests end the walk early.                      *)
CandlesComplete ==
  phase = "loaded" =>
    /\ answer.rows # {} => Inside(answer.rows) \subseteq answer.rows
    /\ ~answer.cached /\ NoLongGap /\ pages < MaxPages => Requested \subseteq answer.rows
=============================================================================
