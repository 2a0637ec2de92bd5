--------------------------- MODULE FundingHistory ---------------------------
(***************************************************************************)
(* HyperliquidFundingClient.fetch_range()                                  *)
(* (services/data_ingestion/market_data/hyperliquid_funding.py): the       *)
(* settlements of one contract, page by page.  They are stamped at the     *)
(* hour or some milliseconds after it, so an hour is several units long.   *)
(***************************************************************************)
EXTENDS HistoryStore

CONSTANTS
  Hour,      \* FUNDING_INTERVAL_S
  PageSize   \* external: settlements per answer

ASSUME FundingAssumption == Hour \in Nat \ {0} /\ PageSize \in Nat \ {0}

Stamps == {t \in 0..MaxNow - 1 : t % Hour \in {0, 1}}

(* The exchange answers with the earliest settlements at or after a time. *)
Page == Oldest(PageSize, {t \in listed : t >= cursor})

(* Seeded fault: the walk steps over the hour after the newest settlement. *)
AfterPageTwoHours(points) == Max(points) + 2 * Hour

(* cursor = newest + one hour. *)
AfterPage(points) == Max(points) + Hour

FetchFunding ==
  /\ Asking /\ attempt' = 0
  /\ LET points == {t \in Page \ broken : t <= finish}
         all == collected \cup points
         ends == points \subseteq collected \/ Max(all) <= cursor
     IN  /\ collected' = all
         /\ pages' = pages + 1
         /\ phase' = IF ends THEN "writing" ELSE "asking"
         /\ cursor' = IF ends THEN cursor ELSE AfterPage(all)
  /\ UNCHANGED <<listed, broken, now, request, cache, answer, loads>>

FundingInit ==
  /\ \E some \in SUBSET Stamps :
       /\ \A a, b \in some : a \div Hour = b \div Hour => a = b
       /\ listed = some
  /\ broken \in {{}} \cup {{t} : t \in listed \cap {Hour}}
  /\ now = MaxNow - 1
  /\ StoreInit

FundingNext == FetchFunding \/ StoreNext

-----------------------------------------------------------------------------
(* Properties. *)

(* A funding history has no hole either, with one exception: a settlement  *)
(* stamped a little earlier in its hour than the last one of the page      *)
(* before is stepped over, as the next page begins a whole hour after it.  *)
FundingComplete ==
  phase = "loaded" =>
    \A t \in Available :
      answer.rows # {} /\ Min(answer.rows) <= t /\ t <= Max(answer.rows) /\ t \notin answer.rows
        => \E p \in answer.rows : p < t /\ t < p + Hour
=============================================================================
