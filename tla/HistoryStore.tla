---------------------------- MODULE HistoryStore ----------------------------
(***************************************************************************)
(* What load_candles() and load_funding() (services/research/data.py)      *)
(* share: answer a request for the history since some start from a cache   *)
(* file, or page through the exchange's REST endpoint and write the file.  *)
(* CandleHistory and FundingHistory say how they page.                     *)
(*                                                                         *)
(* A row of history is told by its time.  Nothing else happens while a     *)
(* history is loaded; a new process loads again later, from the same file. *)
(***************************************************************************)
EXTENDS Integers, FiniteSetsExt

CONSTANTS
  DaySlack,     \* timedelta(days=1), in units of time
  MaxAttempts,  \* attempts of _request_with_backoff
  MaxPages,     \* max_windows, the requests of one fetch_range()
  Starts,       \* bound: the starts asked for
  MaxNow,       \* bound: time
  MaxLoads      \* bound: histories loaded

ASSUME StoreAssumption ==
  /\ DaySlack \in Nat /\ MaxAttempts \in Nat \ {0} /\ MaxPages \in Nat
  /\ Starts \subseteq Nat /\ MaxNow \in Nat \ {0} /\ MaxLoads \in Nat

VARIABLES
  listed,     \* external: the rows the exchange keeps
  broken,     \* external: those whose payload cannot be parsed
  now,
  phase,      \* "idle", "asking", "writing", "loaded" or "failed"
  start,      \* start of the request under way
  finish,     \* finish, a local of fetch_range()
  cursor,     \* cursor, the same
  collected,  \* collected, the same
  pages,      \* requests of this fetch so far
  attempt,    \* attempts of this request so far
  cache,      \* the cache file: its rows, and whether its last line is torn
  answer,     \* what the last load returned, and whether from the cache
  loads

request == <<start, finish>>
paging == <<cursor, collected, pages, attempt>>
storeVars == <<listed, broken, now, phase, request, paging, cache, answer, loads>>

Available == listed \ broken
NoFile == [rows |-> {}, torn |-> FALSE]
Nowhere == [rows |-> {}, cached |-> FALSE]

(* The rows of a file whose writer was interrupted: the oldest n. *)
Oldest(n, rows) == {r \in rows : Cardinality({q \in rows : q < r}) < n}

(* read_cache() and the check behind it: the file answers if it begins no  *)
(* later than a day after the start.                                       *)
Answers(file, from) == file.rows # {} /\ Min(file.rows) <= from + DaySlack

(* A load begins.  A torn line makes read_cache() raise; refresh ignores   *)
(* the file.                                                               *)
Load(from, refresh) ==
  /\ phase \in {"idle", "loaded", "failed"} /\ loads < MaxLoads
  /\ loads' = loads + 1
  /\ start' = from /\ finish' = now
  /\ IF cache.torn /\ ~refresh THEN phase' = "failed" /\ answer' = Nowhere
     ELSE IF Answers(cache, from) /\ ~refresh
          THEN phase' = "loaded" /\ answer' = [rows |-> cache.rows, cached |-> TRUE]
          ELSE phase' = "asking" /\ answer' = Nowhere
  /\ cursor' = from /\ collected' = {} /\ pages' = 0 /\ attempt' = 0
  /\ UNCHANGED <<listed, broken, now, cache>>

(* The loop of fetch_range() goes on to another request. *)
Asking == phase = "asking" /\ cursor < finish /\ pages < MaxPages

(* The loop is over. *)
WalkEnds ==
  /\ phase = "asking" /\ ~Asking /\ phase' = "writing"
  /\ UNCHANGED <<listed, broken, now, request, paging, cache, answer, loads>>

(* Status 429: wait and ask again, six times at most. *)
RateLimited ==
  /\ Asking
  /\ attempt' = attempt + 1
  /\ phase' = IF attempt' = MaxAttempts THEN "failed" ELSE "asking"
  /\ UNCHANGED <<listed, broken, now, request, cursor, collected, pages, cache, answer, loads>>

(* Any other status, or no connection. *)
RequestFails ==
  /\ Asking /\ phase' = "failed"
  /\ UNCHANGED <<listed, broken, now, request, paging, cache, answer, loads>>

(* write_cache() opens the file for writing, which empties it, and writes  *)
(* row by row.                                                             *)
WriteCache ==
  /\ phase = "writing" /\ phase' = "loaded"
  /\ cache' = [rows |-> collected, torn |-> FALSE]
  /\ answer' = [rows |-> collected, cached |-> FALSE]
  /\ UNCHANGED <<listed, broken, now, request, paging, loads>>

CrashWhileWriting ==
  /\ phase = "writing" /\ phase' = "failed"
  /\ \E n \in 0..Cardinality(collected), torn \in BOOLEAN :
       /\ torn => n < Cardinality(collected)
       /\ cache' = [rows |-> Oldest(n, collected), torn |-> torn]
  /\ UNCHANGED <<listed, broken, now, request, paging, answer, loads>>

TimePasses ==
  /\ phase \in {"loaded", "failed"} /\ now < MaxNow /\ now' = MaxNow
  /\ UNCHANGED <<listed, broken, phase, request, paging, cache, answer, loads>>

StoreInit ==
  /\ phase = "idle" /\ start = 0 /\ finish = 0
  /\ cursor = 0 /\ collected = {} /\ pages = 0 /\ attempt = 0
  /\ cache = NoFile /\ answer = Nowhere /\ loads = 0

StoreNext ==
  \/ \E from \in Starts, refresh \in BOOLEAN : Load(from, refresh)
  \/ WalkEnds \/ RateLimited \/ RequestFails
  \/ WriteCache \/ CrashWhileWriting
  \/ TimePasses
=============================================================================
