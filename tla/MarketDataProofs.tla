--------------------------- MODULE MarketDataProofs ---------------------------
(***************************************************************************)
(* Theorems about the histories of candles and of funding, for any         *)
(* history the exchange keeps, any window, page and budget of requests:    *)
(* what a load returns has no hole; and about the order book feed, for any *)
(* interval, snapshots and outages: the throttle spaces what it publishes  *)
(* and withholds nothing for longer than the interval.                     *)
(*                                                                         *)
(* What the invariants add.  Of the throttle: it measures from the last    *)
(* book it published, which no other is newer than (Measured).  Of the     *)
(* histories: the file, the answer and the rows collected so far have no   *)
(* hole either (Gapless); the walk over candles has collected all there is *)
(* before the cursor (Walked), and is at the cursor for a reason           *)
(* (Following); the walk over settlements is an hour past the newest one   *)
(* it has (Ahead).                                                         *)
(***************************************************************************)
EXTENDS MCMarketData, FiniteSetTheorems, WellFoundedInduction, TLAPS

Typed ==
  /\ listed \subseteq 0..MaxNow
  /\ now \in Nat /\ start \in Nat /\ finish \in Nat /\ cursor \in Nat /\ pages \in Nat
  /\ collected \subseteq Available
  /\ cache.rows \subseteq Available
  /\ answer.rows \subseteq Available

(* What lies between two of the rows and is not among them comes within a  *)
(* step of one.                                                            *)
Gapless(rows, step) ==
  \A a, b \in rows, t \in Available :
    a <= t /\ t <= b /\ t \notin rows => \E p \in rows : p < t /\ t < p + step

Kept(step) ==
  /\ Typed
  /\ Gapless(collected, step) /\ Gapless(cache.rows, step) /\ Gapless(answer.rows, step)

Walked == start <= cursor /\ collected = {t \in Available : start <= t /\ t < cursor}

AllThere == NoLongGap => Requested \subseteq collected
Covered == pages < MaxPages => AllThere

(* Why the cursor is where it is: only empty windows so far, or just past  *)
(* a candle, or there is nothing left to come.                             *)
Following ==
  \/ collected = {} /\ cursor = start + emptyWindows * WindowSteps
  \/ emptyWindows = 0 /\ cursor - 1 \in collected
  \/ AllThere

CandleInv ==
  /\ Kept(1) /\ emptyWindows \in Nat
  /\ phase \in {"asking", "writing"} => Walked
  /\ phase = "asking" => /\ emptyWindows < MaxEmptyWindows
                         /\ pages = 0 => emptyWindows = 0
                         /\ Following
  /\ phase = "writing" => Covered
  /\ phase = "loaded" /\ ~answer.cached => Covered /\ answer.rows = collected

Ahead ==
  collected # {} =>
    \E last \in collected : cursor = last + Hour /\ \A c \in collected : c <= last

FundingInv == Kept(Hour) /\ (phase = "asking" => Ahead)

HistoryInv ==
  /\ service = "candle history" => CandleInv
  /\ service = "funding history" => FundingInv

-----------------------------------------------------------------------------
(* Least and greatest elements. *)

LEMMA Least ==
  ASSUME NEW S \in SUBSET Nat, S # {}
  PROVE  \E x \in S : \A y \in S : x <= y
<1>1. PICK x \in S : \A y \in S : ~(<<y, x>> \in OpToRel(<, Nat))
  BY NatLessThanWellFounded, WFMin
<1>2. \A y \in S : ~(y < x)
  BY <1>1 DEF OpToRel
<1> QED BY <1>2

LEMMA Greatest ==
  ASSUME NEW n \in Nat, NEW S \in SUBSET (0..n), S # {}
  PROVE  \E x \in S : \A y \in S : y <= x
<1> DEFINE bounds == {k \in Nat : \A y \in S : y <= k}
<1>1. n \in bounds
  OBVIOUS
<1>2. PICK k \in bounds : \A l \in bounds : k <= l
  <2>1. bounds \in SUBSET Nat /\ bounds # {}
    BY <1>1
  <2> HIDE DEF bounds
  <2> QED BY <2>1, Least
<1>3. CASE k \in S
  BY <1>3
<1>4. CASE k \notin S
  <2>1. PICK y \in S : TRUE
    OBVIOUS
  <2>2. k - 1 \in Nat
    BY <1>4, <2>1
  <2>3. k - 1 \in bounds
    BY <1>4, <2>2
  <2> QED BY <1>2, <2>3
<1> QED BY <1>3, <1>4

LEMMA MinIs ==
  ASSUME NEW S \in SUBSET Nat, S # {}
  PROVE  Min(S) \in S /\ \A y \in S : Min(S) <= y
<1>1. \E x \in S : \A y \in S : x <= y
  BY Least
<1> QED BY <1>1 DEF Min

LEMMA MaxIs ==
  ASSUME NEW n \in Nat, NEW S \in SUBSET (0..n), S # {}
  PROVE  Max(S) \in S /\ \A y \in S : y <= Max(S)
<1>1. \E x \in S : \A y \in S : x >= y
  <2>1. PICK x \in S : \A y \in S : y <= x
    BY Greatest
  <2>2. \A y \in S : x >= y
    BY <2>1
  <2> QED BY <2>2
<1>2. Max(S) \in S /\ \A y \in S : Max(S) >= y
  BY <1>1 DEF Max
<1> QED BY <1>2

-----------------------------------------------------------------------------
(* The store. *)

LEMMA AvailableIs ==
  ASSUME Typed
  PROVE  Available \subseteq 0..MaxNow /\ Available \subseteq Nat /\ MaxNow \in Nat
<1>1. MaxNow \in Nat
  BY StoreAssumption
<1>2. \A t \in Available : t \in 0..MaxNow
  BY DEF Typed, Available
<1> QED BY <1>1, <1>2

(* With a row of the oldest n, every earlier one is among them. *)
LEMMA OldestIsDownward ==
  ASSUME NEW m \in Nat, NEW rows \in SUBSET (0..m), NEW n \in Nat,
         NEW b \in Oldest(n, rows), NEW a \in rows, a <= b
  PROVE  a \in Oldest(n, rows)
<1> DEFINE before(x) == {q \in rows : q < x}
<1>1. b \in rows /\ Cardinality(before(b)) < n
  BY DEF Oldest
<1>2. IsFiniteSet(rows)
  <2>1. IsFiniteSet(0..m)
    BY FS_Interval
  <2> QED BY <2>1, FS_Subset
<1>3. IsFiniteSet(before(b)) /\ before(a) \in SUBSET before(b)
  <2>1. before(b) \in SUBSET rows
    OBVIOUS
  <2>2. IsFiniteSet(before(b))
    BY <1>2, <2>1, FS_Subset
  <2>3. \A q \in rows : q \in Nat
    OBVIOUS
  <2>4. \A q \in rows : q < a => q < b
    BY <1>1, <2>3
  <2>5. before(a) \in SUBSET before(b)
    BY <2>4
  <2> QED BY <2>2, <2>5
<1>4. Cardinality(before(a)) <= Cardinality(before(b)) /\ IsFiniteSet(before(a))
  <2> HIDE DEF before
  <2> QED BY <1>3, FS_Subset
<1>5. Cardinality(before(a)) \in Nat /\ Cardinality(before(b)) \in Nat
  BY <1>3, <1>4, FS_CardinalityType
<1>6. Cardinality(before(a)) < n
  <2> HIDE DEF before
  <2> QED BY <1>1, <1>4, <1>5
<1> QED BY <1>6 DEF Oldest

(* A file cut short has no hole if the whole one has none. *)
LEMMA OldestIsGapless ==
  ASSUME Typed, NEW step \in Nat, NEW rows \in SUBSET Available, Gapless(rows, step),
         NEW n \in Nat
  PROVE  Oldest(n, rows) \subseteq Available /\ Gapless(Oldest(n, rows), step)
<1>1. Oldest(n, rows) \subseteq rows
  BY DEF Oldest
<1>2. ASSUME NEW a \in Oldest(n, rows), NEW b \in Oldest(n, rows), NEW t \in Available,
             a <= t, t <= b, t \notin Oldest(n, rows)
      PROVE  \E p \in Oldest(n, rows) : p < t /\ t < p + step
  <2>1. rows \in SUBSET (0..MaxNow) /\ MaxNow \in Nat /\ t \in Nat /\ b \in Nat
    BY <1>1, AvailableIs
  <2>2. t \notin rows
    BY <1>2, <2>1, OldestIsDownward
  <2>3. PICK p \in rows : p < t /\ t < p + step
    BY <1>1, <1>2, <2>2 DEF Gapless
  <2>4. p \in Nat /\ p <= b
    BY <1>2, <2>1, <2>3
  <2>5. p \in Oldest(n, rows)
    BY <2>1, <2>4, OldestIsDownward
  <2> QED BY <2>3, <2>5
<1> QED BY <1>1, <1>2 DEF Gapless

LEMMA EmptyIsGapless == ASSUME NEW step PROVE Gapless({}, step)
BY DEF Gapless

LEMMA SameAvailable ==
  ASSUME UNCHANGED <<listed, broken>>
  PROVE  /\ Available' = Available
         /\ \A rows, step : Gapless(rows, step)' = Gapless(rows, step)
BY DEF Available, Gapless

LEMMA LoadKeeps ==
  ASSUME NEW step \in Nat, Kept(step), NEW from \in Starts, NEW refresh \in BOOLEAN,
         Load(from, refresh)
  PROVE  Kept(step)'
<1>1. /\ from \in Nat /\ listed' = listed /\ broken' = broken /\ now' = now /\ cache' = cache
      /\ start' = from /\ finish' = now /\ cursor' = from /\ pages' = 0 /\ collected' = {}
  BY StoreAssumption DEF Load
<1>2. answer'.rows = {} \/ answer'.rows = cache.rows
  BY DEF Load, Nowhere
<1>3. Available' = Available
  BY <1>1 DEF Available
<1> QED BY <1>1, <1>2, <1>3 DEF Kept, Typed, Gapless

LEMMA WriteCacheKeeps ==
  ASSUME NEW step \in Nat, Kept(step), WriteCache
  PROVE  Kept(step)'
<1>1. Available' = Available
  BY DEF WriteCache, Available
<1> QED BY <1>1 DEF Kept, Typed, Gapless, WriteCache, request, paging

LEMMA CrashKeeps ==
  ASSUME NEW step \in Nat, Kept(step), CrashWhileWriting
  PROVE  Kept(step)'
<1>1. Available' = Available
  BY DEF CrashWhileWriting, Available
<1>2. PICK n \in 0..Cardinality(collected) : cache'.rows = Oldest(n, collected)
  BY DEF CrashWhileWriting
<1>3. Cardinality(collected) \in Nat /\ n \in Nat
  <2>1. IsFiniteSet(0..MaxNow)
    BY AvailableIs, FS_Interval DEF Kept
  <2>2. collected \in SUBSET (0..MaxNow)
    BY AvailableIs DEF Kept, Typed
  <2>3. Cardinality(collected) \in Nat
    BY <2>1, <2>2, FS_Subset, FS_CardinalityType
  <2> QED BY <2>3
<1>4. cache'.rows \subseteq Available /\ Gapless(cache'.rows, step)
  BY <1>2, <1>3, OldestIsGapless DEF Kept, Typed
<1> QED BY <1>1, <1>4 DEF Kept, Typed, Gapless, CrashWhileWriting, request, paging

(* Steps that move neither the rows nor the cursor. *)
LEMMA StandsStill ==
  ASSUME NEW step \in Nat, Kept(step), now' \in Nat,
         UNCHANGED <<listed, broken, request, cursor, collected, pages, cache, answer>>
  PROVE  Kept(step)'
BY DEF Kept, Typed, Gapless, Available, request

LEMMA StoreKeeps ==
  ASSUME NEW step \in Nat, Kept(step), StoreNext
  PROVE  Kept(step)'
<1>1. now \in Nat /\ MaxNow \in Nat
  BY StoreAssumption DEF Kept, Typed
<1>2. CASE WalkEnds \/ RequestFails
  <2>1. UNCHANGED <<listed, broken, now, request, cursor, collected, pages, cache, answer>>
    BY <1>2 DEF WalkEnds, RequestFails, paging
  <2> QED BY <1>1, <2>1, StandsStill
<1>3. CASE RateLimited
  <2>1. UNCHANGED <<listed, broken, now, request, cursor, collected, pages, cache, answer>>
    BY <1>3 DEF RateLimited
  <2> QED BY <1>1, <2>1, StandsStill
<1>4. CASE TimePasses
  <2>1. now' = MaxNow /\ UNCHANGED <<listed, broken, request, cursor, collected, pages, cache, answer>>
    BY <1>4 DEF TimePasses, paging
  <2> QED BY <1>1, <2>1, StandsStill
<1> QED BY <1>2, <1>3, <1>4, LoadKeeps, WriteCacheKeeps, CrashKeeps DEF StoreNext

-----------------------------------------------------------------------------
(* Candles. *)

LEMMA HistoryTyped ==
  ASSUME Kept(1)
  PROVE  /\ now \in Nat /\ start \in Nat /\ finish \in Nat /\ cursor \in Nat /\ pages \in Nat
         /\ WindowSteps \in Nat \ {0} /\ MaxEmptyWindows \in Nat \ {0} /\ MaxPages \in Nat
BY StoreAssumption, CandleAssumption DEF Kept, Typed

LEMMA WindowEndIs ==
  ASSUME Kept(1), cursor < finish
  PROVE  /\ WindowEnd \in Nat /\ cursor < WindowEnd /\ WindowEnd <= finish
         /\ WindowEnd = finish \/ WindowEnd = cursor + WindowSteps
         /\ WindowEnd <= cursor + WindowSteps
<1>1. cursor + WindowSteps \in Nat /\ cursor < cursor + WindowSteps
  BY HistoryTyped
<1> QED BY <1>1, HistoryTyped DEF WindowEnd, Sooner

(* The candles of a window are those up to the newest of them. *)
LEMMA BatchIs ==
  ASSUME Kept(1), cursor < finish, NEW included \in BOOLEAN, FetchWindow(included) # {}
  PROVE  LET last == Max(FetchWindow(included))
         IN  /\ last \in FetchWindow(included) /\ last \in Nat /\ cursor <= last
             /\ FetchWindow(included) = {t \in Available : cursor <= t /\ t < last + 1}
<1> DEFINE got == FetchWindow(included)
           m == Max(got)
<1>1. got \in SUBSET (0..MaxNow) /\ MaxNow \in Nat /\ got # {}
  BY AvailableIs DEF Kept, FetchWindow
<1>2. m \in got /\ \A t \in got : t <= m
  <2> HIDE DEF got
  <2> QED BY <1>1, MaxIs
<1>3. m \in Nat /\ cursor <= m /\ (m < WindowEnd \/ (included /\ m = WindowEnd)) /\ WindowEnd \in Nat
  <2>1. m \in Nat
    BY <1>1, <1>2
  <2> QED BY <1>2, <2>1, WindowEndIs DEF FetchWindow
<1>4. ASSUME NEW t \in Available
      PROVE  t \in got <=> cursor <= t /\ t < m + 1
  <2>1. t \in Nat /\ cursor \in Nat
    BY AvailableIs, HistoryTyped DEF Kept
  <2>2. t \in got => cursor <= t /\ t <= m
    BY <1>2 DEF FetchWindow
  <2>3. cursor <= t /\ t <= m => t \in got
    <3> HIDE DEF m
    <3> QED BY <1>3, <2>1 DEF FetchWindow
  <2> HIDE DEF m, got
  <2> QED BY <1>3, <2>1, <2>2, <2>3
<1>5. got \subseteq Available
  BY DEF FetchWindow
<1>6. got = {t \in Available : cursor <= t /\ t < m + 1}
  <2> HIDE DEF m, got
  <2> QED BY <1>4, <1>5
<1> QED BY <1>2, <1>3, <1>6

(* A walk that has collected all before the cursor leaves no hole. *)
LEMMA WalkedIsGapless ==
  ASSUME NEW low \in Nat, NEW high \in Nat, Available \subseteq Nat
  PROVE  Gapless({t \in Available : low <= t /\ t < high}, 1)
BY DEF Gapless

(* One window: what it collects, and where it leaves the cursor. *)
LEMMA WindowWalks ==
  ASSUME Kept(1), Walked, FetchRange
  PROVE  /\ Kept(1)' /\ Walked' /\ cursor <= cursor' /\ pages' = pages + 1
         /\ UNCHANGED <<listed, broken, start, finish>>
<1>1. cursor < finish
  BY DEF FetchRange, Asking
<1>2. PICK included \in BOOLEAN :
        /\ collected' = collected \cup FetchWindow(included)
        /\ cursor' = AfterWindow(FetchWindow(included)).cursor
  BY DEF FetchRange
<1>3. /\ UNCHANGED <<listed, broken, now, start, finish, cache, answer>> /\ pages' = pages + 1
      /\ Available' = Available
  BY DEF FetchRange, request, Available
<1>4. /\ cursor' \in Nat /\ cursor <= cursor'
      /\ FetchWindow(included) = {t \in Available : cursor <= t /\ t < cursor'}
  <2>1. CASE FetchWindow(included) = {}
    <3>1. cursor' = WindowEnd
      BY <1>2, <2>1 DEF AfterWindow
    <3>2. \A t \in Available : ~(cursor <= t /\ t < WindowEnd)
      BY <2>1 DEF FetchWindow
    <3> QED BY <1>1, <2>1, <3>1, <3>2, WindowEndIs, HistoryTyped
  <2>2. CASE FetchWindow(included) # {}
    <3>1. cursor' = Max(FetchWindow(included)) + 1
      BY <1>2, <2>2 DEF AfterWindow
    <3> QED BY <1>1, <2>2, <3>1, BatchIs, HistoryTyped
  <2> QED BY <2>1, <2>2
<1>5. collected' = {t \in Available : start <= t /\ t < cursor'}
  <2>1. \A t \in Available : t \in Nat
    BY AvailableIs DEF Kept
  <2>2. start <= cursor /\ collected = {t \in Available : start <= t /\ t < cursor}
    BY DEF Walked
  <2>3. collected' = collected \cup FetchWindow(included)
    BY <1>2
  <2> QED BY <1>4, <2>1, <2>2, <2>3, HistoryTyped
<1>6. start <= cursor'
  BY <1>4, HistoryTyped DEF Walked
<1>7. Gapless(collected', 1)
  <2>1. Available \subseteq Nat
    BY AvailableIs DEF Kept
  <2> QED BY <1>4, <1>5, <2>1, HistoryTyped, WalkedIsGapless
<1>8. Typed'
  BY <1>3, <1>4, <1>5, HistoryTyped DEF Kept, Typed
<1>9. Kept(1)'
  BY <1>3, <1>7, <1>8 DEF Kept, Gapless
<1>10. Walked'
  BY <1>3, <1>5, <1>6 DEF Walked
<1> QED BY <1>3, <1>4, <1>9, <1>10

SameRequest == UNCHANGED <<listed, broken, start, finish>>

LEMMA SameRequested ==
  ASSUME SameRequest
  PROVE  Available' = Available /\ Requested' = Requested /\ NoLongGap' = NoLongGap
<1>1. Available' = Available /\ start' = start /\ finish' = finish
  BY DEF SameRequest, Available
<1>2. Requested' = Requested
  BY <1>1 DEF Requested
<1> QED BY <1>1, <1>2 DEF NoLongGap

(* At the end of the range there is nothing left to come. *)
LEMMA EndIsReached ==
  ASSUME Kept(1), Walked, finish <= cursor
  PROVE  AllThere
<1>1. \A t \in Available : t \in Nat
  BY AvailableIs DEF Kept
<1> QED BY <1>1, HistoryTyped DEF AllThere, Requested, Walked

(* Nothing comes after a candle whose window is empty. *)
LEMMA NothingFollows ==
  ASSUME Kept(1), NEW c \in Requested, NoLongGap,
         \A t \in Available : ~(c < t /\ t < c + WindowSteps /\ t < finish)
  PROVE  \A t \in Requested : t <= c
<1>1. \A t \in Requested : t \in Available /\ t \in Nat /\ t < finish
  BY AvailableIs DEF Kept, Requested
<1>2. ~ \E t \in Requested : t > c
  BY <1>1 DEF NoLongGap
<1> QED BY <1>1, <1>2

(* An empty window after a candle is the end. *)
LEMMA EmptyAfterCandle ==
  ASSUME Kept(1), Walked, cursor < finish, cursor - 1 \in collected, FetchWindow(FALSE) = {}
  PROVE  AllThere
<1> SUFFICES ASSUME NoLongGap PROVE Requested \subseteq collected
  BY DEF AllThere
<1> DEFINE c == cursor - 1
<1>1. \A t \in Available : t \in Nat
  BY AvailableIs DEF Kept
<1>2. c \in Available /\ start <= c /\ c \in Nat /\ cursor = c + 1
  BY <1>1, HistoryTyped DEF Walked
<1>3. c \in Requested
  BY <1>2, HistoryTyped DEF Requested
<1>4. \A t \in Available : ~(c < t /\ t < c + WindowSteps /\ t < finish)
  <2> SUFFICES ASSUME NEW t \in Available, c < t, t < c + WindowSteps, t < finish PROVE FALSE
    OBVIOUS
  <2>1. cursor <= t /\ t < cursor + WindowSteps
    BY <1>1, <1>2, HistoryTyped
  <2>2. t < WindowEnd
    BY <2>1, WindowEndIs
  <2> QED BY <2>1, <2>2 DEF FetchWindow
<1>5. \A t \in Requested : t <= c
  <2> HIDE DEF c
  <2> QED BY <1>3, <1>4, NothingFollows
<1> QED BY <1>1, <1>2, <1>5, HistoryTyped DEF Requested, Walked

(* A candle at the cursor, and nothing else in its window, is the last. *)
LEMMA OnlyAtCursor ==
  ASSUME Kept(1), Walked, cursor < finish, NEW included \in BOOLEAN,
         FetchWindow(included) # {}, Max(FetchWindow(included)) <= cursor
  PROVE  NoLongGap => Requested \subseteq collected \cup FetchWindow(included)
<1> SUFFICES ASSUME NoLongGap PROVE Requested \subseteq collected \cup FetchWindow(included)
  OBVIOUS
<1>1. \A t \in Available : t \in Nat
  BY AvailableIs DEF Kept
<1>2. /\ cursor \in FetchWindow(included)
      /\ FetchWindow(included) = {t \in Available : cursor <= t /\ t < cursor + 1}
  <2> DEFINE m == Max(FetchWindow(included))
  <2>1. /\ m \in FetchWindow(included) /\ m \in Nat /\ cursor <= m
        /\ FetchWindow(included) = {t \in Available : cursor <= t /\ t < m + 1}
    BY BatchIs
  <2>2. m = cursor
    BY <2>1, HistoryTyped
  <2> QED BY <2>1, <2>2
<1>3. cursor \in Requested
  BY <1>2, HistoryTyped DEF Requested, Walked
<1>4. \A t \in Available : ~(cursor < t /\ t < cursor + WindowSteps /\ t < finish)
  <2> SUFFICES ASSUME NEW t \in Available, cursor < t, t < cursor + WindowSteps, t < finish
               PROVE FALSE
    OBVIOUS
  <2>1. t < WindowEnd /\ cursor <= t /\ ~(t < cursor + 1)
    BY <1>1, HistoryTyped, WindowEndIs
  <2>2. t \in FetchWindow(included)
    BY <2>1 DEF FetchWindow
  <2> QED BY <1>2, <2>1, <2>2
<1>5. \A t \in Requested : t <= cursor
  BY <1>3, <1>4, NothingFollows
<1> QED BY <1>1, <1>2, <1>5, HistoryTyped DEF Requested, Walked

(* As many empty windows as the walk puts up with leave nothing requested. *)
LEMMA NothingListed ==
  ASSUME Kept(1), NEW c \in Nat, c = start + MaxEmptyWindows * WindowSteps,
         \A t \in Available : ~(start <= t /\ t < c)
  PROVE  NoLongGap => Requested = {}
<1> SUFFICES ASSUME NoLongGap, Requested # {} PROVE FALSE
  OBVIOUS
<1>1. Requested \in SUBSET Nat
  BY AvailableIs DEF Kept, Requested
<1>2. Min(Requested) \in Requested
  BY <1>1, MinIs
<1>3. Min(Requested) - start < MaxEmptyWindows * WindowSteps
  BY DEF NoLongGap
<1>4. Min(Requested) \in Nat /\ start \in Nat /\ MaxEmptyWindows * WindowSteps \in Int
  <2>1. MaxEmptyWindows \in Int /\ WindowSteps \in Int /\ start \in Nat
    BY HistoryTyped
  <2>2. MaxEmptyWindows * WindowSteps \in Int
    BY <2>1
  <2>3. Min(Requested) \in Nat
    BY <1>1, <1>2
  <2> QED BY <2>1, <2>2, <2>3
<1>5. Min(Requested) < c
  BY <1>3, <1>4
<1>6. Min(Requested) \in Available /\ start <= Min(Requested)
  BY <1>2 DEF Requested
<1> QED BY <1>5, <1>6

(* What an empty window leaves to come. *)
LEMMA EmptyWindowFollows ==
  ASSUME CandleInv, phase = "asking", cursor < finish, SameRequest, Walked', cursor' \in Nat,
         NEW included \in BOOLEAN, FetchWindow(included) = {},
         cursor' = WindowEnd, collected' = collected, emptyWindows' = emptyWindows + 1
  PROVE  /\ Following'
         /\ emptyWindows + 1 >= MaxEmptyWindows => AllThere'
<1>1. /\ Kept(1) /\ Walked /\ Following /\ emptyWindows \in Nat /\ emptyWindows < MaxEmptyWindows
  BY DEF CandleInv
<1>2. AllThere => AllThere'
  BY SameRequested DEF AllThere
<1>3. CASE emptyWindows = 0 /\ cursor - 1 \in collected
  <2>1. FetchWindow(FALSE) = {}
    BY DEF FetchWindow
  <2> QED BY <1>1, <1>2, <1>3, <2>1, EmptyAfterCandle DEF Following
<1>4. CASE collected = {} /\ cursor = start + emptyWindows * WindowSteps
  <2>1. CASE WindowEnd = finish
    <3>1. \A t \in Available : t \in Nat
      BY <1>1, AvailableIs DEF Kept
    <3>2. AllThere'
      BY <1>1, <2>1, <3>1, SameRequested, HistoryTyped
         DEF AllThere, Walked, Requested, SameRequest
    <3> QED BY <3>2 DEF Following
  <2>2. CASE WindowEnd = cursor + WindowSteps
    <3>1. WindowSteps \in Nat /\ start \in Nat
      BY <1>1, HistoryTyped
    <3>2. cursor' = start + (emptyWindows + 1) * WindowSteps
      BY <1>1, <1>4, <2>2, <3>1
    <3>3. Following'
      BY <1>4, <3>2 DEF Following, SameRequest
    <3>4. ASSUME emptyWindows + 1 >= MaxEmptyWindows
          PROVE  AllThere'
      <4>1. emptyWindows + 1 = MaxEmptyWindows
        BY <1>1, <3>4, HistoryTyped
      <4>2. cursor' = start + MaxEmptyWindows * WindowSteps
        BY <3>2, <4>1
      <4>3. \A t \in Available : ~(start <= t /\ t < cursor')
        BY <1>4, SameRequested DEF Walked, SameRequest
      <4>4. NoLongGap => Requested = {}
        BY <1>1, <4>2, <4>3, NothingListed
      <4> QED BY <4>4, SameRequested DEF AllThere
    <3> QED BY <3>3, <3>4
  <2> QED BY <1>1, <2>1, <2>2, WindowEndIs
<1> QED BY <1>1, <1>2, <1>3, <1>4 DEF Following

LEMMA FetchRangeKeeps ==
  ASSUME CandleInv, FetchRange
  PROVE  CandleInv'
<1>1. /\ Kept(1) /\ Walked /\ emptyWindows \in Nat /\ cursor < finish /\ phase = "asking"
      /\ pages \in Nat /\ pages' # 0
  BY HistoryTyped DEF CandleInv, FetchRange, Asking
<1>2. /\ Kept(1)' /\ Walked' /\ cursor <= cursor' /\ SameRequest /\ cursor' \in Nat
  <2>1. Kept(1)' /\ Walked' /\ cursor <= cursor' /\ SameRequest
    BY <1>1, WindowWalks DEF SameRequest
  <2> QED BY <2>1 DEF Kept, Typed
<1>3. PICK included \in BOOLEAN :
        LET after == AfterWindow(FetchWindow(included))
        IN  /\ collected' = collected \cup FetchWindow(included)
            /\ emptyWindows' = after.empty
            /\ cursor' = after.cursor
            /\ phase' = IF after.done THEN "writing" ELSE "asking"
  BY DEF FetchRange
<1>4. CASE FetchWindow(included) = {}
  <2>1. /\ collected' = collected /\ emptyWindows' = emptyWindows + 1 /\ cursor' = WindowEnd
        /\ phase' = IF emptyWindows + 1 >= MaxEmptyWindows THEN "writing" ELSE "asking"
    BY <1>3, <1>4 DEF AfterWindow
  <2>2. Following' /\ (emptyWindows + 1 >= MaxEmptyWindows => AllThere')
    BY <1>1, <1>2, <1>4, <2>1, EmptyWindowFollows
  <2>3. emptyWindows' \in Nat /\ (phase' = "asking" => emptyWindows' < MaxEmptyWindows)
    BY <1>1, <2>1, HistoryTyped
  <2> QED BY <1>1, <1>2, <2>1, <2>2, <2>3 DEF CandleInv, Covered
<1>5. CASE FetchWindow(included) # {}
  <2> DEFINE m == Max(FetchWindow(included))
  <2>1. /\ emptyWindows' = 0 /\ cursor' = m + 1
        /\ phase' = IF m <= cursor THEN "writing" ELSE "asking"
    BY <1>3, <1>5 DEF AfterWindow
  <2>2. m \in FetchWindow(included) /\ m \in Nat
    BY <1>1, <1>5, BatchIs
  <2>3. cursor' - 1 \in collected'
    <3>1. cursor' - 1 = m
      BY <2>1, <2>2
    <3> QED BY <1>3, <2>2, <3>1
  <2>4. Following'
    BY <2>1, <2>3 DEF Following
  <2>5. m <= cursor => AllThere'
    <3>1. m <= cursor => (NoLongGap => Requested \subseteq collected \cup FetchWindow(included))
      BY <1>1, <1>5, OnlyAtCursor
    <3> QED BY <1>2, <1>3, <3>1, SameRequested DEF AllThere
  <2>6. 0 < MaxEmptyWindows
    BY <1>1, HistoryTyped
  <2> QED BY <1>1, <1>2, <2>1, <2>4, <2>5, <2>6 DEF CandleInv, Covered
<1> QED BY <1>4, <1>5

(* What a step that leaves the walk alone leaves as it was. *)
LEMMA SameWalk ==
  ASSUME UNCHANGED <<listed, broken, start, finish, cursor, collected, pages>>
  PROVE  /\ Walked' = Walked /\ AllThere' = AllThere /\ Covered' = Covered
<1>1. SameRequest
  BY DEF SameRequest
<1>2. Walked' = Walked
  BY <1>1, SameRequested DEF Walked
<1>3. AllThere' = AllThere
  BY <1>1, SameRequested DEF AllThere
<1> QED BY <1>2, <1>3 DEF Covered

LEMMA CandleStoreKeeps ==
  ASSUME CandleInv, StoreNext,
         emptyWindows' = IF phase' = "asking" /\ pages' = 0 THEN 0 ELSE emptyWindows
  PROVE  CandleInv'
<1>1. Kept(1) /\ Kept(1)' /\ emptyWindows \in Nat /\ emptyWindows' \in Nat
  BY StoreKeeps DEF CandleInv
<1>2. CASE \E from \in Starts, refresh \in BOOLEAN : Load(from, refresh)
  <2>1. PICK from \in Starts, refresh \in BOOLEAN : Load(from, refresh)
    BY <1>2
  <2>2. /\ phase' \in {"failed", "loaded", "asking"} /\ (phase' = "loaded" => answer'.cached)
        /\ start' = from /\ cursor' = from /\ collected' = {} /\ pages' = 0 /\ from \in Nat
    BY <2>1, StoreAssumption DEF Load
  <2>3. \A t \in Available' : t \in Nat
    <3>1. Available' \subseteq 0..MaxNow
      BY <1>1 DEF Kept, Typed, Available
    <3> QED BY <3>1, StoreAssumption
  <2>4. Walked'
    BY <2>2, <2>3 DEF Walked
  <2>5. phase' = "asking" => Following' /\ emptyWindows' < MaxEmptyWindows /\ emptyWindows' = 0
    <3>1. from = from + 0 * WindowSteps /\ 0 < MaxEmptyWindows
      BY <2>2, CandleAssumption
    <3> QED BY <2>2, <3>1 DEF Following
  <2> QED BY <1>1, <2>2, <2>4, <2>5 DEF CandleInv
<1>3. CASE WalkEnds
  <2>1. /\ phase = "asking" /\ phase' = "writing" /\ ~(cursor < finish /\ pages < MaxPages)
        /\ UNCHANGED <<listed, broken, start, finish, cursor, collected, pages>>
    BY <1>3 DEF WalkEnds, Asking, request, paging
  <2>2. Walked
    BY <2>1 DEF CandleInv
  <2>3. finish <= cursor \/ ~(pages < MaxPages)
    BY <1>1, <2>1, HistoryTyped
  <2>4. Covered
    BY <1>1, <2>2, <2>3, EndIsReached DEF Covered
  <2> QED BY <1>1, <2>1, <2>2, <2>4, SameWalk DEF CandleInv
<1>4. CASE RateLimited
  <2>1. /\ phase = "asking" /\ phase' \in {"failed", "asking"}
        /\ UNCHANGED <<listed, broken, start, finish, cursor, collected, pages>>
    BY <1>4 DEF RateLimited, Asking, request
  <2>2. emptyWindows' = emptyWindows
    BY <2>1 DEF CandleInv
  <2>3. Following' = Following
    BY <2>1, <2>2, SameWalk DEF Following
  <2> QED BY <1>1, <2>1, <2>2, <2>3, SameWalk DEF CandleInv
<1>5. CASE RequestFails \/ CrashWhileWriting
  <2>1. phase' = "failed"
    BY <1>5 DEF RequestFails, CrashWhileWriting
  <2> QED BY <1>1, <2>1 DEF CandleInv
<1>6. CASE WriteCache
  <2>1. /\ phase = "writing" /\ phase' = "loaded" /\ answer'.rows = collected
        /\ UNCHANGED <<listed, broken, start, finish, cursor, collected, pages>>
    BY <1>6 DEF WriteCache, request, paging
  <2> QED BY <1>1, <2>1, SameWalk DEF CandleInv
<1>7. CASE TimePasses
  <2>1. /\ phase \in {"loaded", "failed"} /\ phase' = phase /\ answer' = answer
        /\ UNCHANGED <<listed, broken, start, finish, cursor, collected, pages>>
    BY <1>7 DEF TimePasses, request, paging
  <2> QED BY <1>1, <2>1, SameWalk DEF CandleInv
<1> QED BY <1>2, <1>3, <1>4, <1>5, <1>6, <1>7 DEF StoreNext

LEMMA CandlesAreComplete == CandleInv => CandlesComplete
<1> SUFFICES ASSUME CandleInv, phase = "loaded" PROVE CandlesComplete
  BY DEF CandlesComplete
<1> DEFINE rows == answer.rows
<1>1. /\ rows \in SUBSET (0..MaxNow) /\ rows \in SUBSET Nat /\ MaxNow \in Nat
      /\ Gapless(rows, 1) /\ \A t \in Available : t \in Nat
  BY AvailableIs DEF CandleInv, Kept, Typed
<1>2. ASSUME rows # {} PROVE Inside(rows) \subseteq rows
  <2>1. Min(rows) \in rows /\ Max(rows) \in rows
    <3> HIDE DEF rows
    <3> QED BY <1>1, <1>2, MinIs, MaxIs
  <2>2. ASSUME NEW t \in Available, Min(rows) <= t, t <= Max(rows), t \notin rows PROVE FALSE
    <3>1. PICK p \in rows : p < t /\ t < p + 1
      <4> HIDE DEF rows
      <4> QED BY <1>1, <2>1, <2>2 DEF Gapless
    <3>2. p \in Nat /\ t \in Nat
      BY <1>1
    <3> QED BY <3>1, <3>2
  <2> HIDE DEF rows
  <2> QED BY <2>2 DEF Inside
<1>3. ~answer.cached /\ NoLongGap /\ pages < MaxPages => Requested \subseteq rows
  BY DEF CandleInv, Covered, AllThere
<1> QED BY <1>2, <1>3 DEF CandlesComplete

-----------------------------------------------------------------------------
(* Funding. *)

Points == {t \in Page \ broken : t <= finish}

(* A page misses none of the settlements between the cursor and its last. *)
LEMMA PageHasNoHole ==
  ASSUME Kept(Hour), NEW b \in Points, NEW t \in Available, cursor <= t, t <= b
  PROVE  t \in Points
<1> DEFINE rest == {r \in listed : r >= cursor}
<1>1. /\ rest \in SUBSET (0..MaxNow) /\ MaxNow \in Nat /\ PageSize \in Nat
      /\ cursor \in Nat /\ finish \in Nat
  BY StoreAssumption, FundingAssumption DEF Kept, Typed
<1>2. b \in Oldest(PageSize, rest) /\ b <= finish /\ b \in Nat
  BY <1>1 DEF Points, Page, Oldest
<1>3. t \in rest /\ t \notin broken /\ t \in Nat
  <2>1. t \in Nat /\ t \in listed /\ t \notin broken
    BY AvailableIs DEF Available, Kept
  <2> QED BY <1>1, <2>1
<1>4. t \in Oldest(PageSize, rest)
  <2> HIDE DEF rest
  <2> QED BY <1>1, <1>2, <1>3, OldestIsDownward
<1> QED BY <1>1, <1>2, <1>3, <1>4 DEF Points, Page

LEMMA PointsAre ==
  ASSUME Kept(Hour)
  PROVE  Points \subseteq Available /\ \A p \in Points : cursor <= p /\ p \in Nat
<1>1. \A p \in Points : p \in listed /\ p \notin broken /\ p >= cursor
  BY DEF Points, Page, Oldest
<1>2. \A p \in Points : p \in Available
  BY <1>1 DEF Available
<1>3. cursor \in Nat /\ \A p \in Available : p \in Nat
  BY AvailableIs DEF Kept, Typed
<1> QED BY <1>1, <1>2, <1>3

(* With a page, the rows have no hole but what the hour steps over. *)
LEMMA PageIsGapless ==
  ASSUME Kept(Hour), Ahead
  PROVE  Gapless(collected \cup Points, Hour)
<1>1. /\ \A t \in Available : t \in Nat
      /\ collected \subseteq Available /\ cursor \in Nat /\ Hour \in Nat \ {0}
      /\ Gapless(collected, Hour)
  BY AvailableIs, FundingAssumption DEF Kept, Typed
<1>2. ASSUME NEW a \in collected \cup Points, NEW b \in collected \cup Points,
             NEW t \in Available, a <= t, t <= b, t \notin collected \cup Points
      PROVE  \E p \in collected \cup Points : p < t /\ t < p + Hour
  <2>1. /\ t \in Nat /\ a \in Nat /\ b \in Nat
        /\ \A p \in Points : cursor <= p
    BY <1>1, PointsAre
  <2>2. CASE collected = {}
    <3>1. a \in Points /\ b \in Points /\ cursor <= t
      BY <1>1, <1>2, <2>1, <2>2
    <3> QED BY <1>2, <3>1, PageHasNoHole
  <2>3. CASE collected # {}
    <3>1. PICK m \in collected : cursor = m + Hour /\ \A c \in collected : c <= m
      BY <2>3 DEF Ahead
    <3>2. m \in Nat
      BY <1>1
    <3>3. CASE cursor <= t
      <4>1. b \notin collected
        <5> SUFFICES ASSUME b \in collected PROVE FALSE
          OBVIOUS
        <5>1. b <= m
          BY <3>1
        <5> QED BY <1>1, <1>2, <2>1, <3>1, <3>2, <3>3, <5>1
      <4> QED BY <1>2, <3>3, <4>1, PageHasNoHole
    <3>4. CASE ~(cursor <= t) /\ m < t
      BY <1>1, <2>1, <3>1, <3>2, <3>4
    <3>5. CASE t <= m
      <4>1. a \notin Points
        <5> SUFFICES ASSUME a \in Points PROVE FALSE
          OBVIOUS
        <5>1. cursor <= a
          BY <2>1
        <5> QED BY <1>1, <1>2, <2>1, <3>1, <3>2, <3>5, <5>1
      <4>2. \E p \in collected : p < t /\ t < p + Hour
        BY <1>1, <1>2, <3>5, <4>1 DEF Gapless
      <4> QED BY <4>2
    <3> QED BY <1>1, <2>1, <3>2, <3>3, <3>4, <3>5
  <2> QED BY <2>2, <2>3
<1> QED BY <1>2 DEF Gapless

LEMMA FetchFundingKeeps ==
  ASSUME FundingInv, FetchFunding
  PROVE  FundingInv'
<1> DEFINE all == collected \cup Points
           ends == Points \subseteq collected \/ Max(all) <= cursor
<1>1. /\ Kept(Hour) /\ Ahead /\ Hour \in Nat
  BY FundingAssumption DEF FundingInv, FetchFunding, Asking
<1>2. /\ collected' = all
      /\ phase' = IF ends THEN "writing" ELSE "asking"
      /\ cursor' = IF ends THEN cursor ELSE Max(all) + Hour
      /\ pages' = pages + 1
      /\ UNCHANGED <<listed, broken, now, start, finish, cache, answer>>
  BY DEF FetchFunding, Points, AfterPage, request
<1>3. Available' = Available /\ all \subseteq Available
  <2>1. collected \subseteq Available
    BY <1>1 DEF Kept, Typed
  <2> QED BY <1>1, <1>2, <2>1, PointsAre DEF Available
<1>4. Gapless(all, Hour)
  BY <1>1, PageIsGapless
<1>5. ASSUME ~ends
      PROVE  Max(all) \in all /\ Max(all) \in Nat /\ \A c \in all : c <= Max(all)
  <2>1. all \in SUBSET (0..MaxNow) /\ MaxNow \in Nat /\ all # {}
    BY <1>1, <1>3, <1>5, AvailableIs DEF Kept
  <2> HIDE DEF all, ends
  <2>2. Max(all) \in all /\ \A c \in all : c <= Max(all)
    BY <2>1, MaxIs
  <2>3. Max(all) \in 0..MaxNow
    BY <2>1, <2>2
  <2>4. Max(all) \in Nat
    BY <2>3
  <2> QED BY <2>2, <2>4
<1>6. ~ends => Ahead'
  <2> HIDE DEF all, ends
  <2>1. SUFFICES ASSUME ~ends PROVE Ahead'
    OBVIOUS
  <2>2. PICK m : m = Max(all)
    OBVIOUS
  <2>3. m \in collected' /\ cursor' = m + Hour /\ \A c \in collected' : c <= m
    BY <1>2, <1>5, <2>1, <2>2
  <2> QED BY <2>3 DEF Ahead
<1>7. cursor' \in Nat /\ pages' \in Nat
  <2> HIDE DEF all, ends
  <2>1. cursor \in Nat /\ pages \in Nat
    BY <1>1 DEF Kept, Typed
  <2> QED BY <1>1, <1>2, <1>5, <2>1
<1>8. Kept(Hour)'
  <2> HIDE DEF all, ends
  <2>1. Typed'
    BY <1>1, <1>2, <1>3, <1>7 DEF Kept, Typed
  <2> QED BY <1>1, <1>2, <1>3, <1>4, <2>1 DEF Kept, Gapless
<1>9. phase' = "asking" => ~ends
  <2> HIDE DEF all, ends
  <2> QED BY <1>2
<1> HIDE DEF all, ends
<1> QED BY <1>6, <1>8, <1>9 DEF FundingInv

LEMMA FundingStoreKeeps ==
  ASSUME FundingInv, StoreNext
  PROVE  FundingInv'
<1>1. Kept(Hour)'
  BY FundingAssumption, StoreKeeps DEF FundingInv
<1>2. CASE \E from \in Starts, refresh \in BOOLEAN : Load(from, refresh)
  <2>1. collected' = {}
    BY <1>2 DEF Load
  <2> QED BY <1>1, <2>1 DEF FundingInv, Ahead
<1>3. CASE RateLimited
  BY <1>1, <1>3 DEF RateLimited, Asking, FundingInv, Ahead
<1>4. CASE WalkEnds \/ RequestFails \/ WriteCache \/ CrashWhileWriting \/ TimePasses
  <2>1. phase' # "asking"
    BY <1>4 DEF WalkEnds, RequestFails, WriteCache, CrashWhileWriting, TimePasses
  <2> QED BY <1>1, <2>1 DEF FundingInv
<1> QED BY <1>2, <1>3, <1>4 DEF StoreNext

LEMMA FundingIsComplete == FundingInv => FundingComplete
<1> SUFFICES ASSUME FundingInv, NEW t \in Available, answer.rows # {},
                    Min(answer.rows) <= t, t <= Max(answer.rows), t \notin answer.rows
             PROVE  \E p \in answer.rows : p < t /\ t < p + Hour
  BY DEF FundingComplete
<1> DEFINE rows == answer.rows
<1>1. /\ rows \in SUBSET (0..MaxNow) /\ rows \in SUBSET Nat /\ MaxNow \in Nat
      /\ Gapless(rows, Hour)
  BY AvailableIs DEF FundingInv, Kept, Typed
<1>2. Min(rows) \in rows /\ Max(rows) \in rows
  <2>1. rows # {}
    OBVIOUS
  <2> HIDE DEF rows
  <2> QED BY <1>1, <2>1, MinIs, MaxIs
<1> QED BY <1>1, <1>2 DEF Gapless

-----------------------------------------------------------------------------
(* Both of them. *)

LEMMA NothingYet ==
  ASSUME NEW step, StoreInit, listed \subseteq 0..MaxNow, now \in Nat
  PROVE  Kept(step)
BY DEF StoreInit, NoFile, Nowhere, Kept, Typed, Gapless

LEMMA HistoryInvInit == DataInit => HistoryInv
<1>1. ASSUME HistoryInit PROVE CandleInv
  <2>1. listed \subseteq 0..MaxNow /\ now \in Nat /\ StoreInit /\ emptyWindows = 0
    <3>1. MaxNow - 1 \in Nat /\ MaxNow \in Nat
      BY StoreAssumption
    <3>2. 0..MaxNow - 1 \subseteq 0..MaxNow
      BY <3>1
    <3> QED BY <1>1, <3>1, <3>2 DEF HistoryInit
  <2>2. phase = "idle"
    BY <2>1 DEF StoreInit
  <2> QED BY <2>1, <2>2, NothingYet DEF CandleInv
<1>2. ASSUME FundingInit PROVE FundingInv
  <2>1. listed \subseteq 0..MaxNow /\ now \in Nat /\ StoreInit
    <3>1. MaxNow - 1 \in Nat /\ MaxNow \in Nat
      BY StoreAssumption
    <3>2. 0..MaxNow - 1 \subseteq 0..MaxNow
      BY <3>1
    <3> QED BY <1>2, <3>1, <3>2 DEF FundingInit, Stamps
  <2>2. phase = "idle"
    BY <2>1 DEF StoreInit
  <2> QED BY <2>1, <2>2, NothingYet DEF FundingInv
<1> QED BY <1>1, <1>2 DEF DataInit, HistoryInv

LEMMA HistoryInvNext == HistoryInv /\ [DataNext]_allVars => HistoryInv'
<1> SUFFICES ASSUME HistoryInv, [DataNext]_allVars PROVE HistoryInv'
  OBVIOUS
<1>1. CASE service = "candle history" /\ HistoryNext /\ UNCHANGED BesideHistory
  <2>1. CandleInv'
    BY <1>1, FetchRangeKeeps, CandleStoreKeeps DEF HistoryInv, HistoryNext
  <2>2. service' = "candle history"
    BY <1>1 DEF BesideHistory
  <2> QED BY <2>1, <2>2 DEF HistoryInv
<1>2. CASE service = "funding history" /\ FundingNext /\ UNCHANGED <<BesideHistory, emptyWindows>>
  <2>1. FundingInv'
    BY <1>2, FetchFundingKeeps, FundingStoreKeeps DEF HistoryInv, FundingNext
  <2>2. service' = "funding history"
    BY <1>2 DEF BesideHistory
  <2> QED BY <2>1, <2>2 DEF HistoryInv
<1>3. CASE service \in {"candles", "books", "metrics"} /\ service' = service
  BY <1>3 DEF HistoryInv
<1>4. CASE UNCHANGED allVars
  <2>1. UNCHANGED <<listed, broken, now, phase, start, finish, cursor, collected, pages, cache,
                    answer, emptyWindows, service>>
    BY <1>4 DEF allVars, historyVars, storeVars, request, paging
  <2>2. CandleInv' <=> CandleInv
    BY <2>1 DEF CandleInv, Kept, Typed, Gapless, Walked, Covered, AllThere, Following, NoLongGap,
                Requested, Available
  <2>3. FundingInv' <=> FundingInv
    BY <2>1 DEF FundingInv, Kept, Typed, Gapless, Ahead, Available
  <2> QED BY <2>1, <2>2, <2>3 DEF HistoryInv
<1> QED BY <1>1, <1>2, <1>3, <1>4 DEF DataNext, BesideCandles, BesideBooks, BesideMetrics

(* What load_candles() and load_funding() return has no hole that the      *)
(* exchange does not have, whatever was rate-limited, cut short, torn or   *)
(* cached; a fresh history of candles covers the range asked for, if the   *)
(* budget of requests allows it and the exchange has no gap of a window.   *)
THEOREM HistoriesComplete == DataSpec => []HistoryIsComplete
<1>1. HistoryInv => HistoryIsComplete
  BY CandlesAreComplete, FundingIsComplete DEF HistoryInv, HistoryIsComplete
<1> QED BY <1>1, HistoryInvInit, HistoryInvNext, PTL DEF DataSpec

-----------------------------------------------------------------------------
(* The order books. *)


Book == [ver : Nat, at : Nat]
BookFrame == [channel : {"l2Book"}, ver : Nat, bids : BOOLEAN, asks : BOOLEAN]
LastBook == books[Len(books)]

BooksTyped ==
  /\ clock \in Nat /\ sent \in Nat /\ lastPublished \in Int
  /\ books \in Seq(Book) /\ newest \in Book
  /\ wire \in Seq(BookFrame)

(* lastPublished is the time of the last book, when it is kept at all. *)
Measured ==
  /\ books = << >> => lastPublished = -1
  /\ books # << >> => /\ LastBook.at <= clock
                      /\ lastPublished = IF MinInterval > 0 THEN LastBook.at ELSE -1

BooksInv == BooksTyped /\ Measured /\ ThrottleSpacesAndPasses

LEMMA LastIs == ASSUME BooksTyped, books # << >> PROVE LastBook \in Book /\ LastBook.at \in Nat /\ Len(books) \in Nat \ {0}
<1>1. Len(books) \in 1..Len(books)
  BY DEF BooksTyped
<1>2. LastBook \in Book
  BY <1>1 DEF BooksTyped, LastBook
<1> QED BY <1>1, <1>2 DEF Book, BooksTyped

LEMMA BooksInvInit == ConnectionInit /\ BookInit => BooksInv
  BY BookAssumption
     DEF ConnectionInit, BookInit, BooksInv, BooksTyped, Measured, ThrottleSpacesAndPasses, Book, BookFrame

(* Steps that publish nothing. *)
LEMMA NothingPublished ==
  ASSUME BooksInv, UNCHANGED <<lastPublished, books, newest>>,
         clock' \in Nat, clock <= clock', sent' \in Nat, wire' \in Seq(BookFrame)
  PROVE  BooksInv'
<1>1. BooksTyped'
  BY DEF BooksInv, BooksTyped
<1>2. Measured'
  <2>1. books # << >> => LastBook.at <= clock'
    BY LastIs DEF BooksInv, BooksTyped, Measured
  <2> QED BY <2>1 DEF BooksInv, Measured, LastBook
<1>3. ThrottleSpacesAndPasses'
  BY DEF BooksInv, ThrottleSpacesAndPasses
<1> QED BY <1>1, <1>2, <1>3 DEF BooksInv

LEMMA ConnectionKeeps ==
  ASSUME BooksTyped, Reconnection
  PROVE  wire' \in Seq(BookFrame)
<1>1. wire' = wire \/ wire' = << >>
  <2>1. CASE Connect \/ ReceiveTimeout \/ Wake
    BY <2>1 DEF Connect, ReceiveTimeout, Wake
  <2>2. CASE Lose \/ GoSilent
    BY <2>2 DEF Lose, GoSilent
  <2> QED BY <2>1, <2>2 DEF Reconnection
<1>2. << >> \in Seq(BookFrame) /\ wire \in Seq(BookFrame)
  BY DEF BooksTyped
<1> QED BY <1>1, <1>2

(* A two-sided book that is not throttled is published. *)
LEMMA PublishedKeeps ==
  ASSUME BooksInv, NEW v \in Nat, ~Throttled,
         newest' = [ver |-> v, at |-> clock],
         lastPublished' = IF MinInterval > 0 THEN clock ELSE lastPublished,
         books' = Append(books, [ver |-> v, at |-> clock]),
         wire' \in Seq(BookFrame), UNCHANGED <<clock, sent>>
  PROVE  BooksInv'
<1> DEFINE b == [ver |-> v, at |-> clock]
           n == Len(books)
<1>1. BooksTyped /\ Measured /\ ThrottleSpacesAndPasses
  BY DEF BooksInv
<1>2. b \in Book /\ n \in Nat /\ clock \in Nat /\ b.at = clock /\ b.ver = v
  BY <1>1 DEF BooksTyped, Book
<1>3. /\ books' \in Seq(Book) /\ Len(books') = n + 1 /\ books' # << >>
      /\ books'[n + 1] = b
      /\ \A k \in 1..n : books'[k] = books[k]
  BY <1>1, <1>2 DEF BooksTyped
<1>4. BooksTyped'
  BY <1>1, <1>2, <1>3 DEF BooksTyped
<1>5. LastBook' = b
  BY <1>3 DEF LastBook
<1>6. Measured'
  <2>1. LastBook'.at <= clock'
    BY <1>2, <1>5
  <2>2. lastPublished' = IF MinInterval > 0 THEN LastBook'.at ELSE -1
    BY <1>1, <1>2, <1>5, BookAssumption DEF Measured
  <2> QED BY <1>3, <2>1, <2>2 DEF Measured
<1>7. books # << >> => clock - LastBook.at >= MinInterval
  <2> SUFFICES ASSUME books # << >> PROVE clock - LastBook.at >= MinInterval
    OBVIOUS
  <2>1. LastBook.at \in Nat
    BY <1>1, LastIs
  <2>2. CASE MinInterval > 0
    BY <1>1, <1>2, <2>1, <2>2, BookAssumption DEF Measured, Throttled
  <2>3. CASE ~(MinInterval > 0)
    BY <1>1, <1>2, <2>1, <2>3, BookAssumption DEF Measured
  <2> QED BY <2>2, <2>3
<1>8. ASSUME NEW k \in 1..n PROVE books'[k + 1].at - books'[k].at >= MinInterval
  <2>1. CASE k = n
    BY <1>2, <1>3, <1>7, <2>1 DEF LastBook
  <2>2. CASE k # n
    <3>1. k \in 1..n - 1 /\ k + 1 \in 1..n
      BY <1>2, <2>2
    <3>2. books'[k + 1] = books[k + 1] /\ books'[k] = books[k]
      BY <1>3, <3>1
    <3> QED BY <1>1, <3>1, <3>2 DEF ThrottleSpacesAndPasses
  <2> QED BY <2>1, <2>2
<1>9. ThrottleSpacesAndPasses'
  <2>1. Len(books') - 1 = n
    BY <1>2, <1>3
  <2>2. \A k \in 1..Len(books') - 1 : books'[k + 1].at - books'[k].at >= MinInterval
    BY <1>8, <2>1
  <2>3. newest'.ver = books'[Len(books')].ver
    BY <1>2, <1>3
  <2> QED BY <1>3, <2>2, <2>3 DEF ThrottleSpacesAndPasses
<1> QED BY <1>4, <1>6, <1>9 DEF BooksInv

(* A throttled one follows the last published too soon. *)
LEMMA WithheldKeeps ==
  ASSUME BooksInv, NEW v \in Nat, Throttled,
         newest' = [ver |-> v, at |-> clock], UNCHANGED <<lastPublished, books>>,
         wire' \in Seq(BookFrame), UNCHANGED <<clock, sent>>
  PROVE  BooksInv'
<1>1. BooksTyped /\ Measured /\ ThrottleSpacesAndPasses
  BY DEF BooksInv
<1>2. books # << >> /\ clock - LastBook.at < MinInterval
  <2>1. lastPublished >= 0 /\ clock - lastPublished < MinInterval
    BY DEF Throttled
  <2>2. books # << >>
    BY <1>1, <2>1 DEF Measured
  <2>3. lastPublished = LastBook.at
    BY <1>1, <2>1, <2>2 DEF Measured
  <2> QED BY <2>1, <2>2, <2>3
<1>3. BooksTyped'
  BY <1>1 DEF BooksTyped, Book
<1>4. Measured'
  BY <1>1 DEF Measured, LastBook
<1>5. ThrottleSpacesAndPasses'
  BY <1>1, <1>2 DEF ThrottleSpacesAndPasses, LastBook
<1> QED BY <1>3, <1>4, <1>5 DEF BooksInv

LEMMA BooksInvNext == BooksInv /\ [BookNext]_bookVars => BooksInv'
<1> SUFFICES ASSUME BooksInv, [BookNext]_bookVars PROVE BooksInv'
  OBVIOUS
<1>1. BooksTyped
  BY DEF BooksInv
<1>2. CASE Quote
  <2>1. PICK sides \in {{"bids"}, {"bids", "asks"}} : wire' = <<Snapshot(sent + 1, sides)>>
    BY <1>2 DEF Quote
  <2>2. Snapshot(sent + 1, sides) \in BookFrame
    BY <1>1 DEF BooksTyped, Snapshot, BookFrame
  <2>3. wire' \in Seq(BookFrame)
    BY <2>1, <2>2
  <2> QED BY <1>1, <1>2, <2>3, NothingPublished DEF Quote, BooksTyped
<1>3. CASE BookClock
  BY <1>1, <1>3, NothingPublished DEF BookClock, BooksTyped, connection
<1>4. CASE TakeBook
  <2>1. PICK f : f = Head(wire)
    OBVIOUS
  <2>2. f \in BookFrame /\ wire' \in Seq(BookFrame) /\ HandleBook(f) /\ UNCHANGED <<clock, sent>>
    BY <1>1, <1>4, <2>1 DEF TakeBook, Recv, BooksTyped
  <2>3. f.ver \in Nat
    BY <2>2 DEF BookFrame
  <2>4. CASE f.bids /\ f.asks /\ ~Throttled
    BY <2>2, <2>3, <2>4, PublishedKeeps DEF HandleBook
  <2>5. CASE f.bids /\ f.asks /\ Throttled
    BY <2>2, <2>3, <2>5, WithheldKeeps DEF HandleBook
  <2>6. CASE ~(f.bids /\ f.asks)
    BY <1>1, <2>2, <2>6, NothingPublished DEF HandleBook, BooksTyped
  <2> QED BY <2>4, <2>5, <2>6
<1>5. CASE BookConnection
  BY <1>1, <1>5, ConnectionKeeps, NothingPublished DEF BookConnection, BooksTyped
<1>6. CASE UNCHANGED bookVars
  BY <1>1, <1>6, NothingPublished DEF bookVars, connection, BooksTyped
<1> QED BY <1>2, <1>3, <1>4, <1>5, <1>6 DEF BookNext

(* Two published books lie the interval apart, and a book that was not     *)
(* published came less than the interval after the one that was            *)
(* (_should_publish, handle_book).                                         *)
THEOREM BooksSpaced == BookSpec => []ThrottleSpacesAndPasses
<1>1. BooksInv => ThrottleSpacesAndPasses
  BY DEF BooksInv
<1> QED BY <1>1, BooksInvInit, BooksInvNext, PTL DEF BookSpec
=============================================================================
