------------------------ MODULE PositionMonitorProofs ------------------------
(***************************************************************************)
(* Theorems about the position monitor, for any symbols, prices, levels    *)
(* and trail, and any number of failing statements and crashes: a stop     *)
(* never loosens, exits are at most one per symbol, a pending exit was     *)
(* sent, and the table is never behind.                                    *)
(*                                                                         *)
(* AtMostOneExit is not inductive: it says nothing of the symbol that may  *)
(* fire next.  Armed adds that a record that is not waiting for an exit,   *)
(* in memory or in the table a restart reads, has none in flight; and the  *)
(* exit in the outbox, which a crash loses, is one that is counted.        *)
(***************************************************************************)
EXTENDS PositionMonitor, FiniteSetTheorems, TLAPS

Record == [direction : Directions, size : Nat, stop : Nat, target : Nat, trail : Percent,
           extreme : Nat, exitPending : BOOLEAN]
Table(f) == DOMAIN f \subseteq Symbols /\ \A s \in DOMAIN f : f[s] \in Record

(* What is not waiting for an exit has none in flight. *)
Armed(f) == \A s \in DOMAIN f : ~f[s].exitPending => outstanding[s] = 0

Core ==
  /\ Table(positions) /\ Table(store)
  /\ outstanding \in [Symbols -> Int] /\ dbFailures \in Nat
  /\ AtMostOneExit /\ Armed(positions) /\ Armed(store)
  /\ DurableStop /\ PendingExitWasSent

Single(q) == q = <<q[1]>>

Rest ==
  /\ \A id \in DOMAIN pendingOrders : pendingOrders[id] \in Levels
  /\ up \in BOOLEAN /\ crashes \in Nat
  /\ crashes = 0 => up
  /\ \/ outbox = << >>
     \/ /\ Single(outbox) /\ outbox[1].symbol \in Symbols
        /\ outstanding[outbox[1].symbol] = 1

Inv == Core /\ Rest

LEMMA SingleIs ==
  /\ \A q : Single(q) => Len(q) = 1 /\ Tail(q) = << >>
  /\ \A x : Single(<<x>>) /\ <<x>>[1] = x
<1>1. ASSUME NEW q, Single(q) PROVE Len(q) = 1 /\ Tail(q) = << >>
  <2>1. PICK x : q = <<x>>
    BY <1>1 DEF Single
  <2> QED BY <2>1
<1>2. \A x : Single(<<x>>) /\ <<x>>[1] = x
  BY DEF Single
<1> QED BY <1>1, <1>2

LEMMA Scaled ==
  ASSUME NEW a \in Nat, NEW b \in Nat, NEW n \in Nat, a <= b
  PROVE  a * n <= b * n /\ a * n \in Nat
  OBVIOUS

LEMMA Tightens ==
  ASSUME NEW r \in Record, NEW p \in Nat \ {0}
  PROVE  AtLeastAsTight(r.direction, EffectiveStop(Observe(r, p)), EffectiveStop(r))
<1> DEFINE x == Observe(r, p).extreme
<1>1. /\ r.direction \in {"long", "short"}
      /\ r.stop \in Nat /\ r.extreme \in Nat /\ r.trail \in 0..100
      /\ 100 - r.trail \in Nat /\ 100 + r.trail \in Nat
  BY DEF Record, Directions, Percent
<1>2. /\ Observe(r, p).direction = r.direction
      /\ Observe(r, p).stop = r.stop
      /\ Observe(r, p).trail = r.trail
      /\ x = IF r.extreme = 0 THEN p ELSE Better(r.direction, r.extreme, p)
  BY DEF Observe, Record, None
<1>3. /\ x \in Nat \ {0}
      /\ r.extreme # 0 =>
           IF r.direction = "long" THEN r.extreme <= x ELSE x <= r.extreme
  BY <1>1, <1>2 DEF Better
<1> HIDE DEF x
<1>4. CASE r.direction = "long"
  <2> DEFINE old == r.extreme * (100 - r.trail)
             new == x * (100 - r.trail)
  <2>1. r.extreme # 0 => old <= new
    BY <1>1, <1>3, <1>4, Scaled
  <2>2. old \in Nat /\ new \in Nat
    BY <1>1, <1>3, Scaled
  <2>3. /\ TrailingStop(r) = IF r.trail = 0 \/ r.extreme = 0 THEN 0 ELSE old
        /\ TrailingStop(Observe(r, p)) = IF r.trail = 0 \/ x = 0 THEN 0 ELSE new
    BY <1>2, <1>4 DEF TrailingStop, None, x
  <2> HIDE DEF old, new
  <2> QED BY <1>1, <1>2, <1>3, <1>4, <2>1, <2>2, <2>3
          DEF AtLeastAsTight, EffectiveStop, Better, Reached, None
<1>5. CASE r.direction = "short"
  <2> DEFINE old == r.extreme * (100 + r.trail)
             new == x * (100 + r.trail)
  <2>1. r.extreme # 0 => new <= old
    BY <1>1, <1>3, <1>5, Scaled
  <2>2. old \in Nat /\ new \in Nat /\ new # 0
    BY <1>1, <1>3, Scaled
  <2>3. /\ TrailingStop(r) = IF r.trail = 0 \/ r.extreme = 0 THEN 0 ELSE old
        /\ TrailingStop(Observe(r, p)) = IF r.trail = 0 \/ x = 0 THEN 0 ELSE new
    BY <1>2, <1>5 DEF TrailingStop, None, x
  <2> HIDE DEF old, new
  <2> QED BY <1>1, <1>2, <1>3, <1>5, <2>1, <2>2, <2>3
          DEF AtLeastAsTight, EffectiveStop, Better, Reached, None
<1> QED BY <1>1, <1>4, <1>5

LEMMA SameStop ==
  ASSUME NEW r \in Record, NEW q \in Record,
         r.direction = q.direction, r.stop = q.stop, r.trail = q.trail, r.extreme = q.extreme
  PROVE  EffectiveStop(q) = EffectiveStop(r)
  BY DEF Record, EffectiveStop, TrailingStop
(* A record is put in memory and, if the statement succeeds, in the table; *)
(* its exit is no longer in flight, or stays as it was.                    *)
Kept(s, r) ==
  /\ UNCHANGED outstanding
  /\ s \in Tracked /\ r.exitPending = positions[s].exitPending

LEMMA PutKeeps ==
  ASSUME Core, NEW s \in Symbols, NEW r \in Record,
         positions' = With(positions, s, r), Persist(s, r),
         (Touch(s) /\ ~r.exitPending) \/ Kept(s, r), UNCHANGED <<up, crashes>>
  PROVE  Core'
<1>1. /\ positions' = With(positions, s, r)
      /\ \/ store' = With(store, s, r) /\ dbFailures' = dbFailures
         \/ store' = store /\ dbFailures' = dbFailures + 1
  BY DEF Persist, Raise
<1>2. /\ DOMAIN positions' = Tracked \cup {s} /\ positions'[s] = r
      /\ \A x \in Tracked \ {s} : positions'[x] = positions[x]
  BY <1>1 DEF Tracked, With
<1>3. \/ /\ DOMAIN store' = DOMAIN store \cup {s} /\ store'[s] = r
         /\ \A x \in DOMAIN store \ {s} : store'[x] = store[x]
         /\ dbFailures' = dbFailures
      \/ store' = store /\ dbFailures' = dbFailures + 1
  BY <1>1 DEF With
<1>4. /\ outstanding' \in [Symbols -> Int]
      /\ \A x \in Symbols \ {s} : outstanding'[x] = outstanding[x]
      /\ \/ outstanding'[s] = 0 /\ ~r.exitPending
         \/ outstanding' = outstanding /\ s \in Tracked /\ r.exitPending = positions[s].exitPending
  BY DEF Core, Touch, Kept
<1>5. Table(positions') /\ Table(store') /\ dbFailures' \in Nat
  BY <1>2, <1>3 DEF Core, Table, Tracked
<1>6. AtMostOneExit'
  BY <1>4 DEF Core, AtMostOneExit
<1>7. Armed(positions)'
  BY <1>2, <1>4 DEF Core, Armed, Table, Tracked
<1>8. Armed(store)'
  BY <1>3, <1>4 DEF Core, Armed, Table, Tracked
<1>9. DurableStop'
  <2> SUFFICES ASSUME dbFailures' = 0
               PROVE  /\ DOMAIN store' = DOMAIN positions'
                      /\ \A x \in DOMAIN positions' :
                           /\ store'[x].size = positions'[x].size
                           /\ store'[x].direction = positions'[x].direction
                           /\ store'[x].exitPending = positions'[x].exitPending
                           /\ ~positions'[x].exitPending =>
                                EffectiveStop(store'[x]) = EffectiveStop(positions'[x])
    BY DEF DurableStop, Tracked
  <2>1. dbFailures = 0 /\ dbFailures' = dbFailures
    BY <1>3 DEF Core
  <2>2. /\ DOMAIN store = Tracked
        /\ \A x \in Tracked :
             /\ store[x].size = positions[x].size
             /\ store[x].direction = positions[x].direction
             /\ store[x].exitPending = positions[x].exitPending
             /\ ~positions[x].exitPending => EffectiveStop(store[x]) = EffectiveStop(positions[x])
    BY <2>1 DEF Core, DurableStop
  <2> QED BY <1>2, <1>3, <2>1, <2>2
<1>10. PendingExitWasSent'
  BY <1>2, <1>3, <1>4 DEF Core, PendingExitWasSent, Table, Tracked
<1> QED BY <1>4, <1>5, <1>6, <1>7, <1>8, <1>9, <1>10 DEF Core

(* A position is forgotten: its exit, if there was one, has been answered. *)
LEMMA ForgetKeeps ==
  ASSUME Core, NEW s \in Symbols, Forget(s), Touch(s), UNCHANGED <<up, crashes>>
  PROVE  Core'
<1>1. /\ positions' = Without(positions, s)
      /\ \/ store' = Without(store, s) /\ dbFailures' = dbFailures
         \/ store' = store /\ dbFailures' = dbFailures + 1
  BY DEF Forget, Raise
<1>2. /\ DOMAIN positions' = Tracked \ {s}
      /\ \A x \in Tracked \ {s} : positions'[x] = positions[x]
  BY <1>1 DEF Tracked, Without
<1>3. \/ /\ DOMAIN store' = DOMAIN store \ {s}
         /\ \A x \in DOMAIN store \ {s} : store'[x] = store[x]
         /\ dbFailures' = dbFailures
      \/ store' = store /\ dbFailures' = dbFailures + 1
  BY <1>1 DEF Without
<1>4. /\ outstanding' \in [Symbols -> Int]
      /\ \A x \in Symbols \ {s} : outstanding'[x] = outstanding[x]
      /\ outstanding'[s] = 0
  BY DEF Core, Touch
<1>5. Table(positions') /\ Table(store') /\ dbFailures' \in Nat
  BY <1>2, <1>3 DEF Core, Table, Tracked
<1>6. AtMostOneExit'
  BY <1>4 DEF Core, AtMostOneExit
<1>7. Armed(positions)'
  BY <1>2, <1>4 DEF Core, Armed, Table, Tracked
<1>8. Armed(store)'
  BY <1>3, <1>4 DEF Core, Armed, Table, Tracked
<1>9. DurableStop'
  <2> SUFFICES ASSUME dbFailures' = 0
               PROVE  /\ DOMAIN store' = DOMAIN positions'
                      /\ \A x \in DOMAIN positions' :
                           /\ store'[x].size = positions'[x].size
                           /\ store'[x].direction = positions'[x].direction
                           /\ store'[x].exitPending = positions'[x].exitPending
                           /\ ~positions'[x].exitPending =>
                                EffectiveStop(store'[x]) = EffectiveStop(positions'[x])
    BY DEF DurableStop, Tracked
  <2>1. dbFailures = 0 /\ dbFailures' = dbFailures
    BY <1>3 DEF Core
  <2>2. /\ DOMAIN store = Tracked
        /\ \A x \in Tracked :
             /\ store[x].size = positions[x].size
             /\ store[x].direction = positions[x].direction
             /\ store[x].exitPending = positions[x].exitPending
             /\ ~positions[x].exitPending => EffectiveStop(store[x]) = EffectiveStop(positions[x])
    BY <2>1 DEF Core, DurableStop
  <2> QED BY <1>2, <1>3, <2>1, <2>2
<1>10. PendingExitWasSent'
  BY <1>2, <1>3, <1>4 DEF Core, PendingExitWasSent, Table, Tracked
<1> QED BY <1>4, <1>5, <1>6, <1>7, <1>8, <1>9, <1>10 DEF Core
(* The events are of the right types. *)
LEMMA EventTypes ==
  /\ \A f \in Fills : /\ f.symbol \in Symbols /\ f.direction \in Directions
                      /\ f.size \in Nat \ {0} /\ f.price \in Nat \ {0}
  /\ \A live \in Snapshots : \A s \in DOMAIN live :
       /\ s \in Symbols /\ live[s].direction \in Directions /\ live[s].size \in Nat
       /\ live[s].stop \in Nat /\ live[s].target \in Nat /\ live[s].trail \in Percent
       /\ live[s].mark \in Nat
  /\ \A id \in OrderIds : \A o \in OpeningOrders(id) : o.levels \in Levels
<1>1. Protections["long"] \subseteq Levels /\ Protections["short"] \subseteq Levels
  BY MonitorAssumption DEF Directions
<1>2. \A f \in Fills : /\ f.symbol \in Symbols /\ f.direction \in Directions
                       /\ f.size \in Nat \ {0} /\ f.price \in Nat \ {0}
  <2>1. 1..MaxSize \subseteq Nat \ {0} /\ Prices \subseteq Nat \ {0}
    BY MonitorAssumption
  <2> SUFFICES ASSUME NEW f \in Fills
               PROVE  /\ f.symbol \in Symbols /\ f.direction \in Directions
                      /\ f.size \in 1..MaxSize /\ f.price \in Prices
    BY <2>1
  <2> QED BY DEF Fills
<1>3. \A d \in Directions : \A h \in Holding(d) :
        /\ h.direction \in Directions /\ h.size \in Nat
        /\ h.stop \in Nat /\ h.target \in Nat /\ h.trail \in Percent /\ h.mark \in Nat
  <2>1. MaxSize \in Nat /\ Prices \subseteq Nat /\ 0 \in Percent
    BY MonitorAssumption DEF Percent
  <2> SUFFICES ASSUME NEW d \in Directions, NEW h \in Holding(d)
               PROVE  /\ h.direction \in Directions /\ h.size \in Nat
                      /\ h.stop \in Nat /\ h.target \in Nat /\ h.trail \in Percent
                      /\ h.mark \in Nat
    OBVIOUS
  <2>2. CASE h \in [direction : {d}, size : 1..MaxSize, stop : {None}, target : {None},
                    trail : {None}, mark : Prices]
    <3>1. /\ h.direction \in {d} /\ h.size \in 1..MaxSize /\ h.stop \in {None}
          /\ h.target \in {None} /\ h.trail \in {None} /\ h.mark \in Prices
      BY <2>2
    <3>2. h.direction = d /\ h.stop = 0 /\ h.target = 0 /\ h.trail = 0
      BY <3>1 DEF None
    <3>3. h.direction \in Directions
      BY <3>2
    <3>4. h.size \in Nat
      BY <2>1, <3>1
    <3>5. h.stop \in Nat /\ h.target \in Nat /\ h.trail \in Percent
      BY <2>1, <3>2
    <3>6. h.mark \in Nat
      BY <2>1, <3>1
    <3> QED BY <3>3, <3>4, <3>5, <3>6
  <2>3. CASE \E l \in Protections[d], m \in Prices :
               h = [direction |-> d, size |-> 1, stop |-> l.stop, target |-> l.target,
                    trail |-> l.trail, mark |-> m]
    <3>1. PICK l \in Protections[d], m \in Prices :
               h = [direction |-> d, size |-> 1, stop |-> l.stop, target |-> l.target,
                    trail |-> l.trail, mark |-> m]
      BY <2>3
    <3>2. l \in Levels
      BY <1>1 DEF Directions
    <3> QED BY <2>1, <3>1, <3>2 DEF Levels
  <2> QED BY <2>2, <2>3 DEF Holding
<1>4. \A live \in Snapshots : \A s \in DOMAIN live :
        s \in Symbols /\ live[s] \in Holding("long") \cup Holding("short")
  BY DEF Snapshots
<1>5. \A id \in OrderIds : \A o \in OpeningOrders(id) : o.levels \in Levels
  BY <1>1 DEF OpeningOrders
<1> QED BY <1>2, <1>3, <1>4, <1>5 DEF Directions

LEMMA GuardTyped ==
  ASSUME NEW d \in Directions, NEW n \in Nat, NEW x \in Nat, NEW l,
         l.stop \in Nat, l.target \in Nat, l.trail \in Percent
  PROVE  Guard(d, n, l, x) \in Record /\ ~Guard(d, n, l, x).exitPending
  BY MonitorAssumption DEF Guard, Record

(* What an event that may leave orders pending does to the rest of the     *)
(* invariant, as it is handled while no exit waits to be published.        *)
LEMMA RestKept ==
  ASSUME Rest, outbox = << >>, UNCHANGED <<up, crashes, outbox>>,
         \A id \in DOMAIN pendingOrders' : pendingOrders'[id] \in Levels
  PROVE  Rest'
  BY DEF Rest

LEMMA OrderKeeps ==
  ASSUME Inv, outbox = << >>, NEW id \in OrderIds, NEW o \in OpeningOrders(id), OnOrder(o),
         UNCHANGED <<up, crashes, outbox>>
  PROVE  Inv'
<1>1. o.levels \in Levels
  BY EventTypes
<1>2. \A x \in DOMAIN pendingOrders' : pendingOrders'[x] \in Levels
  BY <1>1 DEF Inv, Rest, OnOrder, With
<1>3. Core'
  BY DEF Inv, OnOrder, Core, Table, AtMostOneExit, Armed, DurableStop, PendingExitWasSent, Tracked
<1> QED BY <1>2, <1>3, RestKept DEF Inv

LEMMA FillKeeps ==
  ASSUME Inv, outbox = << >>, NEW f \in Fills, OnFill(f), UNCHANGED <<up, crashes, outbox>>
  PROVE  Inv'
<1> DEFINE s == f.symbol
<1>1. /\ s \in Symbols /\ f.direction \in Directions
      /\ f.size \in Nat \ {0} /\ f.price \in Nat \ {0}
  BY EventTypes
<1>2. \A x \in Tracked : positions[x] \in Record
  BY DEF Inv, Core, Table, Tracked
<1> HIDE DEF s
<1>3. CASE OnReducingFill(f)
  <2> DEFINE kept == [positions[s] EXCEPT !.size = positions[s].size - f.size,
                                          !.exitPending = FALSE]
  <2>1. /\ s \in Tracked /\ Touch(s) /\ pendingOrders' = pendingOrders
        /\ \/ Forget(s)
           \/ /\ ~(positions[s].size - f.size <= 0)
              /\ positions' = With(positions, s, kept) /\ Persist(s, kept)
    BY <1>3 DEF OnReducingFill, s
  <2>2. ~(positions[s].size - f.size <= 0) => kept \in Record /\ ~kept.exitPending
    <3>1. positions[s] \in Record /\ positions[s].size \in Nat
      BY <1>2, <2>1 DEF Record
    <3>2. ~(positions[s].size - f.size <= 0) => positions[s].size - f.size \in Nat
      BY <1>1, <3>1
    <3> QED BY <3>1, <3>2 DEF Record
  <2> HIDE DEF kept
  <2>3. Core'
    BY <1>1, <2>1, <2>2, ForgetKeeps, PutKeeps DEF Inv
  <2> QED BY <2>1, <2>3, RestKept DEF Inv, Rest
<1>4. CASE OnAddingFill(f)
  <2> DEFINE grown == [positions[s] EXCEPT !.size = @ + f.size]
  <2>1. /\ s \in Tracked /\ UNCHANGED outstanding
        /\ pendingOrders' = Without(pendingOrders, f.order)
        /\ positions' = With(positions, s, grown) /\ Persist(s, grown)
    BY <1>4 DEF OnAddingFill, s
  <2>2. grown \in Record /\ grown.exitPending = positions[s].exitPending
    BY <1>1, <1>2, <2>1 DEF Record
  <2> HIDE DEF grown
  <2>3. Core'
    BY <1>1, <2>1, <2>2, PutKeeps DEF Inv, Kept
  <2> QED BY <2>1, <2>3, RestKept DEF Inv, Rest, Without
<1>5. CASE OnOpeningFill(f)
  <2> DEFINE r == Guard(f.direction, f.size, pendingOrders[f.order], f.price)
  <2>1. pendingOrders' = Without(pendingOrders, f.order)
    BY <1>5 DEF OnOpeningFill
  <2>2. CASE f.order \in DOMAIN pendingOrders
    <3>1. positions' = With(positions, s, r) /\ Persist(s, r) /\ Touch(s)
      BY <1>5, <2>2 DEF OnOpeningFill, s
    <3>2. pendingOrders[f.order] \in Levels
      BY <2>2 DEF Inv, Rest
    <3>3. r \in Record /\ ~r.exitPending
      BY <1>1, <3>2, GuardTyped DEF Levels
    <3> HIDE DEF r
    <3>4. Core'
      BY <1>1, <3>1, <3>3, PutKeeps DEF Inv
    <3> QED BY <2>1, <3>4, RestKept DEF Inv, Rest, Without
  <2>3. CASE f.order \notin DOMAIN pendingOrders
    <3>1. UNCHANGED <<positions, store, dbFailures, outstanding>>
      BY <1>5, <2>3 DEF OnOpeningFill
    <3>2. Core'
      BY <3>1 DEF Inv, Core, Table, AtMostOneExit, Armed, DurableStop, PendingExitWasSent, Tracked
    <3> QED BY <2>1, <3>2, RestKept DEF Inv, Rest, Without
  <2> QED BY <2>2, <2>3
<1> QED BY <1>3, <1>4, <1>5 DEF OnFill
(* A tick moves the extreme of a record, and may fire its exit. *)
LEMMA PriceKeeps ==
  ASSUME Inv, outbox = << >>, NEW s \in Symbols, NEW p \in Prices, OnPrice(s, p),
         UNCHANGED <<up, crashes>>
  PROVE  Inv'
<1> DEFINE seen == Observe(positions[s], p)
           fired == [seen EXCEPT !.exitPending = TRUE]
           exit == Exit(s, fired, Breach(seen, p))
<1>1. s \in Tracked /\ positions[s] \in Record /\ p \in Nat \ {0}
  BY MonitorAssumption DEF Inv, Core, Table, OnPrice, Tracked
<1>2. /\ seen \in Record /\ fired \in Record
      /\ seen.exitPending = positions[s].exitPending /\ seen.size = positions[s].size
      /\ seen.direction = positions[s].direction /\ fired.direction = seen.direction
      /\ fired.exitPending
  BY <1>1 DEF Observe, Record, Better
<1>3. /\ pendingOrders' = pendingOrders
      /\ \/ /\ positions' = With(positions, s, seen) /\ UNCHANGED <<outbox, outstanding>>
            /\ \/ Persist(s, seen)
               \/ /\ UNCHANGED <<store, dbFailures>>
                  /\ HeldBack(seen) \/ EffectiveStop(seen) = EffectiveStop(positions[s])
         \/ /\ ~HeldBack(seen) /\ positions' = With(positions, s, fired)
            /\ \/ /\ store' = With(store, s, fired) /\ UNCHANGED dbFailures
                  /\ outbox' = Append(outbox, exit)
                  /\ outstanding' = [outstanding EXCEPT ![s] = @ + 1]
               \/ Raise /\ UNCHANGED <<outbox, outstanding>>
  BY DEF OnPrice
<1>4. exit.symbol = s
  BY DEF Exit
<1> HIDE DEF seen, fired, exit
<1>5. CASE positions' = With(positions, s, seen) /\ Persist(s, seen) /\ UNCHANGED <<outbox, outstanding>>
  BY <1>1, <1>2, <1>3, <1>5, PutKeeps, RestKept DEF Inv, Rest, Kept
<1>6. CASE /\ positions' = With(positions, s, seen) /\ UNCHANGED <<outbox, outstanding>>
           /\ UNCHANGED <<store, dbFailures>>
           /\ HeldBack(seen) \/ EffectiveStop(seen) = EffectiveStop(positions[s])
  <2>1. /\ DOMAIN positions' = Tracked /\ positions'[s] = seen
        /\ \A x \in Tracked \ {s} : positions'[x] = positions[x]
    BY <1>1, <1>6 DEF With, Tracked
  <2>2. DurableStop'
    BY <1>1, <1>2, <1>6, <2>1 DEF Inv, Core, DurableStop, Tracked, HeldBack
  <2>3. Core'
    BY <1>1, <1>2, <1>6, <2>1, <2>2
       DEF Inv, Core, Table, AtMostOneExit, Armed, PendingExitWasSent, Tracked, HeldBack
  <2> QED BY <1>3, <1>6, <2>3, RestKept DEF Inv, Rest
<1>7. CASE /\ ~HeldBack(seen) /\ positions' = With(positions, s, fired)
           /\ store' = With(store, s, fired) /\ UNCHANGED dbFailures
           /\ outbox' = Append(outbox, exit)
           /\ outstanding' = [outstanding EXCEPT ![s] = @ + 1]
  <2>1. /\ DOMAIN positions' = Tracked /\ positions'[s] = fired
        /\ \A x \in Tracked \ {s} : positions'[x] = positions[x]
        /\ DOMAIN store' = DOMAIN store \cup {s} /\ store'[s] = fired
        /\ \A x \in DOMAIN store \ {s} : store'[x] = store[x]
    BY <1>1, <1>7 DEF With, Tracked
  <2>2. ~positions[s].exitPending /\ outstanding[s] = 0
    BY <1>1, <1>2, <1>7 DEF Inv, Core, Armed, HeldBack, Tracked
  <2>3. /\ outstanding' \in [Symbols -> Int] /\ outstanding'[s] = 1
        /\ \A x \in Symbols \ {s} : outstanding'[x] = outstanding[x]
    BY <1>7, <2>2 DEF Inv, Core
  <2>4. /\ Table(positions') /\ Table(store') /\ dbFailures' \in Nat
        /\ AtMostOneExit' /\ Armed(positions)' /\ Armed(store)'
    BY <1>1, <1>2, <1>7, <2>1, <2>3 DEF Inv, Core, Table, AtMostOneExit, Armed, Tracked
  <2>5. DurableStop'
    <3> SUFFICES ASSUME dbFailures' = 0
                 PROVE  /\ DOMAIN store' = DOMAIN positions'
                        /\ \A x \in DOMAIN positions' :
                             /\ store'[x].size = positions'[x].size
                             /\ store'[x].direction = positions'[x].direction
                             /\ store'[x].exitPending = positions'[x].exitPending
                             /\ ~positions'[x].exitPending =>
                                  EffectiveStop(store'[x]) = EffectiveStop(positions'[x])
      BY DEF DurableStop, Tracked
    <3>1. /\ DOMAIN store = Tracked
          /\ \A x \in Tracked :
               /\ store[x].size = positions[x].size
               /\ store[x].direction = positions[x].direction
               /\ store[x].exitPending = positions[x].exitPending
               /\ ~positions[x].exitPending => EffectiveStop(store[x]) = EffectiveStop(positions[x])
      BY <1>7 DEF Inv, Core, DurableStop
    <3> QED BY <1>1, <2>1, <3>1
  <2>6. PendingExitWasSent'
    BY <1>7, <2>1, <2>3 DEF Inv, Core, Table, PendingExitWasSent, Tracked
  <2>7. outbox' = <<exit>>
    BY <1>7
  <2>8. Rest'
    BY <1>3, <1>4, <2>3, <2>7, SingleIs DEF Inv, Rest
  <2> QED BY <2>3, <2>4, <2>5, <2>8, <2>6 DEF Inv, Core
<1>8. CASE /\ positions' = With(positions, s, fired) /\ Raise /\ UNCHANGED <<outbox, outstanding>>
  <2>1. /\ DOMAIN positions' = Tracked /\ positions'[s] = fired
        /\ \A x \in Tracked \ {s} : positions'[x] = positions[x]
    BY <1>1, <1>8 DEF With, Tracked
  <2>2. store' = store /\ dbFailures' = dbFailures + 1 /\ dbFailures \in Nat
    BY <1>8 DEF Raise, Inv, Core
  <2>3. Core'
    BY <1>1, <1>2, <1>8, <2>1, <2>2
       DEF Inv, Core, Table, AtMostOneExit, Armed, DurableStop, PendingExitWasSent, Tracked
  <2> QED BY <1>3, <1>8, <2>3, RestKept DEF Inv, Rest
<1> QED BY <1>3, <1>5, <1>6, <1>7, <1>8

LEMMA SnapshotEffect ==
  ASSUME NEW live, OnSnapshot(live)
  PROVE  /\ pendingOrders' = pendingOrders
         /\ \E done \in SUBSET (Dropped(live) \cup Unguarded(live)) : \E saved \in SUBSET done :
              /\ Reconciled(live, done, saved)
              /\ \/ saved = done /\ dbFailures' = dbFailures
                 \/ dbFailures' = dbFailures + 1
<1> DEFINE all == Dropped(live) \cup Unguarded(live)
<1>1. CASE Reconciled(live, all, all) /\ UNCHANGED dbFailures
  BY <1>1 DEF OnSnapshot
<1>2. CASE \E bad \in all, done \in SUBSET all :
             Reconciled(live, done \cup {bad}, done) /\ dbFailures' = dbFailures + 1
  <2>1. PICK bad \in all, done \in SUBSET all :
             Reconciled(live, done \cup {bad}, done) /\ dbFailures' = dbFailures + 1
    BY <1>2
  <2>2. done \cup {bad} \in SUBSET all /\ done \in SUBSET (done \cup {bad})
    OBVIOUS
  <2> QED BY <2>1, <2>2 DEF OnSnapshot
<1> QED BY <1>1, <1>2 DEF OnSnapshot

(* A snapshot: what it lacks is dropped, what it adds is adopted unarmed.  *)
LEMMA SnapshotKeeps ==
  ASSUME Inv, outbox = << >>, NEW live \in Snapshots, OnSnapshot(live),
         UNCHANGED <<up, crashes, outbox>>
  PROVE  Inv'
<1>1. \A s \in DOMAIN live :
        s \in Symbols /\ Adopted(live[s]) \in Record /\ ~Adopted(live[s]).exitPending
  BY EventTypes, GuardTyped DEF Adopted
<1>2. PICK done \in SUBSET (Dropped(live) \cup Unguarded(live)) : \E saved \in SUBSET done :
        /\ Reconciled(live, done, saved)
        /\ \/ saved = done /\ dbFailures' = dbFailures
           \/ dbFailures' = dbFailures + 1
  BY SnapshotEffect
<1>3. PICK saved \in SUBSET done :
        /\ Reconciled(live, done, saved)
        /\ \/ saved = done /\ dbFailures' = dbFailures
           \/ dbFailures' = dbFailures + 1
  BY <1>2
<1>4. /\ DOMAIN positions' = (Tracked \ (Dropped(live) \cap done)) \cup (Unguarded(live) \cap done)
      /\ \A s \in DOMAIN positions' :
           \/ s \in Tracked /\ s \notin done /\ positions'[s] = positions[s]
           \/ s \notin Tracked /\ s \in Unguarded(live) \cap done /\ positions'[s] = Adopted(live[s])
  BY <1>2, <1>3 DEF Reconciled, Tracked, Dropped, Unguarded
<1>5. /\ DOMAIN store' = (DOMAIN store \ (Dropped(live) \cap saved)) \cup (Unguarded(live) \cap saved)
      /\ \A s \in DOMAIN store' :
           \/ s \in Unguarded(live) \cap saved /\ store'[s] = Adopted(live[s])
           \/ s \in DOMAIN store /\ s \notin Unguarded(live) \cap saved /\ store'[s] = store[s]
  BY <1>3 DEF Reconciled
<1>6. /\ outstanding' \in [Symbols -> Int] /\ dbFailures' \in Nat
      /\ \A s \in Symbols : outstanding'[s] = IF s \in done THEN 0 ELSE outstanding[s]
  BY <1>3 DEF Reconciled, Inv, Core
<1>7. Table(positions') /\ Table(store')
  BY <1>1, <1>4, <1>5 DEF Inv, Core, Table, Tracked, Unguarded
<1>8. AtMostOneExit' /\ Armed(positions)' /\ Armed(store)'
  BY <1>1, <1>4, <1>5, <1>6, <1>7 DEF Inv, Core, Table, AtMostOneExit, Armed, Tracked
<1>9. DurableStop'
  <2> SUFFICES ASSUME dbFailures' = 0
               PROVE  /\ DOMAIN store' = DOMAIN positions'
                      /\ \A x \in DOMAIN positions' :
                           /\ store'[x].size = positions'[x].size
                           /\ store'[x].direction = positions'[x].direction
                           /\ store'[x].exitPending = positions'[x].exitPending
                           /\ ~positions'[x].exitPending =>
                                EffectiveStop(store'[x]) = EffectiveStop(positions'[x])
    BY DEF DurableStop, Tracked
  <2>1. dbFailures = 0 /\ saved = done
    BY <1>3 DEF Inv, Core, Reconciled
  <2>2. /\ DOMAIN store = Tracked
        /\ \A x \in Tracked :
             /\ store[x].size = positions[x].size
             /\ store[x].direction = positions[x].direction
             /\ store[x].exitPending = positions[x].exitPending
             /\ ~positions[x].exitPending => EffectiveStop(store[x]) = EffectiveStop(positions[x])
    BY <2>1 DEF Inv, Core, DurableStop
  <2>3. DOMAIN store' = DOMAIN positions'
    BY <1>4, <1>5, <2>1, <2>2
  <2> QED BY <1>4, <1>5, <2>1, <2>2, <2>3 DEF Unguarded
<1>10. PendingExitWasSent'
  <2> SUFFICES ASSUME dbFailures' = 0, crashes' = 0,
                      NEW s \in DOMAIN positions', positions'[s].exitPending
               PROVE  outstanding'[s] = 1
    BY DEF PendingExitWasSent, Tracked
  <2>1. dbFailures = 0 /\ crashes = 0
    BY <1>3 DEF Inv, Core, Reconciled
  <2>2. s \in Tracked /\ s \notin done /\ positions[s].exitPending /\ s \in Symbols
    BY <1>1, <1>4, <1>7 DEF Unguarded, Table
  <2> QED BY <1>6, <2>1, <2>2 DEF Inv, Core, PendingExitWasSent
<1>11. Core'
  BY <1>6, <1>7, <1>8, <1>9, <1>10 DEF Core
<1> QED BY <1>11, SnapshotEffect, RestKept DEF Inv, Rest
LEMMA PublishKeeps ==
  ASSUME Inv, Publish, UNCHANGED <<up, crashes>>
  PROVE  Inv'
<1>1. /\ UNCHANGED <<positions, pendingOrders, store, outstanding, dbFailures>>
      /\ outbox # << >> /\ outbox' = Tail(outbox)
  BY DEF Publish, memory
<1>2. Core'
  BY <1>1 DEF Inv, Core, Table, AtMostOneExit, Armed, DurableStop, PendingExitWasSent, Tracked
<1>3. outbox' = << >>
  BY <1>1, SingleIs DEF Inv, Rest
<1> QED BY <1>1, <1>2, <1>3 DEF Inv, Rest

(* The exit that a crash loses was the one in flight. *)
LEMMA CrashKeeps == Inv /\ Crash => Inv'
<1> SUFFICES ASSUME Inv, Crash PROVE Inv'
  OBVIOUS
<1> DEFINE of(s) == {i \in 1..Len(outbox) : outbox[i].symbol = s}
           lost(s) == Cardinality(of(s))
<1>1. /\ UNCHANGED <<positions, pendingOrders, store, dbFailures>>
      /\ up' = FALSE /\ crashes' = crashes + 1 /\ outbox' = << >>
      /\ outstanding' = [s \in Symbols |-> outstanding[s] - lost(s)]
  BY DEF Crash, memory
<1>2. \A s \in Symbols : lost(s) = 0 \/ (lost(s) = 1 /\ outstanding[s] = 1)
  <2> SUFFICES ASSUME NEW s \in Symbols PROVE lost(s) = 0 \/ (lost(s) = 1 /\ outstanding[s] = 1)
    OBVIOUS
  <2>1. of(s) = {} \/ (of(s) = {1} /\ outstanding[s] = 1)
    <3> SUFFICES ASSUME of(s) # {} PROVE of(s) = {1} /\ outstanding[s] = 1
      OBVIOUS
    <3>1. Len(outbox) = 0 \/ (Len(outbox) = 1 /\ outstanding[outbox[1].symbol] = 1)
      BY SingleIs DEF Inv, Rest
    <3> QED BY <3>1
  <2> HIDE DEF of
  <2> QED BY <2>1, FS_EmptySet, FS_Singleton
<1> HIDE DEF lost
<1>3. outstanding' \in [Symbols -> Int] /\ AtMostOneExit'
  BY <1>1, <1>2 DEF Inv, Core, AtMostOneExit
<1>4. Armed(positions)' /\ Armed(store)'
  BY <1>1, <1>2 DEF Inv, Core, Armed, Table
<1>5. DurableStop' /\ PendingExitWasSent'
  BY <1>1 DEF Inv, Core, Rest, DurableStop, PendingExitWasSent, Tracked
<1>6. Core'
  BY <1>1, <1>3, <1>4, <1>5 DEF Inv, Core, Table
<1>7. crashes' \in Nat /\ crashes' # 0
  <2>1. crashes \in Nat
    BY DEF Inv, Rest
  <2> QED BY <1>1, <2>1
<1>8. up' \in BOOLEAN
  BY <1>1
<1>9. \A id \in DOMAIN pendingOrders' : pendingOrders'[id] \in Levels
  BY <1>1 DEF Inv, Rest
<1>10. Rest'
  BY <1>1, <1>7, <1>9, <1>8 DEF Rest
<1> QED BY <1>6, <1>10 DEF Inv

LEMMA RestartKeeps == Inv /\ Restart => Inv'
<1> SUFFICES ASSUME Inv, Restart PROVE Inv'
  OBVIOUS
<1>1. /\ ~up /\ up' /\ up' \in BOOLEAN /\ positions' = store /\ pendingOrders' = << >>
      /\ UNCHANGED <<store, outbox, outstanding, dbFailures, crashes>>
  BY DEF Restart
<1>2. Table(positions') /\ Table(store')
  BY <1>1 DEF Inv, Core, Table
<1>3. AtMostOneExit' /\ Armed(positions)' /\ Armed(store)'
  BY <1>1 DEF Inv, Core, AtMostOneExit, Armed
<1>4. DurableStop'
  BY <1>1 DEF DurableStop, Tracked
<1>5. PendingExitWasSent'
  BY <1>1 DEF Inv, Rest, PendingExitWasSent
<1>6. Rest'
  BY <1>1 DEF Inv, Rest
<1> QED BY <1>1, <1>2, <1>3, <1>4, <1>5, <1>6 DEF Inv, Core

LEMMA InvInit == Init => Inv
<1> SUFFICES ASSUME Init PROVE Inv
  OBVIOUS
<1>1. /\ positions = << >> /\ store = << >> /\ outbox = << >> /\ pendingOrders = << >>
      /\ outstanding = [s \in Symbols |-> 0] /\ dbFailures = 0 /\ crashes = 0
      /\ up /\ up \in BOOLEAN
  BY DEF Init
<1>2. DOMAIN positions = {} /\ DOMAIN store = {} /\ DOMAIN pendingOrders = {}
  BY <1>1
<1> QED BY <1>1, <1>2 DEF Inv, Core, Rest, Table, AtMostOneExit, Armed, DurableStop,
                         PendingExitWasSent, Tracked

LEMMA InvNext == Inv /\ [Next]_vars => Inv'
<1> SUFFICES ASSUME Inv, [Next]_vars PROVE Inv'
  OBVIOUS
<1>1. CASE up /\ Handle /\ UNCHANGED <<up, crashes>>
  BY <1>1, OrderKeeps, FillKeeps, SnapshotKeeps, PriceKeeps DEF Handle
<1>2. CASE up /\ Publish /\ UNCHANGED <<up, crashes>>
  BY <1>2, PublishKeeps
<1>3. CASE Crash \/ Restart
  BY <1>3, CrashKeeps, RestartKeeps
<1>4. CASE UNCHANGED vars
  BY <1>4 DEF vars, memory, history, Inv, Core, Rest, Table, AtMostOneExit, Armed, DurableStop,
              PendingExitWasSent, Tracked
<1> QED BY <1>1, <1>2, <1>3, <1>4 DEF Next

LEMMA Invariance == Spec => []Inv
  BY InvInit, InvNext, PTL DEF Spec

(* Exits are at most once: whatever fails and whenever the monitor         *)
(* crashes, a symbol has one exit in flight between two events that change *)
(* its position.                                                           *)
THEOREM OneExitInFlight == Spec => []AtMostOneExit
<1>1. Inv => AtMostOneExit
  BY DEF Inv, Core
<1> QED BY <1>1, Invariance, PTL

(* Without faults a position that waits for an exit has sent one. *)
THEOREM PendingIsSent == Spec => []PendingExitWasSent
<1>1. Inv => PendingExitWasSent
  BY DEF Inv, Core
<1> QED BY <1>1, Invariance, PTL

(* The table keeps the stop that is in memory, though it is written only   *)
(* when the effective stop moves.                                          *)
THEOREM StopIsDurable == Spec => []DurableStop
<1>1. Inv => DurableStop
  BY DEF Inv, Core
<1> QED BY <1>1, Invariance, PTL

-----------------------------------------------------------------------------
(* A record that an event leaves in the table of positions has the stop it *)
(* had, or a tighter one. *)
Follows(new, old) ==
  /\ new.direction = old.direction
  /\ AtLeastAsTight(old.direction, EffectiveStop(new), EffectiveStop(old))

LEMMA StopTyped == \A r \in Record : EffectiveStop(r) \in Nat
<1> SUFFICES ASSUME NEW r \in Record PROVE EffectiveStop(r) \in Nat
  OBVIOUS
<1>1. /\ r.extreme \in Nat /\ 100 - r.trail \in Nat /\ 100 + r.trail \in Nat /\ r.stop \in Nat
  BY DEF Record, Percent
<1>2. r.extreme * (100 - r.trail) \in Nat /\ r.extreme * (100 + r.trail) \in Nat
  BY <1>1, Scaled
<1>3. TrailingStop(r) \in Nat /\ r.stop * 100 \in Nat
  BY <1>1, <1>2 DEF TrailingStop, None
<1> QED BY <1>3 DEF EffectiveStop, Better

LEMMA SameFollows ==
  ASSUME NEW r \in Record, NEW q \in Record, r.direction = q.direction, r.stop = q.stop,
         r.trail = q.trail, r.extreme = q.extreme
  PROVE  Follows(q, r)
<1>1. EffectiveStop(q) = EffectiveStop(r) /\ EffectiveStop(r) \in Nat
  BY SameStop, StopTyped
<1> QED BY <1>1 DEF Follows, AtLeastAsTight, Reached

(* What one event does to the records that are tracked before and after. *)
LEMMA UntouchedFollow ==
  ASSUME Inv, NEW s \in Tracked, positions'[s] = positions[s]
  PROVE  Follows(positions'[s], positions[s])
  BY SameFollows DEF Inv, Core, Table, Tracked

LEMMA FillFollows ==
  ASSUME Inv, NEW f \in Fills, OnFill(f)
  PROVE  \A s \in Tracked \cap DOMAIN positions' : Follows(positions'[s], positions[s])
<1> DEFINE t == f.symbol
<1>1. /\ \A s \in Tracked : positions[s] \in Record
      /\ f.size \in Nat \ {0} /\ f.direction \in Directions
  BY EventTypes DEF Inv, Core, Table, Tracked
<1>2. CASE OnReducingFill(f)
  <2> DEFINE kept == [positions[t] EXCEPT !.size = positions[t].size - f.size,
                                          !.exitPending = FALSE]
  <2>1. /\ t \in Tracked
        /\ \/ positions' = Without(positions, t)
           \/ positions' = With(positions, t, kept) /\ ~(positions[t].size - f.size <= 0)
    BY <1>2 DEF OnReducingFill, Forget
  <2>2. ~(positions[t].size - f.size <= 0) => Follows(kept, positions[t])
    <3>1. positions[t] \in Record /\ positions[t].size \in Nat
      BY <1>1, <2>1 DEF Record
    <3>2. ~(positions[t].size - f.size <= 0) => positions[t].size - f.size \in Nat
      BY <1>1, <3>1
    <3>3. ~(positions[t].size - f.size <= 0) => kept \in Record
      BY <3>1, <3>2 DEF Record
    <3>4. /\ kept.direction = positions[t].direction /\ kept.stop = positions[t].stop
          /\ kept.trail = positions[t].trail /\ kept.extreme = positions[t].extreme
      BY <3>1 DEF Record
    <3> HIDE DEF kept
    <3> QED BY <3>1, <3>3, <3>4, SameFollows
  <2> HIDE DEF kept, t
  <2> QED BY <2>1, <2>2, UntouchedFollow DEF With, Without, Tracked
<1>3. CASE OnAddingFill(f)
  <2> DEFINE grown == [positions[t] EXCEPT !.size = positions[t].size + f.size]
  <2>1. t \in Tracked /\ positions' = With(positions, t, grown)
    BY <1>3 DEF OnAddingFill
  <2>2. Follows(grown, positions[t])
    <3>1. positions[t] \in Record /\ positions[t].size + f.size \in Nat
      BY <1>1, <2>1 DEF Record
    <3>2. /\ grown \in Record
          /\ grown.direction = positions[t].direction /\ grown.stop = positions[t].stop
          /\ grown.trail = positions[t].trail /\ grown.extreme = positions[t].extreme
      BY <3>1 DEF Record
    <3> HIDE DEF grown
    <3> QED BY <3>1, <3>2, SameFollows
  <2> HIDE DEF grown, t
  <2> QED BY <2>1, <2>2, UntouchedFollow DEF With, Tracked
<1>4. CASE OnOpeningFill(f)
  <2>1. \A s \in Tracked : positions'[s] = positions[s]
    BY <1>4 DEF OnOpeningFill, With, Tracked
  <2> QED BY <2>1, UntouchedFollow
<1> QED BY <1>2, <1>3, <1>4 DEF OnFill

LEMMA PriceFollows ==
  ASSUME Inv, NEW t \in Symbols, NEW p \in Prices, OnPrice(t, p)
  PROVE  \A s \in Tracked \cap DOMAIN positions' : Follows(positions'[s], positions[s])
<1> DEFINE seen == Observe(positions[t], p)
           fired == [seen EXCEPT !.exitPending = TRUE]
<1>1. t \in Tracked /\ positions[t] \in Record /\ p \in Nat \ {0}
  BY MonitorAssumption DEF Inv, Core, Table, OnPrice, Tracked
<1>2. /\ seen \in Record /\ fired \in Record /\ seen.direction = positions[t].direction
      /\ fired.direction = seen.direction /\ fired.stop = seen.stop
      /\ fired.trail = seen.trail /\ fired.extreme = seen.extreme
  BY <1>1 DEF Observe, Record, Better
<1>3. positions' = With(positions, t, seen) \/ positions' = With(positions, t, fired)
  BY DEF OnPrice
<1>4. Follows(seen, positions[t])
  BY <1>1, <1>2, Tightens DEF Follows
<1> HIDE DEF seen, fired
<1>5. EffectiveStop(fired) = EffectiveStop(seen)
  BY <1>2, SameStop
<1>6. Follows(fired, positions[t])
  BY <1>2, <1>4, <1>5 DEF Follows
<1> QED BY <1>1, <1>3, <1>4, <1>6, UntouchedFollow DEF With, Tracked

LEMMA SnapshotFollows ==
  ASSUME Inv, NEW live, OnSnapshot(live)
  PROVE  \A s \in Tracked \cap DOMAIN positions' : Follows(positions'[s], positions[s])
<1>1. PICK D : positions' = [s \in D |->
                               IF s \in Tracked THEN positions[s] ELSE Adopted(live[s])]
  <2>1. PICK done, saved : Reconciled(live, done, saved)
    BY SnapshotEffect
  <2> QED BY <2>1 DEF Reconciled
<1>2. \A s \in Tracked \cap DOMAIN positions' : positions'[s] = positions[s]
  BY <1>1
<1> QED BY <1>2, UntouchedFollow

(* After a restart the record that the table kept has the stop of the      *)
(* memory the crash lost. *)
LEMMA RestartFollows ==
  ASSUME Inv, Restart, dbFailures = 0, NEW s \in Tracked \cap DOMAIN positions',
         ~positions[s].exitPending
  PROVE  Follows(positions'[s], positions[s])
<1>1. /\ positions' = store
      /\ store[s].direction = positions[s].direction
      /\ EffectiveStop(store[s]) = EffectiveStop(positions[s])
  BY DEF Restart, Inv, Core, DurableStop
<1>2. EffectiveStop(positions[s]) \in Nat
  BY StopTyped DEF Inv, Core, Table, Tracked
<1> QED BY <1>1, <1>2 DEF Follows, AtLeastAsTight, Reached

(* A trailing stop ratchets and never loosens: no tick, fill, order or     *)
(* snapshot moves the stop of a tracked position away from the price, and  *)
(* a restart does not either, unless a statement failed or the exit was    *)
(* pending. *)
THEOREM StopRatchets == Spec => StopNeverLoosens
<1> DEFINE Ratchet == (up' /\ (up \/ dbFailures = 0)) =>
                        \A s \in Tracked \cap DOMAIN positions' :
                          (up \/ ~positions[s].exitPending) =>
                            /\ positions'[s].direction = positions[s].direction
                            /\ AtLeastAsTight(positions[s].direction,
                                   EffectiveStop(positions'[s]), EffectiveStop(positions[s]))
<1>1. Inv /\ [Next]_vars => [Ratchet]_vars
  <2> SUFFICES ASSUME Inv, Next, up', up \/ dbFailures = 0,
                      NEW s \in Tracked \cap DOMAIN positions', up \/ ~positions[s].exitPending
               PROVE  Follows(positions'[s], positions[s])
    BY DEF Follows
  <2>1. CASE up /\ Handle
    <3>1. CASE \E id \in OrderIds : \E o \in OpeningOrders(id) : OnOrder(o)
      <4>1. positions' = positions
        BY <3>1 DEF OnOrder
      <4> QED BY <4>1, UntouchedFollow
    <3> QED BY <2>1, <3>1, FillFollows, PriceFollows, SnapshotFollows DEF Handle
  <2>2. CASE Publish
    <3>1. positions' = positions
      BY <2>2 DEF Publish, memory
    <3> QED BY <3>1, UntouchedFollow
  <2>3. CASE Restart
    <3>1. ~up
      BY <2>3 DEF Restart
    <3> QED BY <2>3, <3>1, RestartFollows
  <2>4. ~Crash
    BY DEF Crash
  <2> QED BY <2>1, <2>2, <2>3, <2>4 DEF Next
<1>2. Spec => [][Ratchet]_vars
  BY <1>1, Invariance, PTL DEF Spec
<1> QED BY <1>2 DEF StopNeverLoosens
=============================================================================
