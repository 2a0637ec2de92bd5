--------------------------- MODULE PositionMonitor ---------------------------
(***************************************************************************)
(* The position monitor (services/execution/position_monitor.py): it       *)
(* learns of a position from the opening order and its fill, reconciles    *)
(* with portfolio snapshots, and fires a reduce-only exit order when a     *)
(* price tick breaches the effective stop or the target.                   *)
(*                                                                         *)
(* BaseAgent hands it one event at a time.  handle() changes the memory,   *)
(* then awaits the database, then returns the orders to publish; an        *)
(* exception of the database is swallowed by on_error() and the orders     *)
(* are lost, while the memory keeps the change.  outbox holds the orders   *)
(* handle() returned until the run loop has published them.                *)
(*                                                                         *)
(* Prices are positive integers; stops are in hundredths of a price, so    *)
(* that a trail in percent is exact.  0 stands for Python's None.          *)
(***************************************************************************)
EXTENDS Integers, Sequences, FiniteSets, TLC

CONSTANTS
  Symbols,         \* the symbols traded
  OrderIds,        \* identities of opening orders
  Prices,          \* prices a tick, a fill or a mark may have
  MaxSize,         \* bound: the size of a tracked position
  Protections,     \* Protections[d]: the [stop, target, trail] an order may carry
  DefaultTrail,    \* MonitorSettings.default_trailing_stop_pct
  MaxDbFailures,   \* bound: failing database statements
  MaxCrashes       \* bound: crashes

None == 0
Directions == {"long", "short"}
Percent == 0..100
Levels == [stop : Nat, target : Nat, trail : Percent]

ASSUME MonitorAssumption ==
  /\ Prices \subseteq Nat \ {0}
  /\ MaxSize \in Nat \ {0}
  /\ Protections \in [Directions -> SUBSET Levels]
  /\ DefaultTrail \in Percent
  /\ MaxDbFailures \in Nat /\ MaxCrashes \in Nat

VARIABLES
  positions,      \* _positions: dict of ProtectedPosition by symbol
  pendingOrders,  \* _pending_orders: dict of levels by order id
  store,          \* the position_protection table
  outbox,         \* exit orders handle() returned, not yet published
  up,             \* the process runs
  outstanding,    \* history: exits handed to the run loop, and not lost with it, since
                  \* the last fill, release or adoption of the symbol
  dbFailures, crashes

memory  == <<positions, pendingOrders>>
history == <<outstanding, dbFailures, crashes>>
vars == <<memory, store, outbox, up, history>>

-----------------------------------------------------------------------------
(* ProtectedPosition: what it promises is a function of its fields. *)

Better(d, a, b) == IF d = "long" THEN (IF a > b THEN a ELSE b) ELSE (IF a < b THEN a ELSE b)

(* Seeded fault: the extreme follows the price down again. *)
ObserveLast(r, p) == [r EXCEPT !.extreme = p]

(* observe(): ratchet the best price seen. *)
Observe(r, p) ==
  [r EXCEPT !.extreme = IF r.extreme = None THEN p ELSE Better(r.direction, r.extreme, p)]

TrailingStop(r) ==
  IF r.trail = None \/ r.extreme = None THEN None
  ELSE IF r.direction = "long" THEN r.extreme * (100 - r.trail)
                               ELSE r.extreme * (100 + r.trail)

(* effective_stop: the tighter of the fixed and the trailing stop. *)
EffectiveStop(r) ==
  LET fixed == r.stop * 100
      trailing == TrailingStop(r)
  IN  IF fixed = None THEN trailing
      ELSE IF trailing = None THEN fixed ELSE Better(r.direction, fixed, trailing)

Reached(d, a, b) == IF d = "long" THEN a <= b ELSE a >= b

StopHit(r, p) == EffectiveStop(r) # None /\ Reached(r.direction, p * 100, EffectiveStop(r))
TargetHit(r, p) == r.target # None /\ Reached(r.direction, r.target, p)

(* breach(): the stop is looked at first. *)
Breach(r, p) ==
  IF StopHit(r, p)
  THEN IF TrailingStop(r) # None
          /\ (r.stop = None \/ ~Reached(r.direction, TrailingStop(r), r.stop * 100))
       THEN "trailing_stop" ELSE "stop_loss"
  ELSE IF TargetHit(r, p) THEN "take_profit" ELSE "none"

Guard(d, size, levels, extreme) ==
  [direction |-> d, size |-> size, stop |-> levels.stop, target |-> levels.target,
   trail |-> IF levels.trail = None THEN DefaultTrail ELSE levels.trail,
   extreme |-> extreme, exitPending |-> FALSE]

-----------------------------------------------------------------------------
(* The database: a failing statement raises, and handle() with it. *)

Tracked == DOMAIN positions
Without(f, s) == [x \in DOMAIN f \ {s} |-> f[x]]
With(f, s, v) == [x \in DOMAIN f \cup {s} |-> IF x = s THEN v ELSE f[x]]

Raise == dbFailures < MaxDbFailures /\ dbFailures' = dbFailures + 1 /\ UNCHANGED store

(* Seeded fault: the record is left out of the table. *)
PersistNothing(s, r) == UNCHANGED <<store, dbFailures>>

(* _persist() *)
Persist(s, r) ==
  \/ store' = With(store, s, r) /\ UNCHANGED dbFailures
  \/ Raise

(* _forget(): the memory, then the table. *)
Forget(s) ==
  /\ positions' = Without(positions, s)
  /\ \/ store' = Without(store, s) /\ UNCHANGED dbFailures
     \/ Raise

Touch(s) == outstanding' = [outstanding EXCEPT ![s] = 0]

-----------------------------------------------------------------------------
(* handle(), by the type of the event. *)

(* _remember_order: an opening order; an exit's is not remembered. *)
OnOrder(o) ==
  /\ pendingOrders' = IF o.reduceOnly THEN pendingOrders
                      ELSE With(pendingOrders, o.id, o.levels)
  /\ UNCHANGED <<positions, store, outstanding, dbFailures>>

(* Seeded fault: what is left keeps the pending exit. *)
OnReducingFillDisarmed(f) ==
  LET s == f.symbol
      rest == positions[s].size - f.size
      kept == [positions[s] EXCEPT !.size = rest]
  IN  /\ s \in Tracked /\ positions[s].direction # f.direction
      /\ IF rest <= 0
         THEN Forget(s)
         ELSE positions' = With(positions, s, kept) /\ Persist(s, kept)
      /\ Touch(s)
      /\ UNCHANGED pendingOrders

(* Seeded fault: what is left keeps its old size. *)
OnReducingFillWhole(f) ==
  LET s == f.symbol
      rest == positions[s].size - f.size
      kept == [positions[s] EXCEPT !.exitPending = FALSE]
  IN  /\ s \in Tracked /\ positions[s].direction # f.direction
      /\ IF rest <= 0
         THEN Forget(s)
         ELSE positions' = With(positions, s, kept) /\ Persist(s, kept)
      /\ Touch(s)
      /\ UNCHANGED pendingOrders

(* _apply_fill, against the position: released, or smaller and guarded anew. *)
OnReducingFill(f) ==
  LET s == f.symbol
      rest == positions[s].size - f.size
      kept == [positions[s] EXCEPT !.size = rest, !.exitPending = FALSE]
  IN  /\ s \in Tracked /\ positions[s].direction # f.direction
      /\ IF rest <= 0
         THEN Forget(s)
         ELSE positions' = With(positions, s, kept) /\ Persist(s, kept)
      /\ Touch(s)
      /\ UNCHANGED pendingOrders

(* _apply_fill, with the position: it grows. *)
OnAddingFill(f) ==
  LET s == f.symbol
      grown == [positions[s] EXCEPT !.size = @ + f.size]
  IN  /\ s \in Tracked /\ positions[s].direction = f.direction
      /\ pendingOrders' = Without(pendingOrders, f.order)
      /\ positions' = With(positions, s, grown)
      /\ Persist(s, grown)
      /\ UNCHANGED outstanding

(* _apply_fill of a new position: it is guarded if its order is known. *)
OnOpeningFill(f) ==
  LET s == f.symbol
      known == f.order \in DOMAIN pendingOrders
  IN  /\ s \notin Tracked
      /\ pendingOrders' = Without(pendingOrders, f.order)
      /\ IF known
         THEN LET r == Guard(f.direction, f.size, pendingOrders[f.order], f.price)
              IN  positions' = With(positions, s, r) /\ Persist(s, r) /\ Touch(s)
         ELSE UNCHANGED <<positions, store, dbFailures, outstanding>>

OnFill(f) == OnReducingFill(f) \/ OnAddingFill(f) \/ OnOpeningFill(f)

(* from_position(), with the default trail. *)
Adopted(p) == Guard(p.direction, p.size, p, p.mark)

(* Seeded fault: what the snapshot has and the monitor has not is left. *)
OnSnapshotDrops(live) ==
  LET kept(f) == [s \in DOMAIN f \cap DOMAIN live |-> f[s]]
  IN  /\ UNCHANGED <<pendingOrders, dbFailures>>
      /\ positions' = kept(positions) /\ store' = kept(store)
      /\ outstanding' = [s \in Symbols |-> IF s \in Tracked \ DOMAIN live THEN 0 ELSE outstanding[s]]

Dropped(live) == Tracked \ DOMAIN live
Unguarded(live) == DOMAIN live \ Tracked

(* What a reconciliation leaves that got through the symbols of done in    *)
(* memory and through those of saved in the table.                         *)
Reconciled(live, done, saved) ==
  /\ positions' = [s \in (Tracked \ (Dropped(live) \cap done)) \cup (Unguarded(live) \cap done) |->
                     IF s \in Tracked THEN positions[s] ELSE Adopted(live[s])]
  /\ store' = [s \in (DOMAIN store \ (Dropped(live) \cap saved)) \cup (Unguarded(live) \cap saved) |->
                 IF s \in Unguarded(live) \cap saved THEN Adopted(live[s]) ELSE store[s]]
  /\ outstanding' = [s \in Symbols |-> IF s \in done THEN 0 ELSE outstanding[s]]

(* _reconcile: drop what the snapshot lacks, then adopt what it has and    *)
(* the monitor has not.  A failing statement leaves the rest undone.       *)
OnSnapshot(live) ==
  LET all == Dropped(live) \cup Unguarded(live)
  IN  /\ UNCHANGED pendingOrders
      /\ \/ Reconciled(live, all, all) /\ UNCHANGED dbFailures
         \/ \E bad \in all, done \in SUBSET all :
              /\ bad \notin done
              /\ bad \in Unguarded(live) => Dropped(live) \subseteq done
              /\ bad \in Dropped(live) => done \subseteq Dropped(live)
              /\ Reconciled(live, done \cup {bad}, done)
              /\ dbFailures < MaxDbFailures
              /\ dbFailures' = dbFailures + 1

Exit(s, r, reason) ==
  [symbol |-> s, direction |-> IF r.direction = "long" THEN "short" ELSE "long",
   size |-> r.size, reason |-> reason]

(* Seeded fault: a pending exit does not hold back the next. *)
HeldBackNever(r) == FALSE

HeldBack(r) == r.exitPending

(* on_price on a guarded symbol: observe, and fire at most one exit. *)
OnPrice(s, p) ==
  LET seen == Observe(positions[s], p)
      reason == Breach(seen, p)
      fired == [seen EXCEPT !.exitPending = TRUE]
  IN  /\ s \in Tracked
      /\ UNCHANGED pendingOrders
      /\ \/ /\ HeldBack(seen) \/ reason = "none"
            /\ positions' = With(positions, s, seen)
            /\ IF ~HeldBack(seen) /\ EffectiveStop(seen) # EffectiveStop(positions[s])
               THEN Persist(s, seen) ELSE UNCHANGED <<store, dbFailures>>
            /\ UNCHANGED <<outbox, outstanding>>
         \/ /\ ~HeldBack(seen) /\ reason # "none"
            /\ positions' = With(positions, s, fired)
            /\ \/ /\ store' = With(store, s, fired) /\ UNCHANGED dbFailures
                  /\ outbox' = Append(outbox, Exit(s, fired, reason))
                  /\ outstanding' = [outstanding EXCEPT ![s] = @ + 1]
               \/ Raise /\ UNCHANGED <<outbox, outstanding>>

-----------------------------------------------------------------------------
(* The process. *)

Init ==
  /\ positions = << >>
  /\ pendingOrders = << >>
  /\ store = << >>
  /\ outbox = << >>
  /\ up = TRUE
  /\ outstanding = [s \in Symbols |-> 0]
  /\ dbFailures = 0 /\ crashes = 0

(* The run loop publishes what handle() returned before the next event. *)
Publish ==
  /\ outbox # << >>
  /\ outbox' = Tail(outbox)
  /\ UNCHANGED <<memory, store, outstanding, dbFailures>>

(* A crash loses the memory and what was still to be published. *)
Crash ==
  /\ up /\ crashes < MaxCrashes
  /\ up' = FALSE
  /\ crashes' = crashes + 1
  /\ outbox' = << >>
  /\ outstanding' = [s \in Symbols |->
       outstanding[s] - Cardinality({i \in 1..Len(outbox) : outbox[i].symbol = s})]
  /\ UNCHANGED <<memory, store, dbFailures>>

(* on_start(): the records of the table, none of the orders. *)
Restart ==
  /\ ~up
  /\ up' = TRUE
  /\ positions' = store
  /\ pendingOrders' = << >>
  /\ UNCHANGED <<store, outbox, outstanding, dbFailures, crashes>>

(* The events the topics carry: any opening or exit order, a fill of any   *)
(* order, any snapshot, any tick.                                          *)
OpeningOrders(id) ==
  [id : {id}, reduceOnly : BOOLEAN, levels : Protections["long"] \cup Protections["short"]]
Fills == [order : OrderIds, symbol : Symbols, direction : Directions, size : 1..MaxSize,
          price : Prices]
Holding(d) == [direction : {d}, size : 1..MaxSize, stop : {None}, target : {None},
               trail : {None}, mark : Prices]
              \cup {[direction |-> d, size |-> 1, stop |-> l.stop, target |-> l.target,
                     trail |-> l.trail, mark |-> m] : l \in Protections[d], m \in Prices}
Snapshots == UNION {[S -> Holding("long") \cup Holding("short")] : S \in SUBSET Symbols}

Fits(f) ==
  (f.symbol \in Tracked /\ positions[f.symbol].direction = f.direction)
    => positions[f.symbol].size + f.size <= MaxSize

Handle ==
  /\ outbox = << >>
  /\ \/ /\ \/ \E id \in OrderIds : \E o \in OpeningOrders(id) : OnOrder(o)
           \/ \E f \in Fills : Fits(f) /\ OnFill(f)
           \/ \E live \in Snapshots : OnSnapshot(live)
        /\ UNCHANGED outbox
     \/ \E s \in Symbols, p \in Prices : OnPrice(s, p)

Next ==
  \/ up /\ (Handle \/ Publish) /\ UNCHANGED <<up, crashes>>
  \/ Crash
  \/ Restart

Spec == Init /\ [][Next]_vars

-----------------------------------------------------------------------------
(* Properties. *)

AtLeastAsTight(d, a, b) == b = None \/ (a # None /\ Reached(d, b, a))

(* "A trailing stop ratchets and never loosens": no tick, fill, order or   *)
(* snapshot moves the effective stop of a tracked position away from the   *)
(* price, and neither does a restart, measured against the memory that the *)
(* crash lost: there unless a statement failed, or the exit was pending,   *)
(* while which on_price() observes and does not persist.                   *)
StopNeverLoosens ==
  [][(up' /\ (up \/ dbFailures = 0)) =>
       \A s \in Tracked \cap DOMAIN positions' :
         (up \/ ~positions[s].exitPending) =>
           /\ positions'[s].direction = positions[s].direction
           /\ AtLeastAsTight(positions[s].direction,
                             EffectiveStop(positions'[s]), EffectiveStop(positions[s]))]_vars

(* The table is written only when the effective stop moves, yet it is      *)
(* never behind: a crash at any point leaves a record with the same stop   *)
(* and size as the memory it lost, as long as no exit is pending and no    *)
(* statement failed.                                                       *)
DurableStop ==
  (dbFailures = 0) =>
    /\ DOMAIN store = Tracked
    /\ \A s \in Tracked :
         /\ store[s].size = positions[s].size /\ store[s].direction = positions[s].direction
         /\ store[s].exitPending = positions[s].exitPending
         /\ ~positions[s].exitPending =>
              EffectiveStop(store[s]) = EffectiveStop(positions[s])

(* exit_pending, persisted before the order is published, makes exits      *)
(* at most once: through ticks, crashes and failing statements a symbol    *)
(* has one exit in flight between two events that change its position.     *)
AtMostOneExit == \A s \in Symbols : outstanding[s] <= 1

(* Without faults a pending exit is one that was sent. *)
PendingExitWasSent ==
  (dbFailures = 0 /\ crashes = 0) =>
    \A s \in Tracked : positions[s].exitPending => outstanding[s] = 1

=============================================================================
