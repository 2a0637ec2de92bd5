--------------------------- MODULE RecorderProofs ---------------------------
(***************************************************************************)
(* Theorems about the recorder, for every log and every bound: its type    *)
(* invariant, the bound of its lists, and that rows stay within reach of   *)
(* the tables.                                                             *)
(*                                                                         *)
(* BufferBounded is not inductive: one append may bring a list to its      *)
(* bound.  Inv adds that a list the recorder still appends to is one short *)
(* of it; a list that is at it is flushed by the step that fills it.       *)
(*                                                                         *)
(* RetryKeepsRows is not inductive either: it does not say that what a     *)
(* flush holds is still ahead of it.  Retaining adds, while the process    *)
(* serves: a list with rows is one whose write is still to come (Ahead), a *)
(* write under way sends all of it (Sending), and what a failed write puts *)
(* back reaches a list that is written later (Targets), or is marked as    *)
(* displaced.                                                              *)
(***************************************************************************)
EXTENDS Recorder, TLAPS

Lists(n) == {q \in Seq(Offsets) : Len(q) <= n}
Short == Lists(Larger(MaxRetry, BatchSize - 1))
Long == Lists(MaxList)

Inv ==
  /\ TypeOK
  /\ buffer \in [Streams -> Short]
  /\ rows \in [Flushers -> [Streams -> Long]]

LEMMA Bounds ==
  /\ Larger(MaxRetry, BatchSize - 1) \in Nat
  /\ MaxRetry <= Larger(MaxRetry, BatchSize - 1)
  /\ BatchSize - 1 <= Larger(MaxRetry, BatchSize - 1)
  /\ MaxList = Larger(MaxRetry, BatchSize - 1) + 1
  /\ Len(Log) \in Nat
  BY LogAssumption, BoundsAssumption DEF Larger, MaxList

LEMMA ListSets ==
  /\ Short \subseteq Long /\ Long \subseteq Seq(Offsets)
  /\ << >> \in Short
  BY Bounds DEF Short, Long, Lists

(* Rows that are put back fit into a list that is appended to. *)
LEMMA RequeueFits ==
  ASSUME NEW rs \in Seq(Offsets), NEW list \in Seq(Offsets)
  PROVE  Requeue(rs, list) \in Short
<1> DEFINE both == rs \o list
<1>1. both \in Seq(Offsets) /\ Len(both) \in Nat
  OBVIOUS
<1>2. CASE Len(both) <= MaxRetry
  <2>1. Len(both) <= Larger(MaxRetry, BatchSize - 1)
    BY <1>1, <1>2, Bounds, BoundsAssumption
  <2> QED BY <1>1, <1>2, <2>1 DEF Requeue, Short, Lists
<1>3. CASE ~(Len(both) <= MaxRetry)
  <2>1. /\ SubSeq(both, 1, MaxRetry) \in Seq(Offsets)
        /\ Len(SubSeq(both, 1, MaxRetry)) = MaxRetry
    BY <1>1, <1>3, BoundsAssumption
  <2> QED BY <1>3, <2>1, Bounds DEF Requeue, Short, Lists
<1> QED BY <1>2, <1>3

LEMMA NextWriteStage ==
  ASSUME NEW rs, NEW i
  PROVE  NextWrite(rs, i) \in 0..4
<1> DEFINE todo == {j \in Stages : j >= i /\ rs[WriteOrder[j]] # << >>}
<1>1. CASE todo = {}
  BY <1>1 DEF NextWrite
<1>2. CASE todo # {}
  <2>1. PICK j \in todo : TRUE
    BY <1>2
  <2>2. \E m \in todo : \A k \in todo : m <= k
    BY <2>1 DEF Stages
  <2> QED BY <1>2, <2>2 DEF NextWrite, Stages
<1> QED BY <1>1, <1>2

LEMMA RowsOfList ==
  ASSUME NEW list \in Seq(Offsets)
  PROVE  RowsOf(list) \subseteq Offsets
  BY DEF RowsOf

Owners == {"none", "buffer", "gone"} \cup Flushers

(* Whatever a flush does until it suspends, the lists stay within bounds. *)
LEMMA ProceedTyped ==
  ASSUME NEW f \in Flushers, NEW i,
         NEW buf \in [Streams -> Short], NEW held \in [Flushers -> [Streams -> Long]],
         stage \in [Flushers -> 0..4], sent \in [Flushers -> SUBSET Offsets],
         Proceed(f, buf, held, i)
  PROVE  /\ buffer' \in [Streams -> Short]
         /\ rows' \in [Flushers -> [Streams -> Long]]
         /\ stage' \in [Flushers -> 0..4]
         /\ sent' \in [Flushers -> SUBSET Offsets]
<1>1. /\ \A s \in Streams : held[f][s] \in Long /\ held[f][s] \in Seq(Offsets)
      /\ \A s \in Streams : buf[s] \in Short /\ buf[s] \in Seq(Offsets)
      /\ << >> \in Long
  BY ListSets
<1>2. CASE dbOpen
  <2> DEFINE n == NextWrite(held[f], i)
  <2>1. n \in 0..4
    BY NextWriteStage
  <2>2. /\ buffer' = buf
        /\ rows' = [held EXCEPT ![f] =
             [s \in Streams |->
                IF n # 0 /\ s \in Remaining(n) THEN held[f][s] ELSE << >>]]
        /\ stage' = [stage EXCEPT ![f] = n]
        /\ sent' = [sent EXCEPT ![f] =
             IF n = 0 THEN {} ELSE RowsOf(held[f][WriteOrder[n]])]
    BY <1>2 DEF Proceed
  <2>3. n # 0 => RowsOf(held[f][WriteOrder[n]]) \subseteq Offsets
    <3> SUFFICES ASSUME n # 0 PROVE RowsOf(held[f][WriteOrder[n]]) \subseteq Offsets
      OBVIOUS
    <3>1. n \in 1..4
      BY <2>1
    <3>2. WriteOrder[n] \in Streams
      BY <3>1 DEF WriteOrder, Streams
    <3> QED BY <1>1, <3>2, RowsOfList
  <2> HIDE DEF n
  <2>4. rows' \in [Flushers -> [Streams -> Long]]
    BY <1>1, <2>2
  <2> QED BY <2>1, <2>2, <2>3, <2>4
<1>3. CASE ~dbOpen
  <2>1. \A s \in Streams : Requeue(held[f][s], buf[s]) \in Short
    BY <1>1, RequeueFits
  <2>2. /\ buffer' = [s \in Streams |->
             IF s \in Remaining(i) /\ held[f][s] # << >>
             THEN Requeue(held[f][s], buf[s]) ELSE buf[s]]
        /\ rows' = [held EXCEPT ![f] = NoRows]
        /\ stage' = [stage EXCEPT ![f] = 0]
        /\ sent' = [sent EXCEPT ![f] = {}]
    BY <1>3 DEF Proceed
  <2>3. buffer' \in [Streams -> Short]
    BY <1>1, <2>1, <2>2
  <2>4. rows' \in [Flushers -> [Streams -> Long]]
    BY <1>1, <2>2 DEF NoRows
  <2> QED BY <2>2, <2>3, <2>4
<1> QED BY <1>2, <1>3

LEMMA RetargetTyped ==
  ASSUME NEW f, NEW swapped, target \in [Flushers -> Owners], f \in Flushers,
         Retarget(f, swapped)
  PROVE  target' \in [Flushers -> Owners]
  BY DEF Retarget, Owners

LEMMA FlushTyped ==
  ASSUME Inv, NEW f \in Flushers, NEW buf \in [Streams -> Long], Flush(f, buf)
  PROVE  /\ buffer' \in [Streams -> Short]
         /\ rows' \in [Flushers -> [Streams -> Long]]
         /\ stage' \in [Flushers -> 0..4]
         /\ sent' \in [Flushers -> SUBSET Offsets]
         /\ target' \in [Flushers -> Owners]
<1>1. NoRows \in [Streams -> Short]
  BY ListSets DEF NoRows
<1>2. [rows EXCEPT ![f] = buf] \in [Flushers -> [Streams -> Long]]
  BY DEF Inv
<1>3. /\ stage \in [Flushers -> 0..4]
      /\ sent \in [Flushers -> SUBSET Offsets]
      /\ target \in [Flushers -> Owners]
  BY DEF Inv, TypeOK, Owners
<1>4. Proceed(f, NoRows, [rows EXCEPT ![f] = buf], 1) /\ Retarget(f, TRUE)
  BY DEF Flush
<1> QED BY <1>1, <1>2, <1>3, <1>4, ProceedTyped, RetargetTyped

(* The part of the type invariant that a flush does not touch. *)
Frame ==
  /\ position \in 0..Len(Log) /\ committed \in 0..Len(Log)
  /\ consuming \in BOOLEAN
  /\ pc \in [Flushers -> {"serving", "waiting", "sleeping", "cancelled", "drain", "close",
                          "leave", "finish", "exited", "down"}]
  /\ dbOpen \in BOOLEAN /\ started \in BOOLEAN /\ stopping \in BOOLEAN
  /\ starts \in Nat /\ failures \in Nat
  /\ db \subseteq Offsets /\ accepted \subseteq Offsets
  /\ failed \subseteq Streams /\ displaced \subseteq Streams /\ overflowed \subseteq Streams

(* The part that it does. *)
Flushing ==
  /\ buffer \in [Streams -> Short]
  /\ rows \in [Flushers -> [Streams -> Long]]
  /\ stage \in [Flushers -> 0..4]
  /\ target \in [Flushers -> Owners]
  /\ sent \in [Flushers -> SUBSET Offsets]

LEMMA InvParts == Inv <=> Frame /\ Flushing
<1>1. Flushing => /\ buffer \in [Streams -> Seq(Offsets)]
                  /\ rows \in [Flushers -> [Streams -> Seq(Offsets)]]
  BY ListSets DEF Flushing
<1> QED BY <1>1 DEF Inv, TypeOK, Frame, Flushing, Owners

LEMMA InvPartsPrimed == Inv' <=> Frame' /\ Flushing'
<1>1. Flushing' => /\ buffer' \in [Streams -> Seq(Offsets)]
                   /\ rows' \in [Flushers -> [Streams -> Seq(Offsets)]]
  BY ListSets DEF Flushing
<1> QED BY <1>1 DEF Inv, TypeOK, Frame, Flushing, Owners

LEMMA FlushKeeps ==
  ASSUME Inv, NEW f \in Flushers, NEW buf \in [Streams -> Long], Flush(f, buf)
  PROVE  Flushing'
  BY FlushTyped DEF Flushing

(* The recorder's own lists may be flushed as they are. *)
LEMMA BufferIsLong == Inv => buffer \in [Streams -> Long]
  BY ListSets DEF Inv

LEMMA InvInit == Init => Inv
<1> SUFFICES ASSUME Init PROVE Inv
  OBVIOUS
<1>1. NoRows \in [Streams -> Short] /\ NoRows \in [Streams -> Long]
  BY ListSets DEF NoRows
<1>2. Flushing
  BY <1>1 DEF Init, Flushing, Owners
<1>3. Frame
  <2>1. pc \in [Flushers -> {"serving", "waiting", "sleeping", "cancelled", "drain", "close",
                            "leave", "finish", "exited", "down"}]
    BY DEF Init, Flushers, Stoppers
  <2>2. consuming \in BOOLEAN /\ dbOpen \in BOOLEAN /\ started \in BOOLEAN /\ stopping \in BOOLEAN
    BY Zenon DEF Init
  <2>3. /\ position = 0 /\ committed = 0 /\ starts = 1 /\ failures = 0
        /\ db = {} /\ accepted = {} /\ failed = {} /\ displaced = {} /\ overflowed = {}
    BY Zenon DEF Init
  <2>4. /\ position \in 0..Len(Log) /\ committed \in 0..Len(Log)
        /\ starts \in Nat /\ failures \in Nat
    BY <2>3, Bounds
  <2>5. /\ db \subseteq Offsets /\ accepted \subseteq Offsets
        /\ failed \subseteq Streams /\ displaced \subseteq Streams
        /\ overflowed \subseteq Streams
    BY <2>3
  <2> QED BY <2>1, <2>2, <2>4, <2>5, Zenon DEF Frame
<1> QED BY <1>2, <1>3, InvParts

(* A row that is appended makes its list one longer, within the bound. *)
LEMMA AppendedFits ==
  ASSUME Inv, NEW n \in Offsets, NEW t \in Streams
  PROVE  [buffer EXCEPT ![t] = Append(@, n)] \in [Streams -> Long]
<1>1. \A s \in Streams : buffer[s] \in Short /\ buffer[s] \in Seq(Offsets)
  BY ListSets DEF Inv
<1>2. Append(buffer[t], n) \in Long
  BY <1>1, Bounds DEF Short, Long, Lists
<1>3. \A s \in Streams : buffer[s] \in Long
  BY <1>1, ListSets
<1> QED BY <1>2, <1>3 DEF Inv

(* A message that is taken: its row makes its list one longer, and a list  *)
(* that is not flushed then is shorter than a batch.                       *)
LEMMA TakeKeeps == Inv /\ Take => Inv'
<1> SUFFICES ASSUME Inv, Take PROVE Inv'
  OBVIOUS
<1> DEFINE m == Log[position + 1]
           buf == IF Keeps(m)
                  THEN [buffer EXCEPT ![m.stream] = Append(@, position + 1)] ELSE buffer
<1>1. position + 1 \in Offsets /\ position + 1 \in 0..Len(Log)
  BY Bounds DEF Inv, TypeOK, Take, Offsets
<1>2. m.stream \in Streams
  <2>1. m \in Message
    BY <1>1, LogAssumption DEF Offsets
  <2> HIDE DEF m
  <2> QED BY <2>1 DEF Message
<1>3. /\ position' = position + 1
      /\ accepted' = IF Keeps(m) THEN accepted \cup {position + 1} ELSE accepted
      /\ IF Buffered(buf) >= BatchSize
         THEN Flush("run", buf)
         ELSE buffer' = buf /\ UNCHANGED <<rows, stage, target, sent>>
      /\ UNCHANGED <<committed, consuming, lifeVars, db, historyVars>>
  BY DEF Take
<1>4. buf \in [Streams -> Long]
  BY <1>1, <1>2, AppendedFits, BufferIsLong
<1>5. \A s \in Streams : buf[s] \in Long
  BY <1>4
<1> HIDE DEF buf, m
<1>6. Flushing'
  <2>1. CASE Buffered(buf) >= BatchSize
    <3>1. Flush("run", buf) /\ "run" \in Flushers
      BY <1>3, <2>1 DEF Flushers, Stoppers
    <3> QED BY <1>4, <3>1, FlushKeeps
  <2>2. CASE ~(Buffered(buf) >= BatchSize)
    <3>1. \A s \in Streams : Len(buf[s]) \in Nat
      BY <1>5 DEF Long, Lists
    <3>2. Buffered(buf) \in Nat /\ \A s \in Streams : Len(buf[s]) <= Buffered(buf)
      <4> DEFINE n(s) == Len(buf[s])
      <4>1. \A s \in {"orderbook", "perp_metrics", "funding", "candles"} : n(s) \in Nat
        BY <3>1 DEF Streams
      <4>2. Buffered(buf) = n("orderbook") + n("perp_metrics") + n("funding") + n("candles")
        BY DEF Buffered
      <4> HIDE DEF n
      <4>3. \A s \in {"orderbook", "perp_metrics", "funding", "candles"} :
              n(s) <= n("orderbook") + n("perp_metrics") + n("funding") + n("candles")
        BY <4>1
      <4>4. Buffered(buf) \in Nat
        BY <4>1, <4>2
      <4>5. \A s \in Streams : n(s) <= Buffered(buf)
        BY <4>2, <4>3 DEF Streams
      <4> QED BY <4>4, <4>5 DEF n
    <3>3. \A s \in Streams : Len(buf[s]) <= Larger(MaxRetry, BatchSize - 1)
      BY <2>2, <3>1, <3>2, Bounds, BoundsAssumption
    <3>4. \A s \in Streams : buf[s] \in Short
      BY <1>5, <3>3 DEF Short, Long, Lists
    <3>5. buf \in [Streams -> Short]
      BY <1>4, <3>4
    <3> QED BY <1>3, <2>2, <3>5, InvParts DEF Flushing
  <2> QED BY <2>1, <2>2
<1>7. Frame'
  BY <1>1, <1>3, InvParts DEF Frame, lifeVars, historyVars
<1> QED BY <1>6, <1>7, InvPartsPrimed

LEMMA TickKeeps == Inv /\ Tick => Inv'
<1> SUFFICES ASSUME Inv, Tick PROVE Inv'
  OBVIOUS
<1>1. Flushing'
  BY BufferIsLong, FlushKeeps DEF Tick, Flushers
<1>2. Frame'
  BY InvParts DEF Tick, Frame, consumerVars, lifeVars, historyVars
<1> QED BY <1>1, <1>2, InvPartsPrimed

(* A flush that goes on with its lists, one of them taken away. *)
LEMMA ProceedKeeps ==
  ASSUME Inv, NEW f \in Flushers, NEW i,
         NEW buf \in [Streams -> Short], NEW held \in [Flushers -> [Streams -> Long]],
         Proceed(f, buf, held, i), Retarget(f, FALSE)
  PROVE  Flushing'
<1>1. /\ stage \in [Flushers -> 0..4]
      /\ sent \in [Flushers -> SUBSET Offsets]
      /\ target \in [Flushers -> Owners]
  BY DEF Inv, TypeOK, Owners
<1>2. /\ buffer' \in [Streams -> Short]
      /\ rows' \in [Flushers -> [Streams -> Long]]
      /\ stage' \in [Flushers -> 0..4]
      /\ sent' \in [Flushers -> SUBSET Offsets]
  BY <1>1, ProceedTyped
<1>3. target' \in [Flushers -> Owners]
  BY <1>1, RetargetTyped
<1> QED BY <1>2, <1>3 DEF Flushing

LEMMA StreamOfWrite ==
  ASSUME Inv, NEW f \in Flushers, Writing(f)
  PROVE  StreamOf(f) \in Streams
<1>1. stage[f] \in 1..4
  BY DEF Inv, TypeOK, Writing
<1> QED BY <1>1 DEF StreamOf, WriteOrder, Streams

LEMMA TakenAway ==
  ASSUME Inv, NEW f \in Flushers, NEW s \in Streams
  PROVE  [rows EXCEPT ![f][s] = << >>] \in [Flushers -> [Streams -> Long]]
  BY ListSets DEF Inv

LEMMA WriteOkKeeps == \A f \in Flushers : Inv /\ WriteOk(f) => Inv'
<1> SUFFICES ASSUME Inv, NEW f \in Flushers, WriteOk(f) PROVE Inv'
  OBVIOUS
<1>1. Flushing'
  BY StreamOfWrite, TakenAway, ProceedKeeps DEF WriteOk, Inv
<1>2. db' \subseteq Offsets
  BY DEF WriteOk, Inv, TypeOK
<1>3. Frame'
  BY <1>2, InvParts DEF WriteOk, Frame, consumerVars, lifeVars, historyVars
<1> QED BY <1>1, <1>3, InvPartsPrimed

LEMMA WriteFailKeeps == \A f \in Flushers : Inv /\ WriteFail(f) => Inv'
<1> SUFFICES ASSUME Inv, NEW f \in Flushers, WriteFail(f) PROVE Inv'
  OBVIOUS
<1> DEFINE s == StreamOf(f)
           list == rows[f][s]
           mine == [rows EXCEPT ![f][s] = << >>]
           owner == target[f]
<1>1. s \in Streams
  BY StreamOfWrite DEF WriteFail
<1>2. mine \in [Flushers -> [Streams -> Long]]
  BY <1>1, TakenAway
<1>3. /\ failures' = failures + 1
      /\ db' = db \/ db' = db \cup sent[f]
      /\ CASE owner = "buffer" ->
                Proceed(f, [buffer EXCEPT ![s] = Requeue(list, @)], mine, AfterFailure(f))
           [] owner \in Flushers ->
                Proceed(f, buffer, [mine EXCEPT ![owner][s] = Requeue(list, @)], AfterFailure(f))
           [] OTHER ->
                Proceed(f, buffer, mine, AfterFailure(f))
      /\ Retarget(f, FALSE)
      /\ failed' = failed \cup {s}
      /\ displaced' \in {displaced, displaced \cup {s}}
      /\ overflowed' \in {overflowed, overflowed \cup {s}}
      /\ UNCHANGED <<consumerVars, lastBookAt, lifeVars, accepted>>
  BY DEF WriteFail
<1>4. /\ list \in Seq(Offsets) /\ buffer[s] \in Seq(Offsets)
      /\ \A g \in Flushers : mine[g][s] \in Seq(Offsets)
      /\ buffer \in [Streams -> Short]
  BY <1>1, <1>2, ListSets DEF Inv
<1> HIDE DEF s, list, mine, owner
<1>5. Flushing'
  <2>1. CASE owner = "buffer"
    <3>1. [buffer EXCEPT ![s] = Requeue(list, @)] \in [Streams -> Short]
      BY <1>1, <1>4, RequeueFits
    <3>2. Proceed(f, [buffer EXCEPT ![s] = Requeue(list, @)], mine, AfterFailure(f))
      BY <1>3, <2>1 DEF Flushers, Stoppers
    <3> QED BY <1>2, <1>3, <3>1, <3>2, ProceedKeeps
  <2>2. CASE owner # "buffer" /\ owner \in Flushers
    <3>1. Requeue(list, mine[owner][s]) \in Long
      BY <1>4, <2>2, RequeueFits, ListSets
    <3>2. [mine EXCEPT ![owner][s] = Requeue(list, @)] \in [Flushers -> [Streams -> Long]]
      BY <1>1, <1>2, <2>2, <3>1
    <3>3. Proceed(f, buffer, [mine EXCEPT ![owner][s] = Requeue(list, @)], AfterFailure(f))
      BY <1>3, <2>2
    <3> QED BY <1>3, <1>4, <3>2, <3>3, ProceedKeeps
  <2>3. CASE owner # "buffer" /\ owner \notin Flushers
    BY <1>2, <1>3, <1>4, <2>3, ProceedKeeps
  <2> QED BY <2>1, <2>2, <2>3
<1>6. Frame'
  <2>1. db' \subseteq Offsets /\ failures' \in Nat
    BY <1>3 DEF Inv, TypeOK
  <2>2. /\ failed' \subseteq Streams /\ displaced' \subseteq Streams
        /\ overflowed' \subseteq Streams
    BY <1>1, <1>3 DEF Inv, TypeOK
  <2> QED BY <1>3, <2>1, <2>2, InvParts DEF Frame, consumerVars, lifeVars
<1> QED BY <1>5, <1>6, InvPartsPrimed

Labels == {"serving", "waiting", "sleeping", "cancelled", "drain", "close", "leave",
           "finish", "exited", "down"}

LEMMA CancelKeeps == Inv /\ CancelTimer /\ UNCHANGED buffer => Flushing' /\ db' \subseteq Offsets
<1> SUFFICES ASSUME Inv, CancelTimer, UNCHANGED buffer
             PROVE  Flushing' /\ db' \subseteq Offsets
  OBVIOUS
<1>1. NoRows \in [Streams -> Long] /\ "timer" \in Flushers
  BY ListSets DEF NoRows, Flushers
<1>2. /\ rows' \in [Flushers -> [Streams -> Long]]
      /\ stage' \in [Flushers -> 0..4]
      /\ sent' \in [Flushers -> SUBSET Offsets]
  BY <1>1 DEF CancelTimer, Inv, TypeOK
<1>3. target' \in [Flushers -> Owners]
  BY DEF CancelTimer, Inv, TypeOK, Owners
<1>4. db' \subseteq Offsets
  BY <1>1 DEF CancelTimer, Inv, TypeOK
<1> QED BY <1>2, <1>3, <1>4 DEF Flushing, Inv

LEMMA BeginStopKeeps ==
  ASSUME Inv, NEW p \in Stoppers, BeginStop(p), position' \in 0..Len(Log)
  PROVE  Inv'
<1>1. p \in Flushers /\ "timer" \in Flushers
  BY DEF Flushers
<1>2. pc \in [Flushers -> Labels]
  BY DEF Inv, TypeOK, Labels
<1>3. pc' \in [Flushers -> Labels]
  <2>1. CASE started
    BY <1>1, <1>2, <2>1 DEF BeginStop, Labels
  <2>2. CASE ~started
    BY <1>1, <1>2, <2>2 DEF BeginStop, Labels
  <2> QED BY <2>1, <2>2
<1>4. Flushing' /\ db' \subseteq Offsets
  <2>1. CASE started
    BY <2>1, CancelKeeps DEF BeginStop
  <2>2. CASE ~started
    <3>1. UNCHANGED <<buffer, db, rows, stage, sent, target>>
      BY <2>2 DEF BeginStop
    <3>2. Flushing /\ db \subseteq Offsets
      BY InvParts DEF Inv, TypeOK
    <3> QED BY <3>1, <3>2 DEF Flushing
  <2> QED BY <2>1, <2>2
<1>5. stopping' \in BOOLEAN
  BY Zenon DEF BeginStop
<1>6. /\ UNCHANGED <<committed, consuming, dbOpen, started, starts, accepted>>
      /\ UNCHANGED <<failed, displaced, overflowed, failures>>
  BY DEF BeginStop, historyVars
<1>7. Frame'
  BY <1>3, <1>4, <1>5, <1>6, InvParts DEF Frame, Labels
<1> QED BY <1>4, <1>7, InvPartsPrimed

LEMMA SignalKeeps == Inv /\ Signal => Inv'
<1> SUFFICES ASSUME Inv, Signal PROVE Inv'
  OBVIOUS
<1>1. position' \in 0..Len(Log)
  BY DEF Inv, TypeOK, Signal
<1> QED BY <1>1, BeginStopKeeps DEF Signal, Stoppers

LEMMA BreakOffKeeps == Inv /\ BreakOff => Inv'
<1> SUFFICES ASSUME Inv, BreakOff PROVE Inv'
  OBVIOUS
<1>1. position' \in 0..Len(Log)
  BY Bounds DEF Inv, TypeOK, BreakOff
<1> QED BY <1>1, BeginStopKeeps DEF BreakOff, Stoppers

(* The steps of the life cycle that only move a label or a flag. *)
LEMMA MoveLabel ==
  ASSUME Inv, NEW p \in Stoppers, NEW l \in Labels, pc' = [pc EXCEPT ![p] = l]
  PROVE  pc' \in [Flushers -> Labels]
  BY DEF Inv, TypeOK, Labels, Flushers

LEMMA DrainKeeps == \A p \in Stoppers : Inv /\ Drain(p) => Inv'
<1> SUFFICES ASSUME Inv, NEW p \in Stoppers, Drain(p) PROVE Inv'
  OBVIOUS
<1>1. pc' \in [Flushers -> Labels]
  BY MoveLabel DEF Drain, Labels
<1>2. Flushing'
  BY BufferIsLong, FlushKeeps DEF Drain, Flushers
<1>3. Frame'
  BY <1>1, InvParts DEF Drain, Frame, Labels, consumerVars, historyVars
<1> QED BY <1>2, <1>3, InvPartsPrimed

LEMMA SameFlushing == Inv /\ UNCHANGED flushVars => Flushing'
  BY InvParts DEF Flushing, flushVars

LEMMA CloseKeeps == \A p \in Stoppers : Inv /\ Close(p) => Inv'
<1> SUFFICES ASSUME Inv, NEW p \in Stoppers, Close(p) PROVE Inv'
  OBVIOUS
<1>1. pc' \in [Flushers -> Labels]
  BY MoveLabel DEF Close, Labels
<1>2. dbOpen' \in BOOLEAN
  BY Zenon DEF Close
<1>3. Frame'
  BY <1>1, <1>2, InvParts DEF Close, Frame, Labels, consumerVars, historyVars
<1> QED BY <1>3, SameFlushing, InvPartsPrimed DEF Close

LEMMA LeaveKeeps == \A p \in Stoppers : Inv /\ Leave(p) => Inv'
<1> SUFFICES ASSUME Inv, NEW p \in Stoppers, Leave(p) PROVE Inv'
  OBVIOUS
<1>1. pc' \in [Flushers -> Labels]
  BY MoveLabel DEF Leave, Labels
<1>2. consuming' \in BOOLEAN
  BY Zenon DEF Leave
<1>3. committed' \in 0..Len(Log)
  BY DEF Leave, Inv, TypeOK
<1>4. Frame'
  BY <1>1, <1>2, <1>3, InvParts DEF Leave, Frame, Labels, historyVars
<1> QED BY <1>4, SameFlushing, InvPartsPrimed DEF Leave

LEMMA FinishKeeps == \A p \in Stoppers : Inv /\ Finish(p) => Inv'
<1> SUFFICES ASSUME Inv, NEW p \in Stoppers, Finish(p) PROVE Inv'
  OBVIOUS
<1>1. pc' \in [Flushers -> Labels]
  BY MoveLabel DEF Finish, Labels
<1>2. started' \in BOOLEAN
  BY Zenon DEF Finish
<1>3. Frame'
  BY <1>1, <1>2, InvParts DEF Finish, Frame, Labels, consumerVars, historyVars
<1> QED BY <1>3, SameFlushing, InvPartsPrimed DEF Finish

LEMMA AutoCommitKeeps == Inv /\ AutoCommit => Inv'
<1> SUFFICES ASSUME Inv, AutoCommit PROVE Inv'
  OBVIOUS
<1>1. Frame'
  BY InvParts DEF AutoCommit, Frame, lifeVars, historyVars
<1> QED BY <1>1, SameFlushing, InvPartsPrimed DEF AutoCommit

LEMMA CrashKeeps == Inv /\ Crash => Inv'
<1> SUFFICES ASSUME Inv, Crash PROVE Inv'
  OBVIOUS
<1>1. pc' \in [Flushers -> Labels]
  BY DEF Crash, Labels
<1>2. Flushing'
  BY InvParts DEF Crash, Flushing
<1>3. Frame'
  BY <1>1, InvParts DEF Crash, Frame, Labels, consumerVars, historyVars
<1> QED BY <1>2, <1>3, InvPartsPrimed

LEMMA StartKeeps == Inv /\ Start => Inv'
<1> SUFFICES ASSUME Inv, Start PROVE Inv'
  OBVIOUS
<1>1. pc' \in [Flushers -> Labels]
  BY DEF Start, Flushers, Stoppers, Labels
<1>2. NoRows \in [Streams -> Short] /\ NoRows \in [Streams -> Long]
  BY ListSets DEF NoRows
<1>3. /\ buffer' = NoRows
      /\ rows' = [f \in Flushers |-> NoRows]
      /\ stage' = [f \in Flushers |-> 0]
      /\ target' = [f \in Flushers |-> "none"]
      /\ sent' = [f \in Flushers |-> {}]
  BY DEF Start
<1>4. Flushing'
  BY <1>2, <1>3 DEF Flushing, Owners
<1>5. /\ consuming' \in BOOLEAN /\ dbOpen' \in BOOLEAN /\ started' \in BOOLEAN
      /\ stopping' \in BOOLEAN
  BY Zenon DEF Start
<1>6. /\ starts' = starts + 1 /\ position' = committed /\ UNCHANGED <<committed, db, failures>>
      /\ accepted' = {} /\ failed' = {} /\ displaced' = {} /\ overflowed' = {}
  BY DEF Start
<1>7. Frame'
  BY <1>1, <1>5, <1>6, InvParts DEF Frame, Labels
<1> QED BY <1>4, <1>7, InvPartsPrimed

LEMMA StutterKeeps == Inv /\ UNCHANGED vars => Inv'
<1> SUFFICES ASSUME Inv, UNCHANGED vars PROVE Inv'
  OBVIOUS
<1>1. UNCHANGED flushVars
  BY DEF vars
<1>2. Frame'
  BY InvParts DEF vars, Frame, consumerVars, lifeVars, historyVars
<1> QED BY <1>1, <1>2, SameFlushing, InvPartsPrimed

LEMMA InvNext == Inv /\ [Next]_vars => Inv'
<1> SUFFICES ASSUME Inv, [Next]_vars PROVE Inv'
  OBVIOUS
<1>1. CASE Take \/ Tick \/ Signal \/ BreakOff
  BY <1>1, TakeKeeps, TickKeeps, SignalKeeps, BreakOffKeeps
<1>2. CASE \E f \in Flushers : WriteOk(f) \/ WriteFail(f)
  BY <1>2, WriteOkKeeps, WriteFailKeeps
<1>3. CASE \E p \in Stoppers : Drain(p) \/ Close(p) \/ Leave(p) \/ Finish(p)
  BY <1>3, DrainKeeps, CloseKeeps, LeaveKeeps, FinishKeeps
<1>4. CASE AutoCommit \/ Crash \/ Start
  BY <1>4, AutoCommitKeeps, CrashKeeps, StartKeeps
<1>5. CASE UNCHANGED vars
  BY <1>5, StutterKeeps
<1> QED BY <1>1, <1>2, <1>3, <1>4, <1>5 DEF Next

LEMMA Invariance == Spec => []Inv
  BY InvInit, InvNext, PTL DEF Spec

(* The variables of the recorder have their types, whatever the log, the   *)
(* failures, the crashes and the interleaving of the three flushes.        *)
THEOREM TypeCorrect == Spec => []TypeOK
<1>1. Inv => TypeOK
  BY DEF Inv
<1> QED BY <1>1, Invariance, PTL

(* max_retry_buffer bounds the memory: no list of the recorder outgrows    *)
(* it, or the batch, however long the database fails.                      *)
THEOREM MemoryBounded == Spec => []BufferBounded
<1>1. Inv => BufferBounded
  <2> SUFFICES ASSUME Inv, NEW s \in Streams
               PROVE  /\ Len(buffer[s]) <= MaxList
                      /\ \A f \in Flushers : Len(rows[f][s]) <= MaxList
    BY DEF BufferBounded
  <2>1. buffer[s] \in Long
    BY BufferIsLong
  <2>2. \A f \in Flushers : rows[f][s] \in Long
    BY DEF Inv
  <2> QED BY <2>1, <2>2 DEF Long, Lists
<1> QED BY <1>1, Invariance, PTL

-----------------------------------------------------------------------------
(* What keeps the rows.  While the recorder serves, its pool is open, and: *)
(* a flush holds rows only of the streams it has still to write; a write   *)
(* sends all the rows of its list; and its list belongs to nobody, to the  *)
(* recorder or to another flush that is not over.  A stream whose rows     *)
(* were displaced is beyond these promises.                                *)
Open == dbOpen /\ pc["run"] = "serving" /\ pc["signal"] = "waiting"

Ahead ==
  \A f \in Flushers : \A s \in Streams \ displaced :
    rows[f][s] # << >> => stage[f] # 0 /\ s \in Remaining(stage[f])

Sending ==
  \A f \in Flushers :
    stage[f] # 0 /\ StreamOf(f) \notin displaced => RowsOf(rows[f][StreamOf(f)]) \subseteq sent[f]

Targets ==
  \A f \in Flushers :
    /\ stage[f] # 0 => target[f] # "none"
    /\ target[f] \in Flushers => target[f] # f /\ stage[target[f]] # 0

Marked == displaced \cup overflowed \subseteq failed
Reach == \A i \in accepted : Log[i].stream \notin displaced \cup overflowed => Kept(i)

Retaining ==
  /\ Marked
  /\ ~stopping => Reach /\ (Alive => Open /\ Ahead /\ Sending /\ Targets)

LEMMA StreamOfOffset == \A i \in Offsets : Log[i].stream \in Streams
<1> SUFFICES ASSUME NEW i \in Offsets PROVE Log[i].stream \in Streams
  OBVIOUS
<1>1. Log[i] \in Message
  BY LogAssumption DEF Offsets
<1> QED BY <1>1 DEF Message

LEMMA Order ==
  /\ \A j \in Stages : WriteOrder[j] \in Streams
  /\ \A s \in Streams : \E j \in Stages : WriteOrder[j] = s
  /\ \A j, k \in Stages : WriteOrder[j] = WriteOrder[k] => j = k
<1>1. Stages = {1, 2, 3, 4}
  BY DEF Stages
<1> QED BY <1>1 DEF WriteOrder, Streams

LEMMA RemainingIs ==
  /\ \A s \in Streams : s \in Remaining(1)
  /\ \A k \in Stages : \A s \in Remaining(k) : s # WriteOrder[k] => s \in Remaining(k + 1)
  /\ \A j, k \in Stages : j <= k => WriteOrder[k] \in Remaining(j)
<1>1. \A s \in Streams : s \in Remaining(1)
  <2> SUFFICES ASSUME NEW s \in Streams PROVE s \in Remaining(1)
    OBVIOUS
  <2>1. PICK j \in Stages : WriteOrder[j] = s
    BY Order
  <2>2. j >= 1
    BY DEF Stages
  <2> QED BY <2>1, <2>2 DEF Remaining
<1>2. ASSUME NEW k \in Stages, NEW s \in Remaining(k), s # WriteOrder[k]
      PROVE  s \in Remaining(k + 1)
  <2>1. PICK j \in Stages : j >= k /\ WriteOrder[j] = s
    BY DEF Remaining
  <2>2. j # k
    BY <1>2, <2>1
  <2>3. j >= k + 1
    BY <2>1, <2>2 DEF Stages
  <2> QED BY <2>1, <2>3 DEF Remaining
<1>3. \A j, k \in Stages : j <= k => WriteOrder[k] \in Remaining(j)
  BY DEF Remaining, Stages
<1> QED BY <1>1, <1>2, <1>3

LEMMA NextWriteIs ==
  ASSUME NEW rs, NEW i, NEW s \in Remaining(i), rs[s] # << >>
  PROVE  NextWrite(rs, i) # 0 /\ s \in Remaining(NextWrite(rs, i))
<1> DEFINE todo == {j \in Stages : j >= i /\ rs[WriteOrder[j]] # << >>}
<1>1. PICK j \in todo : WriteOrder[j] = s
  BY DEF Remaining
<1>2. \E m \in todo : \A k \in todo : m <= k
  BY <1>1 DEF Stages
<1>3. PICK n : n = NextWrite(rs, i)
  OBVIOUS
<1>4. n \in todo /\ \A k \in todo : n <= k
  BY <1>1, <1>2, <1>3 DEF NextWrite
<1>5. n \in Stages /\ j \in Stages /\ n <= j
  BY <1>1, <1>4
<1>6. n # 0
  BY <1>5 DEF Stages
<1>7. s \in Remaining(n)
  BY <1>1, <1>5, RemainingIs
<1> QED BY <1>3, <1>6, <1>7

LEMMA RowsOfIs ==
  /\ RowsOf(<< >>) = {}
  /\ \A q \in Seq(Offsets), x \in Offsets : RowsOf(Append(q, x)) = RowsOf(q) \cup {x}
  /\ \A q, r \in Seq(Offsets) : RowsOf(q \o r) = RowsOf(q) \cup RowsOf(r)
<1>1. RowsOf(<< >>) = {}
  BY DEF RowsOf
<1>2. ASSUME NEW q \in Seq(Offsets), NEW x \in Offsets
      PROVE  RowsOf(Append(q, x)) = RowsOf(q) \cup {x}
  <2>1. /\ Len(Append(q, x)) = Len(q) + 1 /\ Len(q) \in Nat
        /\ \A k \in 1..Len(q) : Append(q, x)[k] = q[k]
        /\ Append(q, x)[Len(q) + 1] = x
    OBVIOUS
  <2>2. 1..(Len(q) + 1) = 1..Len(q) \cup {Len(q) + 1}
    BY <2>1
  <2> QED BY <2>1, <2>2 DEF RowsOf
<1>3. ASSUME NEW q \in Seq(Offsets), NEW r \in Seq(Offsets)
      PROVE  RowsOf(q \o r) = RowsOf(q) \cup RowsOf(r)
  <2>1. /\ Len(q) \in Nat /\ Len(r) \in Nat /\ Len(q \o r) = Len(q) + Len(r)
        /\ \A k \in 1..(Len(q) + Len(r)) :
             (q \o r)[k] = IF k <= Len(q) THEN q[k] ELSE r[k - Len(q)]
    OBVIOUS
  <2>2. RowsOf(q) \subseteq RowsOf(q \o r)
    BY <2>1 DEF RowsOf
  <2>3. RowsOf(r) \subseteq RowsOf(q \o r)
    <3> SUFFICES ASSUME NEW k \in 1..Len(r) PROVE r[k] \in RowsOf(q \o r)
      BY DEF RowsOf
    <3>1. k + Len(q) \in 1..(Len(q) + Len(r)) /\ (q \o r)[k + Len(q)] = r[k]
      BY <2>1
    <3> QED BY <2>1, <3>1 DEF RowsOf
  <2>4. RowsOf(q \o r) \subseteq RowsOf(q) \cup RowsOf(r)
    <3> SUFFICES ASSUME NEW k \in 1..(Len(q) + Len(r)) PROVE (q \o r)[k] \in RowsOf(q) \cup RowsOf(r)
      BY <2>1 DEF RowsOf
    <3>1. CASE k <= Len(q)
      BY <2>1, <3>1 DEF RowsOf
    <3>2. CASE ~(k <= Len(q))
      <4>1. k - Len(q) \in 1..Len(r) /\ (q \o r)[k] = r[k - Len(q)]
        BY <2>1, <3>2
      <4> QED BY <4>1 DEF RowsOf
    <3> QED BY <3>1, <3>2
  <2> QED BY <2>2, <2>3, <2>4
<1> QED BY <1>1, <1>2, <1>3

(* Rows that are put back where there is room for them all. *)
LEMMA RequeueKeepsAll ==
  ASSUME NEW rs \in Seq(Offsets), NEW list \in Seq(Offsets), Len(rs) + Len(list) <= MaxRetry
  PROVE  RowsOf(Requeue(rs, list)) = RowsOf(rs) \cup RowsOf(list)
<1>1. Len(rs \o list) = Len(rs) + Len(list)
  OBVIOUS
<1>2. Requeue(rs, list) = rs \o list
  BY <1>1 DEF Requeue
<1> QED BY <1>2, RowsOfIs

(* A flush that goes on while the pool is open keeps what it has to write  *)
(* and sends what it writes next.                                          *)
LEMMA ProceedRows ==
  ASSUME dbOpen, NEW f \in Flushers, NEW i, NEW buf,
         NEW held \in [Flushers -> [Streams -> Long]],
         stage \in [Flushers -> 0..4], sent \in [Flushers -> SUBSET Offsets],
         rows \in [Flushers -> [Streams -> Long]],
         Proceed(f, buf, held, i)
  PROVE  /\ buffer' = buf
         /\ \A g \in Flushers \ {f} :
              rows'[g] = held[g] /\ stage'[g] = stage[g] /\ sent'[g] = sent[g]
         /\ \A s \in Streams :
              rows'[f][s] # << >> => stage'[f] # 0 /\ s \in Remaining(stage'[f])
         /\ \A s \in Streams :
              (s \in Remaining(i) \/ held[f][s] = << >>) => rows'[f][s] = held[f][s]
         /\ stage'[f] # 0 => RowsOf(rows'[f][WriteOrder[stage'[f]]]) = sent'[f]
<1>1. PICK n : n = NextWrite(held[f], i)
  OBVIOUS
<1>2. PICK mine : mine = [s \in Streams |->
                            IF n # 0 /\ s \in Remaining(n) THEN held[f][s] ELSE << >>]
  OBVIOUS
<1>3. /\ buffer' = buf
      /\ rows' = [held EXCEPT ![f] = mine]
      /\ stage' = [stage EXCEPT ![f] = n]
      /\ sent' = [sent EXCEPT ![f] = IF n = 0 THEN {} ELSE RowsOf(held[f][WriteOrder[n]])]
  BY <1>1, <1>2 DEF Proceed
<1>4. /\ rows'[f] = mine /\ stage'[f] = n
      /\ n # 0 => sent'[f] = RowsOf(held[f][WriteOrder[n]])
      /\ \A g \in Flushers \ {f} :
           rows'[g] = held[g] /\ stage'[g] = stage[g] /\ sent'[g] = sent[g]
  BY <1>3
<1>5. \A s \in Streams : mine[s] # << >> => n # 0 /\ s \in Remaining(n)
  BY <1>2
<1>6. \A s \in Streams : s \in Remaining(i) /\ held[f][s] # << >> => mine[s] = held[f][s]
  BY <1>1, <1>2, NextWriteIs
<1>7. \A s \in Streams : held[f][s] = << >> => mine[s] = held[f][s]
  BY <1>2
<1>8. n # 0 => mine[WriteOrder[n]] = held[f][WriteOrder[n]]
  <2> SUFFICES ASSUME n # 0 PROVE mine[WriteOrder[n]] = held[f][WriteOrder[n]]
    OBVIOUS
  <2>1. n \in Stages
    BY <1>1, NextWriteStage DEF Stages
  <2>2. n <= n
    BY <2>1 DEF Stages
  <2>3. WriteOrder[n] \in Streams /\ WriteOrder[n] \in Remaining(n)
    BY <2>1, <2>2, Order, RemainingIs
  <2> QED BY <1>2, <2>3
<1> QED BY <1>3, <1>4, <1>5, <1>6, <1>7, <1>8

LEMMA HeldKept ==
  ASSUME Inv, dbOpen, NEW f \in Flushers, NEW i, NEW buf,
         NEW held \in [Flushers -> [Streams -> Long]],
         Proceed(f, buf, held, i),
         \A g \in Flushers \ {f} : \A s \in Streams \ displaced' :
           held[g][s] # << >> => stage[g] # 0 /\ s \in Remaining(stage[g]),
         \A g \in Flushers \ {f} :
           stage[g] # 0 /\ StreamOf(g) \notin displaced' =>
             RowsOf(held[g][StreamOf(g)]) \subseteq sent[g]
  PROVE  Ahead' /\ Sending'
<1>1. /\ \A g \in Flushers \ {f} :
           rows'[g] = held[g] /\ stage'[g] = stage[g] /\ sent'[g] = sent[g]
      /\ \A s \in Streams :
           rows'[f][s] # << >> => stage'[f] # 0 /\ s \in Remaining(stage'[f])
      /\ stage'[f] # 0 => RowsOf(rows'[f][WriteOrder[stage'[f]]]) = sent'[f]
  BY ProceedRows DEF Inv, TypeOK
<1>2. Ahead'
  <2> SUFFICES ASSUME NEW g \in Flushers, NEW s \in Streams \ displaced', rows'[g][s] # << >>
               PROVE  stage'[g] # 0 /\ s \in Remaining(stage'[g])
    BY DEF Ahead, Remaining
  <2>1. CASE g = f
    BY <1>1, <2>1
  <2>2. CASE g # f
    BY <1>1, <2>2
  <2> QED BY <2>1, <2>2
<1>3. Sending'
  <2> SUFFICES ASSUME NEW g \in Flushers, stage'[g] # 0, WriteOrder[stage'[g]] \notin displaced'
               PROVE  RowsOf(rows'[g][WriteOrder[stage'[g]]]) \subseteq sent'[g]
    BY DEF Sending, StreamOf, RowsOf
  <2>1. CASE g = f
    BY <1>1, <2>1
  <2>2. CASE g # f
    BY <1>1, <2>2 DEF StreamOf
  <2> QED BY <2>1, <2>2
<1> QED BY <1>2, <1>3

LEMMA TargetsKept ==
  ASSUME Inv, Targets, NEW f \in Flushers, NEW swapped, Retarget(f, swapped),
         \A g \in Flushers \ {f} : stage'[g] = stage[g]
  PROVE  Targets'
<1> SUFFICES ASSUME NEW g \in Flushers
             PROVE  /\ stage'[g] # 0 => target'[g] # "none"
                    /\ target'[g] \in Flushers => target'[g] # g /\ stage'[target'[g]] # 0
  BY DEF Targets
<1>1. "none" \notin Flushers /\ "buffer" \notin Flushers /\ "gone" \notin Flushers
  BY DEF Flushers, Stoppers
<1>2. CASE g = f
  <2>1. target'[g] = IF stage'[f] = 0 THEN "none" ELSE "buffer"
    BY <1>2 DEF Retarget
  <2> QED BY <1>1, <1>2, <2>1
<1>3. CASE g # f
  <2>1. PICK owner : owner = IF swapped /\ target[g] = "buffer" THEN f ELSE target[g]
    OBVIOUS
  <2>2. target'[g] = IF owner = f /\ (stage'[f] = 0 \/ stage[g] < stage'[f])
                     THEN "gone" ELSE owner
    BY <1>3, <2>1 DEF Retarget
  <2>3. /\ stage[g] # 0 => target[g] # "none"
        /\ target[g] \in Flushers => target[g] # g /\ stage[target[g]] # 0
    BY DEF Targets
  <2>4. CASE target'[g] = "gone"
    BY <1>1, <2>4
  <2>5. CASE target'[g] # "gone"
    <3>1. target'[g] = owner /\ (owner = f => stage'[f] # 0)
      BY <2>2, <2>5
    <3>2. stage'[g] # 0 => owner # "none"
      BY <1>1, <1>3, <2>1, <2>3
    <3>3. owner \in Flushers => owner # g /\ stage'[owner] # 0
      <4>1. CASE owner = f
        BY <1>3, <3>1, <4>1
      <4>2. CASE owner # f
        BY <1>3, <2>1, <2>3, <4>2
      <4> QED BY <4>1, <4>2
    <3> QED BY <3>1, <3>2, <3>3
  <2> QED BY <2>4, <2>5
<1> QED BY <1>2, <1>3

(* The swap: the flush holds what was buffered. *)
LEMMA FlushRetains ==
  ASSUME Inv, dbOpen, Ahead, Sending, Targets, NEW f \in Flushers, stage[f] = 0,
         NEW buf \in [Streams -> Long], Flush(f, buf), UNCHANGED displaced
  PROVE  /\ Ahead' /\ Sending' /\ Targets'
         /\ \A s \in Streams \ displaced : rows'[f][s] = buf[s]
         /\ \A s \in Streams \ displaced : \A g \in Flushers :
              RowsOf(rows[g][s]) \subseteq RowsOf(rows'[g][s])
<1>1. PICK held : held = [rows EXCEPT ![f] = buf]
  OBVIOUS
<1>2. /\ held \in [Flushers -> [Streams -> Long]]
      /\ held[f] = buf /\ \A g \in Flushers \ {f} : held[g] = rows[g]
  BY <1>1 DEF Inv
<1>3. Proceed(f, NoRows, held, 1) /\ Retarget(f, TRUE)
  BY <1>1 DEF Flush
<1>4. /\ \A g \in Flushers \ {f} : rows'[g] = held[g] /\ stage'[g] = stage[g]
      /\ \A s \in Streams : s \in Remaining(1) => rows'[f][s] = held[f][s]
  <2>1. /\ stage \in [Flushers -> 0..4] /\ sent \in [Flushers -> SUBSET Offsets]
        /\ rows \in [Flushers -> [Streams -> Long]]
    BY DEF Inv, TypeOK
  <2> QED BY <1>2, <1>3, <2>1, ProceedRows
<1>5. Ahead' /\ Sending'
  <2>1. \A g \in Flushers \ {f} : \A s \in Streams \ displaced' :
          held[g][s] # << >> => stage[g] # 0 /\ s \in Remaining(stage[g])
    BY <1>2 DEF Ahead
  <2>2. \A g \in Flushers \ {f} :
          stage[g] # 0 /\ StreamOf(g) \notin displaced' =>
            RowsOf(held[g][StreamOf(g)]) \subseteq sent[g]
    BY <1>2 DEF Sending
  <2> QED BY <1>2, <1>3, <2>1, <2>2, HeldKept
<1>6. Targets'
  BY <1>3, <1>4, TargetsKept
<1>7. \A s \in Streams : rows'[f][s] = buf[s]
  BY <1>2, <1>4, RemainingIs
<1>8. ASSUME NEW s \in Streams \ displaced, NEW g \in Flushers
      PROVE  RowsOf(rows[g][s]) \subseteq RowsOf(rows'[g][s])
  <2>1. CASE g = f
    BY <2>1, RowsOfIs DEF Ahead
  <2>2. CASE g # f
    BY <1>2, <1>4, <2>2
  <2> QED BY <2>1, <2>2
<1> QED BY <1>5, <1>6, <1>7, <1>8

Serving == Open /\ Ahead /\ Sending /\ Targets

LEMMA RetainingIs == Retaining <=> Marked /\ (~stopping => Reach /\ (Alive => Serving))
  BY DEF Retaining, Serving

LEMMA RetainInit == Init => Retaining
<1> SUFFICES ASSUME Init PROVE Retaining
  OBVIOUS
<1>1. /\ accepted = {} /\ displaced = {} /\ overflowed = {} /\ failed = {} /\ dbOpen
      /\ pc["run"] = "serving" /\ pc["signal"] = "waiting"
      /\ \A f \in Flushers :
           stage[f] = 0 /\ target[f] = "none" /\ \A s \in Streams : rows[f][s] = << >>
  BY DEF Init, NoRows
<1>2. Open /\ Marked /\ Reach
  BY <1>1 DEF Open, Marked, Reach
<1>3. Ahead /\ Sending
  BY <1>1 DEF Ahead, Sending
<1>4. Targets
  BY <1>1 DEF Targets, Flushers, Stoppers
<1> QED BY <1>2, <1>3, <1>4 DEF Retaining

(* Steps that touch no list. *)
LEMMA NothingMoved ==
  ASSUME Retaining, UNCHANGED <<flushVars, db, accepted, dbOpen, stopping, pc>>,
         UNCHANGED <<failed, displaced, overflowed>>
  PROVE  Retaining'
<1>1. Marked'
  BY DEF Retaining, Marked
<1>2. Reach => Reach'
  BY DEF Reach, Kept, RowsOf, flushVars
<1>3. Open => Open'
  BY DEF Open
<1>4. Ahead => Ahead'
  BY DEF Ahead, Remaining, flushVars
<1>5. Sending => Sending'
  BY DEF Sending, StreamOf, RowsOf, flushVars
<1>6. Targets => Targets'
  BY DEF Targets, flushVars
<1>7. Alive' = Alive
  BY DEF Alive
<1> QED BY <1>1, <1>2, <1>3, <1>4, <1>5, <1>6, <1>7 DEF Retaining

(* Once the process stops the promise is only the one about the marks. *)
LEMMA StoppedOnly ==
  ASSUME Retaining, stopping', UNCHANGED <<failed, displaced, overflowed>>
  PROVE  Retaining'
<1>1. Marked'
  BY DEF Retaining, Marked
<1> QED BY <1>1 DEF Retaining

(* A row is within reach still: it was buffered and is held, or was held.  *)
LEMMA StillKept ==
  ASSUME NEW i, Kept(i), db \subseteq db',
         RowsOf(buffer[Log[i].stream]) \subseteq RowsOf(buffer'[Log[i].stream])
           \cup UNION {RowsOf(rows'[g][Log[i].stream]) : g \in Flushers},
         \A g \in Flushers : RowsOf(rows[g][Log[i].stream]) \subseteq
           db' \cup RowsOf(buffer'[Log[i].stream])
             \cup UNION {RowsOf(rows'[g2][Log[i].stream]) : g2 \in Flushers}
  PROVE  Kept(i)'
<1> DEFINE t == Log[i].stream
           There == db' \cup RowsOf(buffer'[t]) \cup UNION {RowsOf(rows'[g][t]) : g \in Flushers}
<1>1. i \in There
  <2>1. CASE i \in db
    BY <2>1
  <2>2. CASE i \in RowsOf(buffer[t])
    BY <2>2
  <2>3. CASE \E g \in Flushers : i \in RowsOf(rows[g][t])
    BY <2>3
  <2> QED BY <2>1, <2>2, <2>3 DEF Kept
<1>2. \/ i \in db' \/ i \in RowsOf(buffer'[t])
      \/ \E g \in Flushers : i \in RowsOf(rows'[g][t])
  BY <1>1
<1> QED BY <1>2 DEF Kept, RowsOf

LEMMA TickRetains == ASSUME Inv, Retaining, Alive, Tick PROVE Retaining'
<1>1. /\ Flush("timer", buffer) /\ stage["timer"] = 0 /\ "timer" \in Flushers
      /\ UNCHANGED <<db, accepted, failed, displaced, overflowed, pc, dbOpen, stopping>>
  BY DEF Tick, Writing, Flushers, lifeVars, historyVars
<1>2. CASE stopping
  BY <1>1, <1>2, StoppedOnly
<1>3. CASE ~stopping
  <2>1. Marked /\ Reach /\ Serving
    BY <1>3, RetainingIs
  <2>2. /\ Ahead' /\ Sending' /\ Targets'
        /\ \A s \in Streams \ displaced : rows'["timer"][s] = buffer[s]
        /\ \A s \in Streams \ displaced : \A g \in Flushers :
             RowsOf(rows[g][s]) \subseteq RowsOf(rows'[g][s])
    BY <1>1, <2>1, BufferIsLong, FlushRetains DEF Serving, Open
  <2>3. Reach'
    <3> SUFFICES ASSUME NEW i \in accepted, Log[i].stream \notin displaced \cup overflowed
                 PROVE  Kept(i)'
      BY <1>1 DEF Reach
    <3>1. Kept(i) /\ Log[i].stream \in Streams \ displaced
      BY <2>1, StreamOfOffset DEF Reach, Inv, TypeOK
    <3>2. PICK t : t = Log[i].stream
      OBVIOUS
    <3>3. RowsOf(buffer[t]) = RowsOf(rows'["timer"][t])
      BY <2>2, <3>1, <3>2
    <3>4. \A g \in Flushers : RowsOf(rows[g][t]) \subseteq RowsOf(rows'[g][t])
      BY <2>2, <3>1, <3>2
    <3>5. RowsOf(buffer[t]) \subseteq UNION {RowsOf(rows'[g][t]) : g \in Flushers}
      BY <1>1, <3>3
    <3>6. \A g \in Flushers : RowsOf(rows[g][t]) \subseteq UNION {RowsOf(rows'[g2][t]) : g2 \in Flushers}
      BY <3>4
    <3>7. db \subseteq db'
      BY <1>1
    <3> QED BY <3>1, <3>2, <3>5, <3>6, <3>7, StillKept
  <2>4. Marked' /\ Open'
    BY <1>1, <2>1 DEF Marked, Serving, Open
  <2> QED BY <2>2, <2>3, <2>4 DEF Retaining
<1> QED BY <1>2, <1>3

LEMMA TakeRetains == ASSUME Inv, Retaining, Alive, Take PROVE Retaining'
<1>1. PICK n : n = position + 1
  OBVIOUS
<1>2. PICK m : m = Log[n]
  OBVIOUS
<1>3. PICK buf : buf = IF Keeps(m) THEN [buffer EXCEPT ![m.stream] = Append(@, n)] ELSE buffer
  OBVIOUS
<1>4. n \in Offsets /\ m.stream \in Streams
  <2>1. n \in Offsets
    BY <1>1, Bounds DEF Inv, TypeOK, Take, Offsets
  <2> QED BY <1>2, <2>1, StreamOfOffset
<1>5. /\ ~stopping /\ stage["run"] = 0 /\ "run" \in Flushers
      /\ accepted' = IF Keeps(m) THEN accepted \cup {n} ELSE accepted
      /\ IF Buffered(buf) >= BatchSize
         THEN Flush("run", buf)
         ELSE buffer' = buf /\ UNCHANGED <<rows, stage, target, sent>>
      /\ UNCHANGED <<db, failed, displaced, overflowed, pc, dbOpen, stopping>>
  BY <1>1, <1>2, <1>3 DEF Take, Writing, Flushers, Stoppers, lifeVars, historyVars
<1>6. Marked /\ Reach /\ Serving
  BY <1>5, RetainingIs
<1>7. buf \in [Streams -> Long]
  BY <1>3, <1>4, AppendedFits, BufferIsLong
<1>8. /\ \A s \in Streams : RowsOf(buffer[s]) \subseteq RowsOf(buf[s])
      /\ Keeps(m) => n \in RowsOf(buf[m.stream])
  <2>1. CASE ~Keeps(m)
    BY <1>3, <2>1
  <2>2. CASE Keeps(m)
    <3>1. \A s \in Streams : buffer[s] \in Seq(Offsets)
      BY DEF Inv, TypeOK
    <3>2. RowsOf(Append(buffer[m.stream], n)) = RowsOf(buffer[m.stream]) \cup {n}
      BY <1>4, <3>1, RowsOfIs
    <3>3. /\ buf[m.stream] = Append(buffer[m.stream], n)
          /\ \A s \in Streams \ {m.stream} : buf[s] = buffer[s]
      BY <1>3, <1>4, <2>2 DEF Inv
    <3> QED BY <1>4, <3>2, <3>3
  <2> QED BY <2>1, <2>2
<1>9. Marked' /\ Open'
  BY <1>5, <1>6 DEF Marked, Serving, Open
<1>10. CASE Buffered(buf) >= BatchSize
  <2>1. /\ Ahead' /\ Sending' /\ Targets'
        /\ \A s \in Streams \ displaced : rows'["run"][s] = buf[s]
        /\ \A s \in Streams \ displaced : \A g \in Flushers :
             RowsOf(rows[g][s]) \subseteq RowsOf(rows'[g][s])
    BY <1>5, <1>6, <1>7, <1>10, FlushRetains DEF Serving, Open
  <2>2. Reach'
    <3> SUFFICES ASSUME NEW i \in accepted', Log[i].stream \notin displaced \cup overflowed
                 PROVE  Kept(i)'
      BY <1>5 DEF Reach
    <3>1. CASE i \in accepted
      <4>1. Kept(i) /\ Log[i].stream \in Streams \ displaced
        BY <1>6, <3>1, StreamOfOffset DEF Reach, Inv, TypeOK
      <4>2. PICK t : t = Log[i].stream
        OBVIOUS
      <4>3. RowsOf(buffer[t]) \subseteq RowsOf(rows'["run"][t])
        BY <1>8, <2>1, <4>1, <4>2
      <4>4. \A g \in Flushers : RowsOf(rows[g][t]) \subseteq RowsOf(rows'[g][t])
        BY <2>1, <4>1, <4>2
      <4>5. RowsOf(buffer[t]) \subseteq UNION {RowsOf(rows'[g][t]) : g \in Flushers}
        BY <1>5, <4>3
      <4>6. \A g \in Flushers : RowsOf(rows[g][t]) \subseteq UNION {RowsOf(rows'[g2][t]) : g2 \in Flushers}
        BY <4>4
      <4>7. db \subseteq db'
        BY <1>5
      <4> QED BY <4>1, <4>2, <4>5, <4>6, <4>7, StillKept
    <3>2. CASE i \notin accepted
      <4>1. i = n /\ Keeps(m)
        BY <1>5, <3>2
      <4>2. i \in RowsOf(rows'["run"][Log[i].stream])
        BY <1>2, <1>4, <1>8, <2>1, <4>1
      <4> QED BY <1>5, <4>2 DEF Kept, RowsOf
    <3> QED BY <3>1, <3>2
  <2> QED BY <1>9, <2>1, <2>2 DEF Retaining
<1>11. CASE ~(Buffered(buf) >= BatchSize)
  <2>1. buffer' = buf /\ UNCHANGED <<rows, stage, target, sent>>
    BY <1>5, <1>11
  <2>2. Ahead' /\ Sending' /\ Targets'
    BY <1>5, <1>6, <2>1 DEF Serving, Ahead, Sending, Targets, Remaining, StreamOf, RowsOf
  <2>3. Reach'
    <3> SUFFICES ASSUME NEW i \in accepted', Log[i].stream \notin displaced \cup overflowed
                 PROVE  Kept(i)'
      BY <1>5 DEF Reach
    <3>1. CASE i \in accepted
      <4>1. Kept(i) /\ Log[i].stream \in Streams
        BY <1>6, <3>1, StreamOfOffset DEF Reach, Inv, TypeOK
      <4>2. RowsOf(buffer[Log[i].stream]) \subseteq RowsOf(buffer'[Log[i].stream])
        BY <1>8, <2>1, <4>1
      <4> QED BY <1>5, <2>1, <4>1, <4>2, StillKept
    <3>2. CASE i \notin accepted
      <4>1. i = n /\ Keeps(m)
        BY <1>5, <3>2
      <4>2. i \in RowsOf(buffer'[Log[i].stream])
        BY <1>2, <1>4, <1>8, <2>1, <4>1
      <4> QED BY <4>2 DEF Kept, RowsOf
    <3> QED BY <3>1, <3>2
  <2> QED BY <1>9, <2>2, <2>3 DEF Retaining
<1> QED BY <1>10, <1>11

(* A write of f is over: its list is gone from f, and has at most moved to *)
(* a flush that comes to that stream later.                                *)
MovedOn(f, s, held) ==
  /\ held \in [Flushers -> [Streams -> Long]]
  /\ \A g \in Flushers : \A t \in Streams \ {s} : held[g][t] = rows[g][t]
  /\ held[f][s] = << >>
  /\ displaced \subseteq displaced'
  /\ \A g \in Flushers \ {f} :
       s \notin displaced' /\ held[g][s] # rows[g][s] => stage[g] # 0 /\ stage[g] < stage[f]
WroteOn(f, s, buf, held) ==
  /\ Ahead' /\ Sending' /\ Targets'
  /\ buffer' = buf
  /\ \A g \in Flushers \ {f} : rows'[g] = held[g]
  /\ \A t \in Streams \ displaced' : t # s => rows'[f][t] = rows[f][t]

LEMMA GoesOn ==
  ASSUME Inv, Serving, NEW f \in Flushers, Writing(f), NEW s, s = StreamOf(f),
         NEW buf, NEW held, MovedOn(f, s, held),
         Proceed(f, buf, held, stage[f] + 1), Retarget(f, FALSE)
  PROVE  WroteOn(f, s, buf, held)
<1> USE DEF MovedOn
<1>1. /\ stage \in [Flushers -> 0..4] /\ sent \in [Flushers -> SUBSET Offsets]
      /\ rows \in [Flushers -> [Streams -> Long]] /\ dbOpen
  BY DEF Inv, TypeOK, Serving, Open
<1>2. /\ buffer' = buf
      /\ \A g \in Flushers \ {f} : rows'[g] = held[g] /\ stage'[g] = stage[g]
      /\ \A t \in Streams :
           (t \in Remaining(stage[f] + 1) \/ held[f][t] = << >>) => rows'[f][t] = held[f][t]
  BY <1>1, ProceedRows
<1>3. stage[f] \in Stages /\ s \in Streams /\ s = WriteOrder[stage[f]]
  BY <1>1, StreamOfWrite DEF Writing, Stages, StreamOf
<1>4. ASSUME NEW g \in Flushers \ {f}, NEW t \in Streams \ displaced', held[g][t] # << >>
      PROVE  stage[g] # 0 /\ t \in Remaining(stage[g])
  <2>1. CASE held[g][t] = rows[g][t]
    BY <1>4, <2>1 DEF Serving, Ahead
  <2>2. CASE held[g][t] # rows[g][t]
    <3>1. t = s /\ stage[g] # 0 /\ stage[g] < stage[f]
      BY <2>2
    <3>2. stage[g] \in Stages /\ stage[g] <= stage[f]
      BY <1>1, <1>3, <3>1 DEF Stages
    <3> QED BY <1>3, <3>1, <3>2, RemainingIs
  <2> QED BY <2>1, <2>2
<1>5. ASSUME NEW g \in Flushers \ {f}, stage[g] # 0, StreamOf(g) \notin displaced'
      PROVE  RowsOf(held[g][StreamOf(g)]) \subseteq sent[g]
  <2>1. stage[g] \in Stages /\ StreamOf(g) = WriteOrder[stage[g]] /\ StreamOf(g) \in Streams
    BY <1>1, <1>5, Order DEF Stages, StreamOf
  <2>2. held[g][StreamOf(g)] = rows[g][StreamOf(g)]
    <3>1. CASE StreamOf(g) = s
      <4>1. stage[g] = stage[f]
        <5>1. stage[g] \in Stages /\ stage[f] \in Stages
          BY <1>3, <2>1
        <5>2. WriteOrder[stage[g]] = WriteOrder[stage[f]]
          BY <1>3, <2>1, <3>1
        <5> QED BY <5>1, <5>2, Order
      <4>2. ~(stage[g] < stage[f])
        BY <1>3, <4>1 DEF Stages
      <4> QED BY <1>5, <3>1, <4>2
    <3>2. CASE StreamOf(g) # s
      BY <2>1, <3>2
    <3> QED BY <3>1, <3>2
  <2> QED BY <1>5, <2>2 DEF Serving, Sending
<1>6. Ahead' /\ Sending'
  BY <1>1, <1>4, <1>5, HeldKept
<1>7. Targets'
  BY <1>2, TargetsKept DEF Serving
<1>8. ASSUME NEW t \in Streams \ displaced', t # s PROVE rows'[f][t] = rows[f][t]
  <2>1. held[f][t] = rows[f][t]
    BY <1>8
  <2>2. CASE rows[f][t] = << >>
    BY <1>2, <2>1, <2>2
  <2>3. CASE rows[f][t] # << >>
    <3>1. t \in Remaining(stage[f])
      BY <2>3 DEF Serving, Ahead
    <3>2. t \in Remaining(stage[f] + 1)
      BY <1>3, <1>8, <3>1, RemainingIs
    <3> QED BY <1>2, <2>1, <3>2
  <2> QED BY <2>2, <2>3
<1> QED BY <1>2, <1>6, <1>7, <1>8 DEF WroteOn

LEMMA WriteOkRetains == ASSUME Inv, Retaining, Alive, NEW f \in Flushers, WriteOk(f) PROVE Retaining'
<1>1. PICK s : s = StreamOf(f)
  OBVIOUS
<1>2. PICK held : held = [rows EXCEPT ![f][s] = << >>]
  OBVIOUS
<1>3. /\ Writing(f) /\ db' = db \cup sent[f]
      /\ Proceed(f, buffer, held, stage[f] + 1) /\ Retarget(f, FALSE)
      /\ UNCHANGED <<accepted, failed, displaced, overflowed, pc, dbOpen, stopping>>
  BY <1>1, <1>2 DEF WriteOk, lifeVars, historyVars
<1>4. CASE stopping
  BY <1>3, <1>4, StoppedOnly
<1>5. CASE ~stopping
  <2>1. Marked /\ Reach /\ Serving
    BY <1>5, RetainingIs
  <2>2. /\ s \in Streams /\ held \in [Flushers -> [Streams -> Long]]
        /\ \A g \in Flushers, t \in Streams \ {s} : held[g][t] = rows[g][t]
        /\ held[f][s] = << >> /\ \A g \in Flushers \ {f} : held[g] = rows[g]
    <3>1. s \in Streams
      BY <1>1, <1>3, StreamOfWrite
    <3>2. held \in [Flushers -> [Streams -> Long]]
      BY <1>2, <3>1, TakenAway
    <3> QED BY <1>2, <3>1, <3>2 DEF Inv
  <2>3. MovedOn(f, s, held)
    BY <1>3, <2>2 DEF MovedOn
  <2>4. WroteOn(f, s, buffer, held)
    BY <1>1, <1>3, <2>1, <2>3, GoesOn
  <2>5. /\ Ahead' /\ Sending' /\ Targets'
        /\ buffer' = buffer
        /\ \A g \in Flushers \ {f} : rows'[g] = rows[g]
        /\ \A t \in Streams \ displaced : t # s => rows'[f][t] = rows[f][t]
    BY <1>3, <2>2, <2>4 DEF WroteOn
  <2>6. Reach'
    <3> SUFFICES ASSUME NEW i \in accepted, Log[i].stream \notin displaced \cup overflowed
                 PROVE  Kept(i)'
      BY <1>3 DEF Reach
    <3>1. Kept(i) /\ Log[i].stream \in Streams \ displaced
      BY <2>1, StreamOfOffset DEF Reach, Inv, TypeOK
    <3>2. Log[i].stream = s => RowsOf(rows[f][Log[i].stream]) \subseteq db'
      BY <1>1, <1>3, <2>1, <3>1 DEF Serving, Sending, Writing
    <3>3. \A g \in Flushers :
            \/ rows'[g][Log[i].stream] = rows[g][Log[i].stream]
            \/ RowsOf(rows[g][Log[i].stream]) \subseteq db'
      BY <2>5, <3>1, <3>2
    <3> QED BY <1>3, <2>5, <3>1, <3>3, StillKept
  <2>7. Marked' /\ Open'
    BY <1>3, <2>1 DEF Marked, Serving, Open
  <2> QED BY <2>5, <2>6, <2>7 DEF Retaining
<1> QED BY <1>4, <1>5

LEMMA WriteFailRetains ==
  ASSUME Inv, Retaining, Alive, NEW f \in Flushers, WriteFail(f)
  PROVE  Retaining'
<1>1. PICK s : s = StreamOf(f)
  OBVIOUS
<1>2. PICK list, mine, owner :
        /\ list = rows[f][s] /\ mine = [rows EXCEPT ![f][s] = << >>] /\ owner = target[f]
  OBVIOUS
<1>3. PICK onto : onto = IF owner = "buffer" THEN buffer[s] ELSE rows[owner][s]
  OBVIOUS
<1>4. /\ Writing(f) /\ Retarget(f, FALSE)
      /\ db \subseteq db'
      /\ CASE owner = "buffer" ->
                Proceed(f, [buffer EXCEPT ![s] = Requeue(list, @)], mine, stage[f] + 1)
           [] owner \in Flushers ->
                Proceed(f, buffer, [mine EXCEPT ![owner][s] = Requeue(list, @)], stage[f] + 1)
           [] OTHER ->
                Proceed(f, buffer, mine, stage[f] + 1)
      /\ failed' = failed \cup {s}
      /\ displaced' = IF owner = "buffer" \/ (owner \in Flushers /\ stage[owner] < stage[f])
                      THEN displaced ELSE displaced \cup {s}
      /\ overflowed' = IF owner # "gone" /\ Len(list) + Len(onto) > MaxRetry
                       THEN overflowed \cup {s} ELSE overflowed
      /\ UNCHANGED <<accepted, pc, dbOpen, stopping>>
  BY <1>1, <1>2, <1>3 DEF WriteFail, AfterFailure, lifeVars
<1>5. Marked'
  BY <1>4 DEF Retaining, Marked
<1>6. CASE stopping
  BY <1>4, <1>5, <1>6 DEF Retaining
<1>7. CASE ~stopping
  <2>1. Marked /\ Reach /\ Serving
    BY <1>7, RetainingIs
  <2>2. /\ s \in Streams /\ mine \in [Flushers -> [Streams -> Long]]
        /\ \A g \in Flushers, t \in Streams \ {s} : mine[g][t] = rows[g][t]
        /\ mine[f][s] = << >> /\ \A g \in Flushers \ {f} : mine[g] = rows[g]
    <3>1. s \in Streams
      BY <1>1, <1>4, StreamOfWrite
    <3>2. mine \in [Flushers -> [Streams -> Long]]
      BY <1>2, <3>1, TakenAway
    <3> QED BY <1>2, <3>1, <3>2 DEF Inv
  <2>3. /\ list \in Seq(Offsets) /\ buffer[s] \in Seq(Offsets)
        /\ \A g \in Flushers : rows[g][s] \in Seq(Offsets)
        /\ buffer \in [Streams -> Short]
    BY <1>2, <2>2 DEF Inv, TypeOK
  <2>4. displaced \subseteq displaced' /\ overflowed \subseteq overflowed' /\ Open'
    BY <1>4, <2>1 DEF Serving, Open
  <2>5. /\ owner \in Flushers => owner # f /\ stage[owner] # 0
        /\ "buffer" \notin Flushers /\ "gone" \notin Flushers
    BY <1>2, <2>1 DEF Serving, Targets, Flushers, Stoppers
  <2>6. MovedOn(f, s, mine)
    BY <2>2, <2>4 DEF MovedOn
  (* The same ending for each owner: what is lost is only what was marked. *)
  <2>7. ASSUME Ahead', Sending', Targets',
               \A t \in Streams \ (displaced' \cup overflowed') :
                 /\ RowsOf(buffer[t]) \subseteq RowsOf(buffer'[t])
                 /\ \A g \in Flushers : RowsOf(rows[g][t]) \subseteq
                      RowsOf(buffer'[t]) \cup UNION {RowsOf(rows'[g2][t]) : g2 \in Flushers}
        PROVE  Retaining'
    <3>1. Reach'
      <4> SUFFICES ASSUME NEW i \in accepted, Log[i].stream \notin displaced' \cup overflowed'
                   PROVE  Kept(i)'
        BY <1>4 DEF Reach
      <4>1. Kept(i) /\ Log[i].stream \in Streams \ (displaced' \cup overflowed')
        BY <2>1, <2>4, StreamOfOffset DEF Reach, Inv, TypeOK
      <4>2. /\ RowsOf(buffer[Log[i].stream]) \subseteq RowsOf(buffer'[Log[i].stream])
            /\ \A g \in Flushers : RowsOf(rows[g][Log[i].stream]) \subseteq
                 RowsOf(buffer'[Log[i].stream])
                   \cup UNION {RowsOf(rows'[g2][Log[i].stream]) : g2 \in Flushers}
        BY <2>7, <4>1
      <4> QED BY <1>4, <4>1, <4>2, StillKept
    <3> QED BY <1>5, <2>4, <2>7, <3>1 DEF Retaining
  <2>8. CASE owner = "buffer"
    <3>1. PICK buf : buf = [buffer EXCEPT ![s] = Requeue(list, @)]
      OBVIOUS
    <3>2. Proceed(f, buf, mine, stage[f] + 1) /\ displaced' = displaced
      BY <1>4, <2>5, <2>8, <3>1
    <3>3. WroteOn(f, s, buf, mine)
      BY <1>1, <1>4, <2>1, <2>6, <3>2, GoesOn
    <3>4. /\ Ahead' /\ Sending' /\ Targets'
          /\ buffer' = buf
          /\ \A g \in Flushers \ {f} : rows'[g] = mine[g]
          /\ \A t \in Streams \ displaced' : t # s => rows'[f][t] = rows[f][t]
      BY <3>3 DEF WroteOn
    <3>5. ASSUME NEW t \in Streams \ (displaced' \cup overflowed')
          PROVE  /\ RowsOf(buffer[t]) \subseteq RowsOf(buffer'[t])
                 /\ \A g \in Flushers :
                      \/ rows'[g][t] = rows[g][t]
                      \/ RowsOf(rows[g][t]) \subseteq RowsOf(buffer'[t])
      <4>1. CASE t = s
        <5>1. ~(Len(list) + Len(buffer[s]) > MaxRetry)
          BY <1>3, <1>4, <2>5, <2>8, <4>1
        <5>2. Len(list) + Len(buffer[s]) <= MaxRetry
          BY <2>3, <5>1, BoundsAssumption
        <5>3. RowsOf(Requeue(list, buffer[s])) = RowsOf(list) \cup RowsOf(buffer[s])
          BY <2>3, <5>2, RequeueKeepsAll
        <5>4. buffer'[s] = Requeue(list, buffer[s])
          BY <2>2, <2>3, <3>1, <3>4
        <5> QED BY <1>2, <2>2, <3>4, <4>1, <5>3, <5>4
      <4>2. CASE t # s
        BY <2>2, <2>3, <3>1, <3>4, <4>2
      <4> QED BY <4>1, <4>2
    <3>6. \A t \in Streams \ (displaced' \cup overflowed') :
            /\ RowsOf(buffer[t]) \subseteq RowsOf(buffer'[t])
            /\ \A g \in Flushers : RowsOf(rows[g][t]) \subseteq
                 RowsOf(buffer'[t]) \cup UNION {RowsOf(rows'[g2][t]) : g2 \in Flushers}
      BY <3>5
    <3> QED BY <2>7, <3>4, <3>6
  <2>9. CASE owner \in Flushers
    <3>1. PICK held : held = [mine EXCEPT ![owner][s] = Requeue(list, @)]
      OBVIOUS
    <3>2. Proceed(f, buffer, held, stage[f] + 1)
      BY <1>4, <2>5, <2>9, <3>1
    <3>3. /\ held \in [Flushers -> [Streams -> Long]]
          /\ held[owner][s] = Requeue(list, rows[owner][s])
          /\ \A g \in Flushers, t \in Streams \ {s} : held[g][t] = rows[g][t]
          /\ \A g \in Flushers \ {owner} : held[g] = mine[g]
      <4>1. Requeue(list, rows[owner][s]) \in Long
        BY <2>3, <2>9, RequeueFits, ListSets
      <4>2. mine[owner][s] = rows[owner][s]
        BY <2>2, <2>5, <2>9
      <4>3. held \in [Flushers -> [Streams -> Long]]
        BY <2>2, <2>9, <3>1, <4>1, <4>2
      <4> QED BY <2>2, <2>9, <3>1, <4>2, <4>3
    <3>4. held[f][s] = << >>
      BY <2>2, <2>5, <2>9, <3>3
    <3>5. \A g \in Flushers \ {f} :
            s \notin displaced' /\ held[g][s] # rows[g][s] =>
              stage[g] # 0 /\ stage[g] < stage[f]
      <4> SUFFICES ASSUME NEW g \in Flushers \ {f}, s \notin displaced', held[g][s] # rows[g][s]
                   PROVE  stage[g] # 0 /\ stage[g] < stage[f]
        OBVIOUS
      <4>1. g = owner
        BY <2>2, <3>3
      <4> QED BY <1>4, <2>5, <2>9, <4>1
    <3>6. MovedOn(f, s, held)
      BY <2>4, <3>3, <3>4, <3>5 DEF MovedOn
    <3>7. WroteOn(f, s, buffer, held)
      BY <1>1, <1>4, <2>1, <3>2, <3>6, GoesOn
    <3>8. /\ Ahead' /\ Sending' /\ Targets'
          /\ buffer' = buffer
          /\ \A g \in Flushers \ {f} : rows'[g] = held[g]
          /\ \A t \in Streams \ displaced' : t # s => rows'[f][t] = rows[f][t]
      BY <3>7 DEF WroteOn
    <3>9. ASSUME NEW t \in Streams \ (displaced' \cup overflowed'), NEW g \in Flushers
          PROVE  RowsOf(rows[g][t]) \subseteq UNION {RowsOf(rows'[g2][t]) : g2 \in Flushers}
      <4>1. CASE t = s
        <5>1. ~(Len(list) + Len(rows[owner][s]) > MaxRetry)
          BY <1>3, <1>4, <2>5, <2>9, <4>1
        <5>2. Len(list) + Len(rows[owner][s]) <= MaxRetry
          BY <2>3, <2>9, <5>1, BoundsAssumption
        <5>3. RowsOf(Requeue(list, rows[owner][s])) = RowsOf(list) \cup RowsOf(rows[owner][s])
          BY <2>3, <2>9, <5>2, RequeueKeepsAll
        <5>4. rows'[owner][s] = Requeue(list, rows[owner][s])
          BY <2>5, <2>9, <3>3, <3>8
        <5>5. CASE g = f \/ g = owner
          BY <1>2, <2>9, <4>1, <5>3, <5>4, <5>5
        <5>6. CASE g # f /\ g # owner
          <6>1. rows'[g][t] = rows[g][t]
            BY <2>2, <3>3, <3>8, <5>6
          <6> QED BY <6>1
        <5> QED BY <5>5, <5>6
      <4>2. CASE t # s
        <5>1. rows'[g][t] = rows[g][t]
          BY <3>3, <3>8, <4>2
        <5> QED BY <5>1
      <4> QED BY <4>1, <4>2
    <3>10. \A t \in Streams \ (displaced' \cup overflowed') :
            /\ RowsOf(buffer[t]) \subseteq RowsOf(buffer'[t])
            /\ \A g \in Flushers : RowsOf(rows[g][t]) \subseteq
                 RowsOf(buffer'[t]) \cup UNION {RowsOf(rows'[g2][t]) : g2 \in Flushers}
      BY <3>8, <3>9
    <3> QED BY <2>7, <3>8, <3>10
  <2>10. CASE owner # "buffer" /\ owner \notin Flushers
    <3>1. Proceed(f, buffer, mine, stage[f] + 1) /\ s \in displaced'
      BY <1>4, <2>10
    <3>2. WroteOn(f, s, buffer, mine)
      BY <1>1, <1>4, <2>1, <2>6, <3>1, GoesOn
    <3>3. /\ Ahead' /\ Sending' /\ Targets'
          /\ buffer' = buffer
          /\ \A g \in Flushers \ {f} : rows'[g] = mine[g]
          /\ \A t \in Streams \ displaced' : t # s => rows'[f][t] = rows[f][t]
      BY <3>2 DEF WroteOn
    <3>4. ASSUME NEW t \in Streams \ (displaced' \cup overflowed')
          PROVE  \A g \in Flushers : rows'[g][t] = rows[g][t]
      <4>1. t # s
        BY <3>1
      <4> QED BY <2>2, <3>3, <4>1
    <3>5. \A t \in Streams \ (displaced' \cup overflowed') :
            /\ RowsOf(buffer[t]) \subseteq RowsOf(buffer'[t])
            /\ \A g \in Flushers : RowsOf(rows[g][t]) \subseteq
                 RowsOf(buffer'[t]) \cup UNION {RowsOf(rows'[g2][t]) : g2 \in Flushers}
      BY <3>3, <3>4
    <3> QED BY <2>7, <3>3, <3>5
  <2> QED BY <2>8, <2>9, <2>10
<1> QED BY <1>6, <1>7

LEMMA StoppingRetains == ASSUME Retaining, Signal \/ BreakOff PROVE Retaining'
<1>1. stopping' /\ UNCHANGED <<failed, displaced, overflowed>>
  BY DEF Signal, BreakOff, BeginStop, historyVars
<1> QED BY <1>1, StoppedOnly

(* stop() goes on only once it was begun. *)
LEMMA StopRetains ==
  ASSUME Retaining, Alive, NEW p \in Stoppers, Drain(p) \/ Close(p) \/ Leave(p) \/ Finish(p)
  PROVE  Retaining'
<1>1. pc[p] \in {"drain", "close", "leave", "finish"}
  BY DEF Drain, Close, Leave, Finish
<1>2. stopping
  BY <1>1, RetainingIs DEF Serving, Open, Stoppers
<1>3. stopping' /\ UNCHANGED <<failed, displaced, overflowed>>
  BY <1>2 DEF Drain, Close, Leave, Finish, historyVars
<1> QED BY <1>3, StoppedOnly

LEMMA CrashRetains == ASSUME Retaining, Crash PROVE Retaining'
<1>1. /\ UNCHANGED <<buffer, rows, db, accepted, stopping, failed, displaced, overflowed>>
      /\ pc' = [p \in Flushers |-> "down"]
  BY DEF Crash, historyVars
<1>2. ~Alive'
  BY <1>1 DEF Alive, Flushers, Stoppers
<1>3. Marked' /\ (Reach => Reach')
  BY <1>1 DEF Retaining, Marked, Reach, Kept, RowsOf
<1> QED BY <1>1, <1>2, <1>3 DEF Retaining

LEMMA StartRetains == ASSUME Start PROVE Retaining'
<1>1. /\ accepted' = {} /\ displaced' = {} /\ overflowed' = {} /\ failed' = {} /\ dbOpen'
      /\ pc'["run"] = "serving" /\ pc'["signal"] = "waiting"
      /\ \A f \in Flushers :
           stage'[f] = 0 /\ target'[f] = "none" /\ \A s \in Streams : rows'[f][s] = << >>
  BY DEF Start, NoRows
<1>2. Open' /\ Marked' /\ Reach'
  BY <1>1 DEF Open, Marked, Reach
<1>3. Ahead' /\ Sending'
  BY <1>1 DEF Ahead, Sending
<1>4. Targets'
  BY <1>1 DEF Targets, Flushers, Stoppers
<1> QED BY <1>2, <1>3, <1>4 DEF Retaining

LEMMA RetainNext == Inv /\ Retaining /\ [Next]_vars => Retaining'
<1> SUFFICES ASSUME Inv, Retaining, [Next]_vars PROVE Retaining'
  OBVIOUS
<1>1. CASE Alive /\ (Take \/ Tick \/ Signal \/ BreakOff)
  BY <1>1, TakeRetains, TickRetains, StoppingRetains
<1>2. CASE Alive /\ \E f \in Flushers : WriteOk(f) \/ WriteFail(f)
  BY <1>2, WriteOkRetains, WriteFailRetains
<1>3. CASE Alive /\ \E p \in Stoppers : Drain(p) \/ Close(p) \/ Leave(p) \/ Finish(p)
  BY <1>3, StopRetains
<1>4. CASE AutoCommit
  BY <1>4, NothingMoved DEF AutoCommit, lifeVars, historyVars
<1>5. CASE Crash
  BY <1>5, CrashRetains
<1>6. CASE Start
  BY <1>6, StartRetains
<1>7. CASE UNCHANGED vars
  BY <1>7, NothingMoved DEF vars, lifeVars, historyVars
<1> QED BY <1>1, <1>2, <1>3, <1>4, <1>5, <1>6, <1>7 DEF Next

LEMMA Retention == Spec => []Retaining
  BY RetainInit, RetainNext, Invariance, PTL DEF Spec

(* A failed write loses no row unless its list was swapped away under it   *)
(* or had no room left: every row that handle() buffered is in a list the  *)
(* recorder still writes, or in the tables, whatever the interleaving of   *)
(* the three flushes.                                                      *)
THEOREM RowsRetained == Spec => []RetryKeepsRows
<1>1. Retaining => RetryKeepsRows
  BY DEF Retaining, Reach, RetryKeepsRows
<1> QED BY <1>1, Retention, PTL

(* "A failure in one cannot discard the others" (flush()): a stream none   *)
(* of whose writes failed has lost no row.                                 *)
THEOREM StreamsIsolated == Spec => []StreamIsolation
<1>1. Retaining => StreamIsolation
  BY DEF Retaining, Marked, Reach, StreamIsolation
<1> QED BY <1>1, Retention, PTL
=============================================================================
