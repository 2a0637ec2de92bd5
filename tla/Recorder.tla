------------------------------ MODULE Recorder ------------------------------
(***************************************************************************)
(* The market data recorder (services/data_ingestion/recorder.py) in the   *)
(* life cycle BaseAgent gives it (services/agents/common/base_agent.py).   *)
(*                                                                         *)
(* One process consumes a Kafka log and buffers the rows worth keeping, a  *)
(* Python list per stream.  A flush swaps the four lists for empty ones    *)
(* and writes them one after the other; each write is an await, so three   *)
(* flushes can be under way at once: that of handle() or of the final      *)
(* stop() in the run loop ("run"), that of the timer task ("timer") and    *)
(* that of the stop() the signal handler starts ("signal").                *)
(*                                                                         *)
(* A list has one owner: the recorder's attribute (buffer[s]), the flush   *)
(* that swapped it out (rows[f][s]) or nobody.  write() receives the list  *)
(* that is the attribute when the write starts, and a failure puts the     *)
(* rows back in THAT list; target[f] says who owns it by now.              *)
(***************************************************************************)
EXTENDS Integers, Sequences, FiniteSets, TLC

CONSTANTS
  Log,            \* the messages of the input topics, in the order delivered
  Symbols,        \* the symbols of the order books in Log
  BookInterval,   \* RecordingSettings.orderbook_interval_s
  BatchSize,      \* RecordingSettings.batch_size
  MaxRetry,       \* RecordingSettings.max_retry_buffer
  MaxFailures,    \* bound: failed database writes in a behaviour
  MaxStarts,      \* bound: process starts in a behaviour
  MayStop         \* whether SIGINT/SIGTERM may arrive

(* The order in which flush() writes the streams. *)
WriteOrder == <<"orderbook", "perp_metrics", "funding", "candles">>
Streams == {"orderbook", "perp_metrics", "funding", "candles"}
Stages == 1..4

Offsets == 1..Len(Log)
Message == [stream : Streams, symbol : Symbols, at : Nat, closed : BOOLEAN]

ASSUME LogAssumption == Log \in Seq(Message)
ASSUME BoundsAssumption ==
  /\ BookInterval \in Nat
  /\ BatchSize \in Nat \ {0}
  /\ MaxRetry \in Nat \ {0}
  /\ MaxFailures \in Nat
  /\ MaxStarts \in Nat \ {0}
  /\ MayStop \in BOOLEAN

Stoppers == {"run", "signal"}
Flushers == Stoppers \cup {"timer"}

VARIABLES
  position,    \* messages the consumer has handed out
  committed,   \* messages the consumer group has committed
  lastBookAt,  \* _last_book_at: a dict, its domain grows
  buffer,      \* the four buffer lists, by stream
  rows,        \* rows[f][s]: the list flush f swapped out for stream s
  stage,       \* stage[f]: the write flush f awaits, 0 when f is not flushing
  target,      \* target[f]: the owner of the list that write re-buffers into
  sent,        \* sent[f]: the rows in the arguments of that write
  pc,          \* the life cycle of the run loop, the signal task and the timer
  dbOpen,      \* the pool accepts new statements
  consuming,   \* the Kafka consumer is open
  started,     \* BaseAgent._started
  stopping,    \* BaseAgent._stopping
  db,          \* the rows in the tables
  accepted,    \* history: the rows buffered by this process
  failed,      \* history: streams with a failed write in this process
  displaced,   \* history: streams whose failed rows went to a dead list
  overflowed,  \* history: streams that dropped rows at MaxRetry
  failures,    \* failed writes so far
  starts       \* process starts so far

consumerVars == <<position, committed, consuming>>
flushVars    == <<buffer, rows, stage, target, sent>>
historyVars  == <<failed, displaced, overflowed, failures>>
lifeVars     == <<pc, dbOpen, started, stopping, starts>>
vars == <<consumerVars, lastBookAt, flushVars, lifeVars, db, accepted, historyVars>>

-----------------------------------------------------------------------------
(* Which messages handle() buffers. *)

(* _should_store_book: at most one book per symbol and interval. *)
ShouldStoreBook(m) ==
  \/ BookInterval = 0
  \/ m.symbol \notin DOMAIN lastBookAt
  \/ m.at - lastBookAt[m.symbol] >= BookInterval

Keeps(m) ==
  /\ m.stream = "orderbook" => ShouldStoreBook(m)
  /\ m.stream = "candles" => m.closed

Remember(m) ==
  IF m.stream = "orderbook" /\ BookInterval > 0 /\ ShouldStoreBook(m)
  THEN (m.symbol :> m.at) @@ lastBookAt
  ELSE lastBookAt

Buffered(buf) ==
  Len(buf["orderbook"]) + Len(buf["perp_metrics"])
    + Len(buf["funding"]) + Len(buf["candles"])

-----------------------------------------------------------------------------
(* The writes of a flush. *)

NoRows == [s \in Streams |-> << >>]

(* Seeded faults: the rows dropped, or the cap forgotten. *)
RequeueDrops(rs, list) == list
RequeueUnbounded(rs, list) == rs \o list

(* buffer[:0] = rows ; del buffer[max_retry_buffer:] *)
Requeue(rs, list) ==
  IF Len(rs \o list) <= MaxRetry THEN rs \o list ELSE SubSeq(rs \o list, 1, MaxRetry)

RowsOf(list) == {list[i] : i \in 1..Len(list)}

(* The first write from the i-th on that has rows, 0 when there is none. *)
NextWrite(rs, i) ==
  LET todo == {j \in Stages : j >= i /\ rs[WriteOrder[j]] # << >>}
  IN  IF todo = {} THEN 0 ELSE CHOOSE j \in todo : \A k \in todo : j <= k

(* The streams of the i-th and later writes. *)
Remaining(i) == {WriteOrder[j] : j \in {k \in Stages : k >= i}}

(* What flush f does from its i-th write on, until it suspends: an empty   *)
(* stream is skipped, the next one sends its rows; once the pool is        *)
(* closing each statement raises at once and its rows return to the        *)
(* current buffer.  buf and held are the lists as they are by then.        *)
Proceed(f, buf, held, i) ==
  IF dbOpen
  THEN LET n == NextWrite(held[f], i)
       IN  /\ buffer' = buf
           /\ rows' = [held EXCEPT ![f] =
                [s \in Streams |->
                   IF n # 0 /\ s \in Remaining(n) THEN held[f][s] ELSE << >>]]
           /\ stage' = [stage EXCEPT ![f] = n]
           /\ sent' = [sent EXCEPT ![f] =
                IF n = 0 THEN {} ELSE RowsOf(held[f][WriteOrder[n]])]
  ELSE /\ buffer' = [s \in Streams |->
            IF s \in Remaining(i) /\ held[f][s] # << >>
            THEN Requeue(held[f][s], buf[s]) ELSE buf[s]]
       /\ rows' = [held EXCEPT ![f] = NoRows]
       /\ stage' = [stage EXCEPT ![f] = 0]
       /\ sent' = [sent EXCEPT ![f] = {}]

(* Lists change owner: when f swaps the buffers, f owns what was current;  *)
(* when f is past the write of a list, nobody reads that list again.       *)
Retarget(f, swapped) ==
  LET owner(g) == IF swapped /\ target[g] = "buffer" THEN f ELSE target[g]
      dead(g) == owner(g) = f /\ (stage'[f] = 0 \/ stage[g] < stage'[f])
  IN  target' = [g \in Flushers |->
        CASE g = f /\ stage'[f] = 0   -> "none"
          [] g = f /\ stage'[f] # 0   -> "buffer"
          [] g # f /\ dead(g)         -> "gone"
          [] OTHER                    -> owner(g)]

(* flush(): swap the lists for empty ones and start on the first stream.   *)
Flush(f, buf) ==
  /\ Proceed(f, NoRows, [rows EXCEPT ![f] = buf], 1)
  /\ Retarget(f, TRUE)

Writing(f) == stage[f] # 0
StreamOf(f) == WriteOrder[stage[f]]

-----------------------------------------------------------------------------
(* A process starts with empty buffers at the committed offset. *)

Init ==
  /\ position = 0
  /\ committed = 0
  /\ consuming = TRUE
  /\ lastBookAt = << >>
  /\ buffer = NoRows
  /\ rows = [f \in Flushers |-> NoRows]
  /\ stage = [f \in Flushers |-> 0]
  /\ target = [f \in Flushers |-> "none"]
  /\ sent = [f \in Flushers |-> {}]
  /\ pc = [run |-> "serving", signal |-> "waiting", timer |-> "sleeping"]
  /\ dbOpen = TRUE
  /\ started = TRUE
  /\ stopping = FALSE
  /\ starts = 1
  /\ db = {}
  /\ accepted = {}
  /\ failed = {}
  /\ displaced = {}
  /\ overflowed = {}
  /\ failures = 0

(* The run loop takes a message and handles it: buffer the row, and flush  *)
(* at a full batch.  The append and the swap are one step, as nothing      *)
(* awaits between them.                                                    *)
Take ==
  LET m == Log[position + 1]
      buf == IF Keeps(m)
             THEN [buffer EXCEPT ![m.stream] = Append(@, position + 1)] ELSE buffer
  IN  /\ pc["run"] = "serving" /\ ~Writing("run")
      /\ consuming /\ ~stopping
      /\ position < Len(Log)
      /\ position' = position + 1
      /\ lastBookAt' = Remember(m)
      /\ accepted' = IF Keeps(m) THEN accepted \cup {position + 1} ELSE accepted
      /\ IF Buffered(buf) >= BatchSize
         THEN Flush("run", buf)
         ELSE buffer' = buf /\ UNCHANGED <<rows, stage, target, sent>>
      /\ UNCHANGED <<committed, consuming, lifeVars, db, historyVars>>

(* Seeded fault: the timer leaves a batch that is not full to handle(). *)
TickFullBatch ==
  /\ pc["timer"] = "sleeping" /\ ~Writing("timer")
  /\ Buffered(buffer) >= BatchSize
  /\ Flush("timer", buffer)
  /\ UNCHANGED <<consumerVars, lastBookAt, lifeVars, db, accepted, historyVars>>

(* _flush_loop: the timer flushes whatever there is, an empty swap included. *)
Tick ==
  /\ pc["timer"] = "sleeping" /\ ~Writing("timer")
  /\ Flush("timer", buffer)
  /\ UNCHANGED <<consumerVars, lastBookAt, lifeVars, db, accepted, historyVars>>

(* The awaited write of f succeeds, and f goes on to its next stream. *)
WriteOk(f) ==
  /\ Writing(f)
  /\ db' = db \cup sent[f]
  /\ Proceed(f, buffer, [rows EXCEPT ![f][StreamOf(f)] = << >>], stage[f] + 1)
  /\ Retarget(f, FALSE)
  /\ UNCHANGED <<consumerVars, lastBookAt, lifeVars, accepted, historyVars>>

(* Seeded fault: the exception leaves flush(), as before each stream had   *)
(* a handler of its own.                                                   *)
AfterFailureAbandons(f) == 5

(* write() catches the exception: the flush goes on to the next stream. *)
AfterFailure(f) == stage[f] + 1

(* The awaited write of f raises, its rows stored or not (the connection   *)
(* may break after the commit): put them back in the list the write was    *)
(* given, wherever that list is by now, and go on.                         *)
WriteFail(f) ==
  LET s == StreamOf(f)
      list == rows[f][s]
      mine == [rows EXCEPT ![f][s] = << >>]
      owner == target[f]
      onto == IF owner = "buffer" THEN buffer[s] ELSE rows[owner][s]
      pending == owner \in Flushers /\ stage[owner] < stage[f]
  IN  /\ Writing(f)
      /\ failures < MaxFailures
      /\ failures' = failures + 1
      /\ \E landed \in BOOLEAN : db' = IF landed THEN db \cup sent[f] ELSE db
      /\ CASE owner = "buffer" ->
                Proceed(f, [buffer EXCEPT ![s] = Requeue(list, @)], mine, AfterFailure(f))
           [] owner \in Flushers ->
                Proceed(f, buffer, [mine EXCEPT ![owner][s] = Requeue(list, @)], AfterFailure(f))
           [] OTHER ->
                Proceed(f, buffer, mine, AfterFailure(f))
      /\ Retarget(f, FALSE)
      /\ failed' = failed \cup {s}
      /\ displaced' = IF owner = "buffer" \/ pending THEN displaced ELSE displaced \cup {s}
      /\ overflowed' = IF owner # "gone" /\ Len(list) + Len(onto) > MaxRetry
                       THEN overflowed \cup {s} ELSE overflowed
      /\ UNCHANGED <<consumerVars, lastBookAt, lifeVars, accepted>>

-----------------------------------------------------------------------------
(* BaseAgent.stop(), from the signal handler's task and from run()'s       *)
(* finally clause, concurrently if it so happens.                          *)

(* The timer task is cancelled: a write it awaits raises CancelledError,   *)
(* which write() does not catch, and the rows of its flush are dropped.    *)
CancelTimer ==
  /\ \E landed \in BOOLEAN : db' = IF landed THEN db \cup sent["timer"] ELSE db
  /\ rows' = [rows EXCEPT !["timer"] = NoRows]
  /\ stage' = [stage EXCEPT !["timer"] = 0]
  /\ sent' = [sent EXCEPT !["timer"] = {}]
  /\ target' = [g \in Flushers |->
       IF g = "timer" THEN "none" ELSE IF target[g] = "timer" THEN "gone" ELSE target[g]]

(* stop() up to the point where on_stop() awaits the cancelled task. *)
BeginStop(p) ==
  /\ stopping' = TRUE
  /\ IF started
     THEN /\ CancelTimer
          /\ pc' = [pc EXCEPT ![p] = "drain", !["timer"] = "cancelled"]
     ELSE /\ pc' = [pc EXCEPT ![p] = "exited"]
          /\ UNCHANGED <<db, rows, stage, sent, target>>
  /\ UNCHANGED <<committed, consuming, lastBookAt, buffer, dbOpen, started, starts,
                 accepted, historyVars>>

Signal ==
  /\ MayStop /\ pc["signal"] = "waiting" /\ pc["run"] # "exited"
  /\ BeginStop("signal")
  /\ UNCHANGED position

(* The run loop finds _stopping set after it took one more message, which  *)
(* it leaves unhandled, or its consumer closed.                            *)
BreakOff ==
  /\ pc["run"] = "serving" /\ ~Writing("run")
  /\ \/ consuming /\ stopping /\ position < Len(Log) /\ position' = position + 1
     \/ ~consuming /\ UNCHANGED position
  /\ BeginStop("run")

(* on_stop(): flush what is buffered... *)
Drain(p) ==
  /\ pc[p] = "drain" /\ ~Writing(p)
  /\ pc' = [pc EXCEPT ![p] = "close"]
  /\ Flush(p, buffer)
  /\ UNCHANGED <<consumerVars, lastBookAt, dbOpen, started, stopping, starts, db,
                 accepted, historyVars>>

(* ...and close the pool, which admits no new statement... *)
Close(p) ==
  /\ pc[p] = "close" /\ ~Writing(p)
  /\ pc' = [pc EXCEPT ![p] = "leave"]
  /\ dbOpen' = FALSE
  /\ UNCHANGED <<consumerVars, lastBookAt, flushVars, started, stopping, starts, db,
                 accepted, historyVars>>

(* ...and waits for those under way.  Then stop() leaves the consumer      *)
(* group, which commits the position. *)
Leave(p) ==
  /\ pc[p] = "leave" /\ \A f \in Flushers : ~Writing(f)
  /\ pc' = [pc EXCEPT ![p] = "finish"]
  /\ consuming' = FALSE
  /\ committed' = IF consuming THEN position ELSE committed
  /\ UNCHANGED <<position, lastBookAt, flushVars, dbOpen, started, stopping, starts, db,
                 accepted, historyVars>>

Finish(p) ==
  /\ pc[p] = "finish"
  /\ pc' = [pc EXCEPT ![p] = "exited"]
  /\ started' = FALSE
  /\ UNCHANGED <<consumerVars, lastBookAt, flushVars, dbOpen, stopping, starts, db,
                 accepted, historyVars>>

-----------------------------------------------------------------------------
(* The consumer group and the process. *)

Alive == pc["run"] \notin {"exited", "down"}

(* Seeded fault: the offset of the next message is counted as handed out.  *)
AutoCommitPast ==
  /\ Alive /\ consuming
  /\ committed' = position + 1
  /\ UNCHANGED <<position, consuming, lastBookAt, flushVars, lifeVars, db, accepted,
                 historyVars>>

(* enable_auto_commit: the background task commits the position. *)
AutoCommit ==
  /\ Alive /\ consuming
  /\ committed' = position
  /\ UNCHANGED <<position, consuming, lastBookAt, flushVars, lifeVars, db, accepted,
                 historyVars>>

Crash ==
  /\ Alive /\ starts < MaxStarts
  /\ pc' = [p \in Flushers |-> "down"]
  /\ stage' = [f \in Flushers |-> 0]
  /\ UNCHANGED <<consumerVars, lastBookAt, buffer, rows, target, sent, dbOpen, started,
                 stopping, starts, db, accepted, historyVars>>

Start ==
  /\ ~Alive /\ starts < MaxStarts
  /\ starts' = starts + 1
  /\ position' = committed
  /\ consuming' = TRUE
  /\ lastBookAt' = << >>
  /\ buffer' = NoRows
  /\ rows' = [f \in Flushers |-> NoRows]
  /\ stage' = [f \in Flushers |-> 0]
  /\ target' = [f \in Flushers |-> "none"]
  /\ sent' = [f \in Flushers |-> {}]
  /\ pc' = [run |-> "serving", signal |-> "waiting", timer |-> "sleeping"]
  /\ dbOpen' = TRUE
  /\ started' = TRUE
  /\ stopping' = FALSE
  /\ accepted' = {}
  /\ failed' = {}
  /\ displaced' = {}
  /\ overflowed' = {}
  /\ UNCHANGED <<committed, db, failures>>

Next ==
  \/ /\ Alive
     /\ \/ Take \/ Tick \/ Signal \/ BreakOff
        \/ \E f \in Flushers : WriteOk(f) \/ WriteFail(f)
        \/ \E p \in Stoppers : Drain(p) \/ Close(p) \/ Leave(p) \/ Finish(p)
        \/ AutoCommit \/ Crash
  \/ Start

Spec == Init /\ [][Next]_vars

(* The event loop runs every task that is ready, and the database answers  *)
(* every statement; MaxFailures makes an outage transient.                 *)
WriteDone(f) == Alive /\ (WriteOk(f) \/ WriteFail(f))
Fairness ==
  /\ WF_vars(Alive /\ Tick)
  /\ \A f \in Flushers : WF_vars(WriteDone(f))

FairSpec == Spec /\ Fairness

-----------------------------------------------------------------------------
(* Properties. *)

Larger(a, b) == IF a > b THEN a ELSE b
MaxList == Larger(MaxRetry, BatchSize - 1) + 1

(* Every variable has its type. *)
TypeOK ==
  /\ position \in 0..Len(Log) /\ committed \in 0..Len(Log)
  /\ consuming \in BOOLEAN
  /\ buffer \in [Streams -> Seq(Offsets)]
  /\ rows \in [Flushers -> [Streams -> Seq(Offsets)]]
  /\ stage \in [Flushers -> 0..4]
  /\ target \in [Flushers -> {"none", "buffer", "gone"} \cup Flushers]
  /\ sent \in [Flushers -> SUBSET Offsets]
  /\ pc \in [Flushers -> {"serving", "waiting", "sleeping", "cancelled", "drain", "close",
                          "leave", "finish", "exited", "down"}]
  /\ dbOpen \in BOOLEAN /\ started \in BOOLEAN /\ stopping \in BOOLEAN
  /\ starts \in Nat /\ failures \in Nat
  /\ db \subseteq Offsets /\ accepted \subseteq Offsets
  /\ failed \subseteq Streams /\ displaced \subseteq Streams /\ overflowed \subseteq Streams

(* flush() promises a bounded retry buffer: however long the outage, no    *)
(* list of rows, buffered or in a flush, outgrows max_retry_buffer or the  *)
(* batch, by more than the row that triggers the flush.                    *)
BufferBounded ==
  \A s \in Streams :
    /\ Len(buffer[s]) <= MaxList
    /\ \A f \in Flushers : Len(rows[f][s]) <= MaxList

(* A row is still within the recorder's reach, or in the database. *)
Kept(i) ==
  LET s == Log[i].stream
  IN  \/ i \in db
      \/ i \in RowsOf(buffer[s])
      \/ \E f \in Flushers : i \in RowsOf(rows[f][s])

(* flush(): "a failure in one cannot discard the others".  However the     *)
(* flushes of the timer and of handle() interleave, a stream none of whose *)
(* writes failed has lost no row.                                          *)
StreamIsolation ==
  ~stopping => \A i \in accepted : Log[i].stream \notin failed => Kept(i)

(* A failed write loses no row either, unless its list was swapped away    *)
(* under it or has no room left.                                           *)
RetryKeepsRows ==
  ~stopping =>
    \A i \in accepted : Log[i].stream \notin displaced \cup overflowed => Kept(i)

(* flush(): rows that fail to write "are put back in their buffer to be    *)
(* retried on the next flush": short of MaxRetry nothing is lost.          *)
FailedRowsRetained ==
  ~stopping => \A i \in accepted : Log[i].stream \notin overflowed => Kept(i)

(* _flush_loop: "a quiet stream still reaches the database": once the      *)
(* outage ends every buffered row is stored, even if no message follows,   *)
(* unless it was displaced or dropped.                                     *)
QuietStreamReachesDb ==
  \A i \in Offsets :
    i \in accepted ~>
      \/ i \in db
      \/ Log[i].stream \in displaced \cup overflowed
      \/ stopping \/ ~Alive
=============================================================================
