--------------------------- MODULE OutcomeRecorder ---------------------------
(***************************************************************************)
(* The outcome recorder (services/agents/learning/outcome_recorder.py): it *)
(* indexes signals and decisions, in memory up to a bound and in a table,  *)
(* and scores the signals behind a closed position: a row of the ledger    *)
(* (agent_performance) for each, then an AgentOutcome for each.            *)
(*                                                                         *)
(* A signal is known by its event id, its place in SignalLog.  A statement *)
(* that raises ends handle(): the memory keeps what it did, nothing is     *)
(* published.  A process that finds no database when it starts runs        *)
(* without one for good.                                                   *)
(***************************************************************************)
EXTENDS Integers, Sequences, FiniteSets

CONSTANTS
  SignalLog,          \* the signals the agents publish, in order
  IndexLimit,         \* _INDEX_LIMIT
  AttributeDegraded,  \* LearningSettings.attribute_degraded_signals
  MaxDbFailures       \* bound: failing statements

Ids == DOMAIN SignalLog

ASSUME RecorderAssumption ==
  /\ Len(SignalLog) \in Nat /\ Ids = 1..Len(SignalLog)
  /\ IndexLimit \in Nat \ {0} /\ AttributeDegraded \in BOOLEAN /\ MaxDbFailures \in Nat

VARIABLES
  connected,      \* the repositories are there: on_start reached the database
  signals,        \* _signals: OrderedDict, by id
  byCorrelation,  \* _signals_by_correlation: OrderedDict of the ids
  decisions,      \* _decisions: OrderedDict, by correlation, of contributing signals
  signalTable,    \* the agent_signals table
  ledger,         \* the agent_performance table: the verdict by signal
  unpublished,    \* outcomes handle() returned, not yet published
  dbFailures

indexes == <<signals, byCorrelation, decisions>>
recorderVars == <<connected, indexes, signalTable, ledger, unpublished, dbFailures>>

-----------------------------------------------------------------------------
(* An OrderedDict is the sequence of its [key, val] pairs, oldest first. *)

Has(dict, k) == \E i \in DOMAIN dict : dict[i].key = k
At(dict, k) == dict[CHOOSE i \in DOMAIN dict : dict[i].key = k].val

(* _trim: a dict beyond its bound loses its oldest entry. *)
Trim(dict) == IF Len(dict) > IndexLimit THEN Tail(dict) ELSE dict

(* dict[k] = v: a known key keeps its place. *)
Put(dict, k, v) ==
  Trim(IF Has(dict, k)
       THEN [i \in DOMAIN dict |-> IF dict[i].key = k THEN [key |-> k, val |-> v] ELSE dict[i]]
       ELSE Append(dict, [key |-> k, val |-> v]))

RaiseDb == dbFailures < MaxDbFailures /\ dbFailures' = dbFailures + 1

(* _index_signal: remember, then insert.  The ids of a correlation are a   *)
(* list in the code; a process is handed a message once, so a set will do. *)
IndexSignal(id) ==
  LET c == SignalLog[id].corr
      known == IF Has(byCorrelation, c) THEN At(byCorrelation, c) ELSE {}
  IN  /\ signals' = Put(signals, id, id)
      /\ byCorrelation' = Put(byCorrelation, c, known \cup {id})
      /\ \/ connected /\ signalTable' = signalTable \cup {id} /\ UNCHANGED dbFailures
         \/ connected /\ RaiseDb /\ UNCHANGED signalTable
         \/ ~connected /\ UNCHANGED <<signalTable, dbFailures>>
      /\ UNCHANGED <<connected, decisions, ledger, unpublished>>

(* _index_decision: nothing reads the table the decision goes to. *)
IndexDecision(d) ==
  /\ decisions' = Put(decisions, d.corr, d.signals)
  /\ UNCHANGED <<connected, signals, byCorrelation, signalTable, ledger, unpublished, dbFailures>>

-----------------------------------------------------------------------------
(* attribute() *)

InMemory(ids) == {id \in ids : Has(signals, id)}
Listed(c)    == IF Has(decisions, c) THEN InMemory(At(decisions, c)) ELSE {}
Indexed(c)   == IF Has(byCorrelation, c) THEN InMemory(At(byCorrelation, c)) ELSE {}
Persisted(c) == {id \in signalTable : connected /\ SignalLog[id].corr = c}

(* Seeded fault: the memory is all there is. *)
SignalsForMemory(c) == IF Listed(c) # {} THEN Listed(c) ELSE Indexed(c)

(* _signals_for: the decision's signals, else those of the correlation in  *)
(* memory, else those of the correlation in the table, if there is one.    *)
SignalsFor(c) ==
  IF Listed(c) # {} THEN Listed(c) ELSE IF Indexed(c) # {} THEN Indexed(c) ELSE Persisted(c)
AsksTable(c) == connected /\ Listed(c) = {} /\ Indexed(c) = {}

HasView(id) ==
  AttributeDegraded \/ (~SignalLog[id].degraded /\ SignalLog[id].confidence > 0)

Scored(c) == {id \in SignalsFor(c) : HasView(id)}

(* INSERT ... ON CONFLICT (signal_id) DO NOTHING, with a database. *)
Ledgered(ids, correct) ==
  IF connected
  THEN [id \in DOMAIN ledger \cup ids |-> IF id \in DOMAIN ledger THEN ledger[id] ELSE correct]
  ELSE ledger

(* The outcome; closure and durable say where it came from. *)
OutcomeOf(id, closure) ==
  [signal |-> id, agent |-> SignalLog[id].agent, confidence |-> SignalLog[id].confidence,
   correct |-> closure.profitable, closure |-> closure.id, durable |-> connected]

(* The i-th of a set of ids, in their order. *)
Nth(ids, i) == CHOOSE id \in ids : Cardinality({x \in ids : x <= id}) = i

(* Seeded fault: attribute() returns after the first. *)
OutcomesFirst(ids, closure) ==
  IF ids = {} THEN << >> ELSE <<OutcomeOf(Nth(ids, 1), closure)>>

Outcomes(ids, closure) == [i \in 1..Cardinality(ids) |-> OutcomeOf(Nth(ids, i), closure)]

(* Seeded fault: an outcome is published though its row was not written.   *)
AttributePublishes(closure) ==
  LET scored == Scored(closure.corr)
  IN  /\ UNCHANGED <<connected, indexes, signalTable>>
      /\ unpublished' = Outcomes(scored, closure)
      /\ \/ ledger' = Ledgered(scored, closure.profitable) /\ UNCHANGED dbFailures
         \/ connected /\ scored # {} /\ RaiseDb /\ UNCHANGED ledger

(* A row for each scored signal in turn; then all the outcomes are         *)
(* published, or, when a statement raised, none.  Without a database there *)
(* is no row, and the outcomes are published.                              *)
Attribute(closure) ==
  LET scored == Scored(closure.corr)
  IN  /\ UNCHANGED <<connected, indexes, signalTable>>
      /\ \/ /\ ledger' = Ledgered(scored, closure.profitable)
            /\ unpublished' = Outcomes(scored, closure)
            /\ UNCHANGED dbFailures
         \/ \E bad \in scored :
              /\ connected /\ RaiseDb
              /\ ledger' = Ledgered({id \in scored : id < bad}, closure.profitable)
              /\ UNCHANGED unpublished
         \/ /\ AsksTable(closure.corr) /\ RaiseDb
            /\ UNCHANGED <<ledger, unpublished>>

(* A process starts with empty indexes, with a database or without. *)
RecorderStarts ==
  connected \in BOOLEAN /\ signals = << >> /\ byCorrelation = << >> /\ decisions = << >>
NoRowsYet == signalTable = {} /\ ledger = << >> /\ unpublished = << >> /\ dbFailures = 0
RecorderRestarts ==
  /\ connected' \in BOOLEAN
  /\ signals' = << >> /\ byCorrelation' = << >> /\ decisions' = << >>
  /\ unpublished' = << >>
  /\ UNCHANGED <<signalTable, ledger, dbFailures>>
=============================================================================
