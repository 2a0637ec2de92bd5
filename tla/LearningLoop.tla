----------------------------- MODULE LearningLoop -----------------------------
(***************************************************************************)
(* The learning loop: the decision engine turns signals into decisions,    *)
(* the chain behind it turns some of them into closed positions, the       *)
(* outcome recorder scores the signals behind a closure, and the scores    *)
(* adapt the engine's trust.  Engine and recorder are processes of their   *)
(* own; nothing orders the messages of two topics.                         *)
(*                                                                         *)
(* A topic is a log; each consumer has a position in it, which a commit    *)
(* in the background makes durable whether or not the message has been     *)
(* handled.  A restarted process goes on from what was committed.          *)
(***************************************************************************)
EXTENDS DecisionEngine, OutcomeRecorder

CONSTANTS
  CausalDelivery,  \* TRUE: the recorder takes a signal and its decision before its closure
  RiskFloor,       \* RiskSettings.min_confidence
  MaxNow,          \* bound: the clock
  MaxClosures,     \* bound: closures
  MaxCrashes       \* bound: crashes

ASSUME LoopAssumption ==
  /\ CausalDelivery \in BOOLEAN /\ RiskFloor \in Confidences
  /\ MaxNow \in Nat /\ MaxClosures \in Nat /\ MaxCrashes \in Nat
  /\ \A id \in Ids : SignalLog[id].confidence \in Confidences

VARIABLES
  topics,     \* the logs
  taken,      \* taken[c][t]: messages of topic t that consumer c was handed
  committed,  \* committed[c][t]: those its group has committed
  now,        \* the time
  crashes

busVars == <<topics, taken, committed>>
vars == <<engineVars, recorderVars, busVars, now, crashes>>

Consumes == [engine |-> {"signals", "outcomes"}, recorder |-> {"signals", "decisions", "closures"}]
Consumers == DOMAIN Consumes
Nothing == [c \in Consumers |-> [t \in Consumes[c] |-> 0]]

-----------------------------------------------------------------------------

Waiting(c, t) == taken[c][t] < Len(topics[t])
Message(c, t) == topics[t][taken[c][t] + 1]
Take(c, t) == Waiting(c, t) /\ taken' = [taken EXCEPT ![c][t] = @ + 1]
Publish(t, msgs) == topics' = [topics EXCEPT ![t] = @ \o msgs]

(* The agents publish the next signal of the log. *)
Signal ==
  /\ Len(topics["signals"]) < Len(SignalLog)
  /\ Publish("signals", <<Len(topics["signals"]) + 1>>)
  /\ UNCHANGED <<engineVars, recorderVars, taken, committed, now, crashes>>

EngineSignal ==
  /\ Take("engine", "signals")
  /\ LET id == Message("engine", "signals")
     IN  /\ OnSignal(SignalLog[id], now)
         /\ Publish("decisions", DecisionsFor(id, SignalLog[id], now))
  /\ UNCHANGED <<recorderVars, committed, now, crashes>>

EngineOutcome ==
  /\ Take("engine", "outcomes")
  /\ OnOutcome(Message("engine", "outcomes"))
  /\ UNCHANGED <<recorderVars, topics, committed, now, crashes>>

(* The chain: a decision the risk manager lets pass may become a position, *)
(* which closes at a profit or not.  An exit carries the correlation of    *)
(* the position it closes; one that comes late opens a position of the     *)
(* same correlation, so that a decision may have several closures.         *)
Close(d) ==
  /\ topics["decisions"][d].weighted >= RiskFloor
  /\ Len(topics["closures"]) < MaxClosures
  /\ \E profitable \in BOOLEAN :
       Publish("closures",
               <<[id |-> Len(topics["closures"]) + 1, decision |-> d,
                  corr |-> topics["decisions"][d].corr, profitable |-> profitable]>>)
  /\ UNCHANGED <<engineVars, recorderVars, taken, committed, now, crashes>>

(* The run loop publishes before it takes the next message. *)
RecorderIdle == unpublished = << >>

RecorderSignal ==
  /\ RecorderIdle /\ Take("recorder", "signals")
  /\ IndexSignal(Message("recorder", "signals"))
  /\ UNCHANGED <<engineVars, topics, committed, now, crashes>>

RecorderDecision ==
  /\ RecorderIdle /\ Take("recorder", "decisions")
  /\ IndexDecision(Message("recorder", "decisions"))
  /\ UNCHANGED <<engineVars, topics, committed, now, crashes>>

RecorderClosure ==
  /\ RecorderIdle /\ Take("recorder", "closures")
  /\ CausalDelivery => ~Waiting("recorder", "signals") /\ ~Waiting("recorder", "decisions")
  /\ Attribute(Message("recorder", "closures"))
  /\ UNCHANGED <<engineVars, topics, committed, now, crashes>>

RecorderPublish ==
  /\ unpublished # << >>
  /\ Publish("outcomes", <<Head(unpublished)>>)
  /\ unpublished' = Tail(unpublished)
  /\ UNCHANGED <<engineVars, connected, indexes, signalTable, ledger, dbFailures,
                 taken, committed, now, crashes>>

Clock ==
  /\ now < MaxNow /\ now' = now + 1
  /\ UNCHANGED <<engineVars, recorderVars, busVars, crashes>>

(* A crash of c: the commit in the background may have covered everything  *)
(* it was handed, one more message among it, or less.  The process starts  *)
(* anew.                                                                   *)
Crash(c) ==
  /\ crashes < MaxCrashes /\ crashes' = crashes + 1
  /\ \/ taken' = [taken EXCEPT ![c] = committed[c]] /\ UNCHANGED committed
     \/ committed' = [committed EXCEPT ![c] = taken[c]] /\ UNCHANGED taken
     \/ \E t \in Consumes[c] :
          /\ Waiting(c, t)
          /\ taken' = [taken EXCEPT ![c][t] = @ + 1]
          /\ committed' = [committed EXCEPT ![c] = taken'[c]]
  /\ IF c = "engine"
     THEN lastDecision' = << >> /\ trust' = << >> /\ UNCHANGED recorderVars
     ELSE RecorderRestarts /\ UNCHANGED engineVars
  /\ UNCHANGED <<topics, now>>

Init ==
  /\ EngineStarts /\ RecorderStarts /\ NoRowsYet
  /\ topics = [t \in {"signals", "decisions", "closures", "outcomes"} |-> << >>]
  /\ taken = Nothing /\ committed = Nothing
  /\ now = 0 /\ crashes = 0

Next ==
  \/ Signal \/ EngineSignal \/ EngineOutcome
  \/ \E d \in DOMAIN topics["decisions"] : Close(d)
  \/ RecorderSignal \/ RecorderDecision \/ RecorderClosure \/ RecorderPublish
  \/ Clock
  \/ \E c \in Consumers : Crash(c)

Spec == Init /\ [][Next]_vars

-----------------------------------------------------------------------------
(* Properties. *)

FaultFree == connected /\ dbFailures = 0 /\ crashes = 0

(* The ledger is written first: no outcome is published by a recorder that *)
(* reached its database, and so no trust is moved, by a forecast that has  *)
(* no row in agent_performance, whichever statement failed and wherever a  *)
(* process crashed.  (A recorder without a database publishes outcomes     *)
(* that have none.)                                                        *)
LedgerBacksOutcomes ==
  \A i \in DOMAIN topics["outcomes"] :
    topics["outcomes"][i].durable => topics["outcomes"][i].signal \in DOMAIN ledger

(* "a trade held longer than the in-memory window is still attributed":    *)
(* whatever failed, and with indexes of any size, a closure is put down to *)
(* no signal but of its correlation; and as long as nothing has failed,    *)
(* where that correlation has one signal, to the one its decision names.   *)
Produced == topics["outcomes"] \o unpublished
ScoredFor(closure) ==
  {Produced[i].signal : i \in {j \in DOMAIN Produced : Produced[j].closure = closure.id}}
Sharers(c) == {id \in Ids : SignalLog[id].corr = c}
AttributedToContributors ==
  \A i \in DOMAIN topics["closures"] :
    LET closure == topics["closures"][i]
    IN  /\ ScoredFor(closure) \subseteq Sharers(closure.corr)
        /\ (FaultFree /\ i <= taken["recorder"]["closures"]
            /\ Cardinality(Sharers(closure.corr)) = 1) =>
             ScoredFor(closure) = topics["decisions"][closure.decision].signals

(* The live half of the loop agrees with the durable one: when no message  *)
(* is under way, the window of an agent none of whose signals was scored   *)
(* twice holds the scores of its ledger rows, up to the size of the        *)
(* window.  (A second closure of a correlation adds a score to the window  *)
(* and no row to the ledger.)                                              *)
Quiet == unpublished = << >> /\ \A c \in Consumers : \A t \in Consumes[c] : ~Waiting(c, t)
RowsOf(agent) == {id \in DOMAIN ledger : SignalLog[id].agent = agent}
ScoredOnce(agent) ==
  \A i, j \in DOMAIN Produced :
    (Produced[i].agent = agent /\ Produced[i].signal = Produced[j].signal) => i = j
TrustMatchesLedger ==
  (FaultFree /\ Quiet) =>
    \A a \in {b \in {SignalLog[id].agent : id \in Ids} : ScoredOnce(b)} :
      LET scores == [id \in RowsOf(a) |-> BrierScore(SignalLog[id].confidence, ledger[id])]
      IN  IF Cardinality(RowsOf(a)) <= ScoreWindow
          THEN Len(WindowOf(a)) = Cardinality(RowsOf(a)) /\ Total(WindowOf(a)) = Total(scores)
          ELSE Len(WindowOf(a)) = ScoreWindow
=============================================================================
