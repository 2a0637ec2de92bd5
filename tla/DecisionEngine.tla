--------------------------- MODULE DecisionEngine ---------------------------
(***************************************************************************)
(* The decision engine (services/decision_engine/engine.py) in passthrough *)
(* mode, and its trust registry (trust.py): the signals of one agent       *)
(* become decisions, weighted by the Brier scores of that agent's resolved *)
(* forecasts.                                                              *)
(*                                                                         *)
(* Confidences and weights are in percent, Brier scores in units of        *)
(* 1/10000, so that a squared error is exact.  Nothing here is persisted.  *)
(***************************************************************************)
EXTENDS Integers, Sequences, FiniteSets, Sums

CONSTANTS
  PassthroughAgent,  \* DecisionSettings.passthrough_agent
  MinConfidence,     \* DecisionSettings.min_confidence
  Cooldown,          \* DecisionSettings.cooldown_s
  DefaultWeight,     \* DecisionSettings.default_trust_weight
  MinSamples,        \* LearningSettings.min_samples_for_weight
  ScoreWindow,       \* LearningSettings.score_window
  MinWeight,         \* LearningSettings.min_weight
  MaxWeight          \* LearningSettings.max_weight

Confidences == 0..100
CoinFlip == 2500   \* the score of a permanent 50/50 guess

ASSUME EngineAssumption ==
  /\ MinConfidence \in Confidences /\ Cooldown \in Nat
  /\ {DefaultWeight, MinSamples, ScoreWindow, MinWeight, MaxWeight} \subseteq Nat \ {0}
  /\ MinWeight <= MaxWeight

VARIABLES
  lastDecision,  \* _state: dict by symbol of the last decision's direction and time
  trust          \* TrustRegistry._agents: dict by agent of the window of scores

engineVars == <<lastDecision, trust>>

-----------------------------------------------------------------------------
(* trust.py *)

(* dict[k] = v *)
Stored(dict, k, v) == [x \in DOMAIN dict \cup {k} |-> IF x = k THEN v ELSE dict[x]]

(* brier_score *)
BrierScore(confidence, correct) ==
  IF correct THEN (100 - confidence) * (100 - confidence) ELSE confidence * confidence

Total(window) == SumOf(window)

(* deque(maxlen=window): the oldest score makes room. *)
Slid(window) == IF Len(window) <= ScoreWindow THEN window ELSE Tail(window)

WindowOf(agent) == IF agent \in DOMAIN trust THEN trust[agent] ELSE << >>

Clamped(w) == IF w > MaxWeight THEN MaxWeight ELSE IF w < MinWeight THEN MinWeight ELSE w

(* Seeded fault: the mean error raises the weight. *)
WeightInverted(agent) ==
  LET window == WindowOf(agent)
  IN  IF Len(window) < MinSamples THEN DefaultWeight
      ELSE Clamped((DefaultWeight * Total(window)) \div (CoinFlip * Len(window)))

(* weight_for: default * (1 + (0.25 - mean) / 0.25), clamped, and the      *)
(* default itself before there are enough samples.                         *)
WeightFor(agent) ==
  LET window == WindowOf(agent)
  IN  IF Len(window) < MinSamples THEN DefaultWeight
      ELSE Clamped((DefaultWeight * (2 * CoinFlip * Len(window) - Total(window)))
                     \div (CoinFlip * Len(window)))

-----------------------------------------------------------------------------
(* engine.py *)

(* _decide: the signals that are not passed over, at the time t. *)
Suppressed(s, t) ==
  /\ s.symbol \in DOMAIN lastDecision
  /\ t - lastDecision[s.symbol].at < Cooldown
  /\ lastDecision[s.symbol].direction = s.direction

Actionable(s, t) ==
  /\ s.agent = PassthroughAgent
  /\ ~s.degraded /\ s.confidence > 0
  /\ t <= s.until
  /\ s.direction # "flat"
  /\ s.confidence >= MinConfidence
  /\ ~Suppressed(s, t)

Weighted(s) ==
  LET w == (s.confidence * WeightFor(s.agent)) \div 100 IN IF w > 100 THEN 100 ELSE w

(* handle(AgentSignal): the decisions it publishes for a signal known as   *)
(* id, none or one, and the state it keeps of the last of each symbol.     *)
DecisionsFor(id, s, t) ==
  IF Actionable(s, t)
  THEN <<[corr |-> s.corr, signals |-> {id}, weighted |-> Weighted(s)]>> ELSE << >>

OnSignal(s, t) ==
  /\ lastDecision' = IF Actionable(s, t)
                     THEN Stored(lastDecision, s.symbol, [direction |-> s.direction, at |-> t])
                     ELSE lastDecision
  /\ UNCHANGED trust

(* _record_outcome *)
OnOutcome(o) ==
  /\ trust' = Stored(trust, o.agent,
                     Slid(Append(WindowOf(o.agent), BrierScore(o.confidence, o.correct))))
  /\ UNCHANGED lastDecision

EngineStarts == lastDecision = << >> /\ trust = << >>

-----------------------------------------------------------------------------
(* Properties. *)

(* "a consistently sharp agent earns more influence": once a weight adapts *)
(* it moves with the track record.  An outcome that scores no worse than   *)
(* the one it pushes out of the window, or than the mean of a window that  *)
(* still grows, does not lower the weight; one that scores no better does  *)
(* not raise it.                                                           *)
TrustFollowsTrackRecord ==
  [][\A a \in DOMAIN trust :
       LET old == trust[a]
           new == trust'[a]
           score == new[Len(new)]
           slid == Len(old) = ScoreWindow
           against == IF slid THEN old[1] * Len(old) ELSE Total(old)
       IN  (a \in DOMAIN trust' /\ Len(old) >= MinSamples /\ new # old) =>
             /\ score * Len(old) <= against => WeightFor(a)' >= WeightFor(a)
             /\ score * Len(old) >= against => WeightFor(a)' <= WeightFor(a)]_trust
=============================================================================
