-------------------------- MODULE LearningLoopProofs --------------------------
(***************************************************************************)
(* Theorems about the learning loop, for any log of signals, indexes of    *)
(* any size, and any number of failing statements and crashes: a recorder  *)
(* with a database publishes no outcome without its row in the ledger, a   *)
(* closed position is put down to no signal of another correlation, and an *)
(* agent's weight follows its track record.  Without faults: a closure of  *)
(* a correlation with one signal is put down to that signal, where the     *)
(* deliveries keep the order of cause and effect; and, with nothing under  *)
(* way, the trust in an agent scored once by each of its signals is that   *)
(* of its rows, in whatever order the messages came.                       *)
(*                                                                         *)
(* What the invariants add.  For the ledger: the outcomes that wait to be  *)
(* published have their rows as well.  For the attribution: the indexes    *)
(* hold, under a correlation, nothing but signals of that correlation, and *)
(* the table has every signal that was taken, so that the recorder finds   *)
(* it there when its memory has lost it.  For the trust: every row has an  *)
(* outcome, with its verdict where it is the only one, and a window is     *)
(* made of the scores of the outcomes the engine has heard.                *)
(***************************************************************************)
EXTENDS LearningLoop, SumsProofs, SequenceTheorems, FiniteSetTheorems, TLAPS

-----------------------------------------------------------------------------
(* Logs: sequences, of whatever they hold. *)

Elems(q) == {q[i] : i \in DOMAIN q}
Log(q) == q \in Seq(Elems(q))

LEMMA LogIs ==
  ASSUME NEW q, Log(q)
  PROVE  Len(q) \in Nat /\ DOMAIN q = 1..Len(q)
  BY DEF Log

LEMMA SeqIsLog ==
  ASSUME NEW S, NEW q \in Seq(S)
  PROVE  Log(q)
<1>1. Len(q) \in Nat /\ DOMAIN q = 1..Len(q)
  OBVIOUS
<1>2. \A i \in 1..Len(q) : q[i] \in Elems(q)
  BY <1>1 DEF Elems
<1> QED BY <1>1, <1>2 DEF Log

LEMMA ConcatIs ==
  ASSUME NEW q, NEW m, Log(q), Log(m)
  PROVE  /\ Log(q \o m) /\ Len(q \o m) = Len(q) + Len(m)
         /\ Elems(q \o m) = Elems(q) \cup Elems(m)
         /\ \A i \in DOMAIN q : i \in DOMAIN (q \o m) /\ (q \o m)[i] = q[i]
         /\ \A i \in DOMAIN (q \o m) :
              i \in DOMAIN q \/ (i - Len(q) \in DOMAIN m /\ (q \o m)[i] = m[i - Len(q)])
<1> DEFINE S == Elems(q) \cup Elems(m)
<1>1. q \in Seq(S) /\ m \in Seq(S)
  BY DEF Log
<1> HIDE DEF S
<1>2. /\ q \o m \in Seq(S) /\ Len(q \o m) = Len(q) + Len(m)
      /\ Len(q) \in Nat /\ Len(m) \in Nat /\ DOMAIN q = 1..Len(q) /\ DOMAIN m = 1..Len(m)
      /\ DOMAIN (q \o m) = 1..(Len(q) + Len(m))
      /\ \A i \in 1..Len(q) : (q \o m)[i] = q[i]
      /\ \A i \in 1..(Len(q) + Len(m)) : i > Len(q) => (q \o m)[i] = m[i - Len(q)]
  BY <1>1
<1>3. \A j \in DOMAIN m : j + Len(q) \in DOMAIN (q \o m) /\ (q \o m)[j + Len(q)] = m[j]
  BY <1>2
<1>4. \A i \in DOMAIN (q \o m) :
        i \in DOMAIN q \/ (i - Len(q) \in DOMAIN m /\ (q \o m)[i] = m[i - Len(q)])
  BY <1>2
<1>5. Elems(q \o m) = Elems(q) \cup Elems(m)
  <2>1. Elems(q \o m) \subseteq Elems(q) \cup Elems(m)
    BY <1>2, <1>4 DEF Elems
  <2>2. Elems(q) \subseteq Elems(q \o m)
    BY <1>2 DEF Elems
  <2>3. Elems(m) \subseteq Elems(q \o m)
    BY <1>3 DEF Elems
  <2> QED BY <2>1, <2>2, <2>3
<1>6. Log(q \o m)
  BY <1>2, SeqIsLog
<1> QED BY <1>2, <1>4, <1>5, <1>6

LEMMA EmptyIs == Log(<< >>) /\ Elems(<< >>) = {} /\ Len(<< >>) = 0
  BY DEF Log, Elems

LEMMA OneIs == ASSUME NEW x PROVE Log(<<x>>) /\ Elems(<<x>>) = {x} /\ Len(<<x>>) = 1 /\ <<x>>[1] = x
<1>1. <<x>> \in Seq({x}) /\ DOMAIN <<x>> = {1} /\ <<x>>[1] = x /\ Len(<<x>>) = 1
  OBVIOUS
<1>2. Elems(<<x>>) = {x}
  BY <1>1 DEF Elems
<1> QED BY <1>1, <1>2 DEF Log

LEMMA TailIs ==
  ASSUME NEW q, Log(q), q # << >>
  PROVE  Log(Tail(q)) /\ Elems(q) = {Head(q)} \cup Elems(Tail(q)) /\ Head(q) \in Elems(q)
<1> DEFINE S == Elems(q)
<1>1. q \in Seq(S)
  BY DEF Log
<1> HIDE DEF S
<1>2. /\ Tail(q) \in Seq(S) /\ Len(Tail(q)) = Len(q) - 1 /\ Len(q) \in Nat \ {0}
      /\ DOMAIN q = 1..Len(q) /\ DOMAIN Tail(q) = 1..(Len(q) - 1)
      /\ \A i \in 1..(Len(q) - 1) : Tail(q)[i] = q[i + 1]
      /\ Head(q) = q[1]
  BY <1>1
<1>3. Log(Tail(q))
  BY <1>2, SeqIsLog
<1>4. Head(q) \in Elems(q)
  BY <1>2 DEF Elems
<1>5. Elems(Tail(q)) \subseteq Elems(q)
  BY <1>2 DEF Elems
<1>6. Elems(q) \subseteq {Head(q)} \cup Elems(Tail(q))
  <2> SUFFICES ASSUME NEW i \in DOMAIN q, i # 1 PROVE q[i] \in Elems(Tail(q))
    BY <1>2 DEF Elems
  <2>1. i - 1 \in DOMAIN Tail(q) /\ Tail(q)[i - 1] = q[i]
    BY <1>2
  <2> QED BY <2>1 DEF Elems
<1> QED BY <1>3, <1>4, <1>5, <1>6

-----------------------------------------------------------------------------
(* The ordered dictionaries. *)

LEMMA TrimIs ==
  ASSUME NEW dict, Log(dict)
  PROVE  Log(Trim(dict)) /\ Elems(Trim(dict)) \subseteq Elems(dict)
<1>1. CASE Len(dict) > IndexLimit
  <2>1. dict # << >>
    BY <1>1, EmptyIs, RecorderAssumption
  <2> QED BY <1>1, <2>1, TailIs DEF Trim
<1>2. CASE ~(Len(dict) > IndexLimit)
  BY <1>2 DEF Trim
<1> QED BY <1>1, <1>2

LEMMA PutIs ==
  ASSUME NEW dict, NEW k, NEW v, Log(dict)
  PROVE  /\ Log(Put(dict, k, v))
         /\ Elems(Put(dict, k, v)) \subseteq Elems(dict) \cup {[key |-> k, val |-> v]}
<1> DEFINE e == [key |-> k, val |-> v]
           S == Elems(dict) \cup {e}
           changed == [i \in DOMAIN dict |-> IF dict[i].key = k THEN e ELSE dict[i]]
           new == IF Has(dict, k) THEN changed ELSE Append(dict, e)
<1>1. dict \in Seq(S) /\ DOMAIN dict = 1..Len(dict) /\ Len(dict) \in Nat
  BY LogIs DEF Log
<1>2. changed \in Seq(S)
  <2>1. \A i \in 1..Len(dict) : (IF dict[i].key = k THEN e ELSE dict[i]) \in S
    BY <1>1
  <2> QED BY <1>1, <2>1
<1>3. Append(dict, e) \in Seq(S)
  BY <1>1
<1>4. new \in Seq(S)
  BY <1>2, <1>3
<1>5. Put(dict, k, v) = Trim(new)
  BY DEF Put
<1> HIDE DEF new, S
<1>6. Log(new) /\ Elems(new) \subseteq S
  BY <1>4, SeqIsLog DEF Elems
<1> QED BY <1>5, <1>6, TrimIs DEF S

LEMMA AtIs ==
  ASSUME NEW dict, NEW k, Has(dict, k)
  PROVE  \E e \in Elems(dict) : e.key = k /\ At(dict, k) = e.val
  BY DEF Has, At, Elems

-----------------------------------------------------------------------------
(* Sets of ids, in their order. *)

Rank(S, x) == Cardinality({y \in S : y <= x})

LEMMA RankIs ==
  ASSUME NEW S \in SUBSET Nat, IsFiniteSet(S)
  PROVE  /\ \A x \in S : Rank(S, x) \in 1..Cardinality(S)
         /\ \A x, y \in S : Rank(S, x) = Rank(S, y) => x = y
<1> DEFINE Below(x) == {y \in S : y <= x}
<1>1. \A x \in S : IsFiniteSet(Below(x)) /\ Cardinality(Below(x)) <= Cardinality(S)
  BY FS_Subset
<1>2. Cardinality(S) \in Nat /\ \A x \in S : Cardinality(Below(x)) \in Nat
  BY <1>1, FS_CardinalityType
<1>3. \A x \in S : Cardinality(Below(x)) # 0
  <2>1. \A x \in S : x \in Below(x)
    OBVIOUS
  <2> QED BY <1>1, <2>1, FS_EmptySet
<1>4. ASSUME NEW x \in S, NEW y \in S, x < y, Cardinality(Below(x)) = Cardinality(Below(y))
      PROVE  FALSE
  <2>1. x \in Nat /\ y \in Nat /\ \A z \in S : z \in Nat
    OBVIOUS
  <2>2. x < y
    BY <1>4
  <2>3. \A z \in S : z <= x => z <= y
    BY <2>1, <2>2
  <2>4. y <= y /\ ~(y <= x)
    BY <2>1, <2>2
  <2>5. Below(x) \in SUBSET Below(y) /\ y \in Below(y) /\ y \notin Below(x)
    BY <2>3, <2>4
  <2> HIDE DEF Below
  <2>6. Below(y) = Below(x)
    BY <1>1, <1>4, <2>5, FS_Subset
  <2> QED BY <2>5, <2>6
<1> HIDE DEF Below
<1>5. \A x \in S : Rank(S, x) = Cardinality(Below(x))
  BY DEF Rank, Below
<1>6. \A x, y \in S : Rank(S, x) = Rank(S, y) => x = y
  <2> SUFFICES ASSUME NEW x \in S, NEW y \in S, Rank(S, x) = Rank(S, y) PROVE x = y
    OBVIOUS
  <2>1. ~(x < y) /\ ~(y < x)
    BY <1>4, <1>5
  <2> QED BY <2>1
<1> QED BY <1>1, <1>2, <1>3, <1>5, <1>6

LEMMA NthIs ==
  ASSUME NEW S \in SUBSET Nat, IsFiniteSet(S)
  PROVE  /\ \A i \in 1..Cardinality(S) : Nth(S, i) \in S
         /\ \A x \in S : \E i \in 1..Cardinality(S) : Nth(S, i) = x
<1> DEFINE n == Cardinality(S)
           rank == [x \in S |-> Rank(S, x)]
<1>1. n \in Nat
  BY FS_CardinalityType
<1>2. /\ \A x \in S : Rank(S, x) \in 1..n
      /\ \A x, y \in S : Rank(S, x) = Rank(S, y) => x = y
  BY RankIs
<1>3. rank \in Injection(S, 1..n)
  BY <1>2 DEF Injection, IsInjective
<1>4. IsFiniteSet(1..n) /\ Cardinality(1..n) = n
  BY <1>1, FS_Interval
<1>5. rank \in Surjection(S, 1..n)
  BY <1>3, <1>4, FS_Injection
<1>6. \A i \in 1..n : \E x \in S : Rank(S, x) = i
  BY <1>5 DEF Surjection
<1>7. \A i \in 1..n : Nth(S, i) \in S /\ Rank(S, Nth(S, i)) = i
  <2> SUFFICES ASSUME NEW i \in 1..n PROVE Nth(S, i) \in S /\ Rank(S, Nth(S, i)) = i
    OBVIOUS
  <2>1. \E x \in S : Cardinality({y \in S : y <= x}) = i
    BY <1>6 DEF Rank
  <2>2. Nth(S, i) \in S /\ Cardinality({y \in S : y <= Nth(S, i)}) = i
    BY <2>1 DEF Nth
  <2> QED BY <2>2 DEF Rank
<1>8. \A x \in S : Nth(S, Rank(S, x)) = x
  BY <1>7, <1>2
<1> QED BY <1>7, <1>8, <1>2

LEMMA OutcomesAre ==
  ASSUME NEW S \in SUBSET Nat, IsFiniteSet(S), NEW k
  PROVE  Log(Outcomes(S, k)) /\ Elems(Outcomes(S, k)) = {OutcomeOf(id, k) : id \in S}
<1> DEFINE n == Cardinality(S)
           q == Outcomes(S, k)
           E == {OutcomeOf(id, k) : id \in S}
<1>1. n \in Nat
  BY FS_CardinalityType
<1>2. DOMAIN q = 1..n /\ \A i \in 1..n : q[i] = OutcomeOf(Nth(S, i), k) /\ q[i] \in E
  BY NthIs DEF Outcomes
<1>3. q \in Seq(E)
  <2>1. q = [i \in 1..n |-> OutcomeOf(Nth(S, i), k)]
    BY DEF Outcomes
  <2> HIDE DEF q, E
  <2> QED BY <1>1, <1>2, <2>1
<1>4. E \subseteq Elems(q)
  <2> SUFFICES ASSUME NEW id \in S PROVE OutcomeOf(id, k) \in Elems(q)
    OBVIOUS
  <2>1. PICK i \in 1..n : Nth(S, i) = id
    BY NthIs
  <2>2. q[i] = OutcomeOf(id, k) /\ i \in DOMAIN q
    BY <1>2, <2>1
  <2> HIDE DEF q
  <2> QED BY <2>2 DEF Elems
<1>5. Elems(q) \subseteq E
  BY <1>2 DEF Elems
<1> QED BY <1>3, <1>4, <1>5, SeqIsLog

-----------------------------------------------------------------------------
(* The invariant. *)

Topics == {"signals", "decisions", "closures", "outcomes"}
Counts(f) ==
  /\ DOMAIN f = Consumers
  /\ \A c \in Consumers : DOMAIN f[c] = Consumes[c] /\ \A t \in Consumes[c] : f[c][t] \in Nat

Bus ==
  /\ DOMAIN topics = Topics /\ \A t \in Topics : Log(topics[t])
  /\ Counts(taken) /\ Counts(committed)
  /\ dbFailures \in Nat /\ crashes \in Nat
  /\ \A i \in DOMAIN topics["signals"] : topics["signals"][i] = i /\ i \in Ids

(* A decision names a signal that was published, a closure a decision.     *)
DecisionOf(d, id) == d.corr = SignalLog[id].corr /\ d.signals = {id} /\ HasView(id)
ClosureOf(k, i) ==
  /\ k.id = i /\ k.decision \in DOMAIN topics["decisions"]
  /\ k.corr = topics["decisions"][k.decision].corr
Causes ==
  /\ \A i \in DOMAIN topics["decisions"] :
       \E id \in DOMAIN topics["signals"] : DecisionOf(topics["decisions"][i], id)
  /\ \A i \in DOMAIN topics["closures"] : ClosureOf(topics["closures"][i], i)

(* Under a correlation the indexes hold signals of that correlation only,  *)
(* and without faults the table has all that were taken.                   *)
Indexing ==
  /\ Log(byCorrelation) /\ Log(decisions)
  /\ \A e \in Elems(byCorrelation) \cup Elems(decisions) : e.val \subseteq Sharers(e.key)
  /\ signalTable \subseteq Ids
  /\ FaultFree => \A i \in 1..taken["recorder"]["signals"] : i \in signalTable

Made == Elems(topics["outcomes"]) \cup Elems(unpublished)
Backed == Log(unpublished) /\ \A o \in Made : o.durable => o.signal \in DOMAIN ledger

(* What the closures that were taken have come to. *)
Handled == taken["recorder"]["closures"]
Due(o) ==
  /\ o.closure \in DOMAIN topics["closures"]
  /\ o.signal \in Sharers(topics["closures"][o.closure].corr)
Answered(i) ==
  \A id \in Ids : Sharers(topics["closures"][i].corr) = {id} =>
                    \E o \in Made : o.closure = i /\ o.signal = id
Attributed ==
  /\ \A o \in Made : Due(o)
  /\ (CausalDelivery /\ FaultFree) =>
       Handled <= Len(topics["closures"]) /\ \A i \in 1..Handled : Answered(i)

Inv == Bus /\ Causes /\ Indexing /\ Backed /\ Attributed

LEMMA ConsumesIs ==
  /\ Consumers = {"engine", "recorder"}
  /\ Consumes["engine"] = {"signals", "outcomes"}
  /\ Consumes["recorder"] = {"signals", "decisions", "closures"}
  /\ \A c \in Consumers : Consumes[c] \subseteq Topics
  BY DEF Consumers, Consumes, Topics

LEMMA TakeIs ==
  ASSUME Bus, NEW c \in Consumers, NEW t \in Consumes[c], Take(c, t)
  PROVE  /\ taken[c][t] \in Nat /\ taken[c][t] + 1 \in DOMAIN topics[t]
         /\ taken'[c][t] = taken[c][t] + 1
         /\ \A b \in Consumers : \A u \in Consumes[b] :
              (b # c \/ u # t) => taken'[b][u] = taken[b][u]
         /\ Counts(taken')
<1>1. t \in Topics /\ Log(topics[t]) /\ Counts(taken)
  BY ConsumesIs DEF Bus
<1>2. taken[c][t] \in Nat /\ taken[c][t] < Len(topics[t])
  BY <1>1 DEF Take, Waiting, Counts
<1>3. taken[c][t] + 1 \in DOMAIN topics[t]
  BY <1>1, <1>2, LogIs
<1>4. taken' = [taken EXCEPT ![c] = [taken[c] EXCEPT ![t] = taken[c][t] + 1]]
  BY DEF Take
<1> QED BY <1>1, <1>2, <1>3, <1>4 DEF Counts

(* Nothing is ever taken out of a log. *)
Grow ==
  /\ DOMAIN topics' = Topics /\ \A t \in Topics : Log(topics'[t])
  /\ \A t \in Topics : \A i \in DOMAIN topics[t] :
       i \in DOMAIN topics'[t] /\ topics'[t][i] = topics[t][i]
  /\ \A t \in Topics : Len(topics[t]) <= Len(topics'[t])

LEMMA PublishIs ==
  ASSUME Bus, NEW t \in Topics, NEW msgs, Log(msgs), Publish(t, msgs)
  PROVE  /\ Grow
         /\ topics'[t] = topics[t] \o msgs
         /\ \A u \in Topics \ {t} : topics'[u] = topics[u]
<1>1. topics' = [topics EXCEPT ![t] = topics[t] \o msgs]
  BY DEF Publish
<1>2. /\ DOMAIN topics' = Topics /\ topics'[t] = topics[t] \o msgs
      /\ \A u \in Topics \ {t} : topics'[u] = topics[u]
  BY <1>1 DEF Bus
<1>3. /\ Log(topics[t] \o msgs) /\ Len(topics[t] \o msgs) = Len(topics[t]) + Len(msgs)
      /\ \A i \in DOMAIN topics[t] :
           i \in DOMAIN (topics[t] \o msgs) /\ (topics[t] \o msgs)[i] = topics[t][i]
  BY ConcatIs DEF Bus
<1>4. /\ Len(msgs) \in Nat /\ \A u \in Topics : Log(topics[u]) /\ Len(topics[u]) \in Nat
  BY LogIs DEF Bus
<1>5. \A u \in Topics : Log(topics'[u]) /\ Len(topics[u]) <= Len(topics'[u])
  <2>1. Log(topics'[t]) /\ Len(topics[t]) <= Len(topics'[t])
    BY <1>2, <1>3, <1>4
  <2>2. \A u \in Topics \ {t} : Log(topics'[u]) /\ Len(topics[u]) <= Len(topics'[u])
    BY <1>2, <1>4
  <2> QED BY <2>1, <2>2
<1>6. \A u \in Topics : \A i \in DOMAIN topics[u] :
        i \in DOMAIN topics'[u] /\ topics'[u][i] = topics[u][i]
  <2> SUFFICES ASSUME NEW u \in Topics, NEW i \in DOMAIN topics[u]
               PROVE  i \in DOMAIN topics'[u] /\ topics'[u][i] = topics[u][i]
    OBVIOUS
  <2>1. CASE u = t
    BY <1>2, <1>3, <2>1
  <2>2. CASE u # t
    BY <1>2, <2>2
  <2> QED BY <2>1, <2>2
<1> QED BY <1>2, <1>5, <1>6 DEF Grow

LEMMA SameGrow == ASSUME Bus, topics' = topics PROVE Grow
  BY LogIs DEF Bus, Grow

(* What stays as it is while other logs grow. *)
LEMMA CausesKept ==
  ASSUME Bus, Causes, Grow, topics'["decisions"] = topics["decisions"],
         topics'["closures"] = topics["closures"]
  PROVE  Causes'
<1>1. DOMAIN topics["signals"] \subseteq DOMAIN topics'["signals"]
  BY DEF Grow, Topics
<1>2. /\ DOMAIN topics'["decisions"] = DOMAIN topics["decisions"]
      /\ DOMAIN topics'["closures"] = DOMAIN topics["closures"]
  OBVIOUS
<1>3. \A i \in DOMAIN topics'["closures"] : ClosureOf(topics["closures"][i], i)'
  BY <1>2 DEF Causes, ClosureOf
<1>4. \A i \in DOMAIN topics'["decisions"] :
        \E id \in DOMAIN topics'["signals"] : DecisionOf(topics'["decisions"][i], id)
  BY <1>1, <1>2 DEF Causes
<1> QED BY <1>3, <1>4 DEF Causes, DecisionOf, ClosureOf, HasView

LEMMA IndexingKept ==
  ASSUME Bus, Indexing, UNCHANGED <<byCorrelation, decisions, signalTable>>,
         FaultFree' => FaultFree /\ taken'["recorder"]["signals"] = taken["recorder"]["signals"]
  PROVE  Indexing'
  BY DEF Indexing, Sharers

(* No closure is handled, and the outcomes are the same ones. *)
LEMMA AttributedKept ==
  ASSUME Bus, Attributed, Grow, Made' = Made,
         FaultFree' => FaultFree /\ Handled' = Handled
  PROVE  Attributed'
<1>1. /\ \A i \in DOMAIN topics["closures"] :
           i \in DOMAIN topics'["closures"] /\ topics'["closures"][i] = topics["closures"][i]
      /\ DOMAIN topics["closures"] = 1..Len(topics["closures"])
      /\ Len(topics["closures"]) \in Nat /\ Len(topics'["closures"]) \in Nat
      /\ Len(topics["closures"]) <= Len(topics'["closures"])
  BY LogIs DEF Bus, Grow, Topics
<1>2. \A o \in Made' : Due(o)'
  BY <1>1 DEF Attributed, Due, Sharers
<1>3. ASSUME CausalDelivery, FaultFree'
      PROVE  Handled' <= Len(topics'["closures"]) /\ \A i \in 1..Handled' : Answered(i)'
  <2>1. /\ Handled' = Handled /\ Handled \in Nat /\ Handled <= Len(topics["closures"])
        /\ \A i \in 1..Handled : Answered(i)
    BY <1>3, ConsumesIs DEF Attributed, Bus, Counts, Handled
  <2>2. 1..Handled \subseteq DOMAIN topics["closures"]
    BY <1>1, <2>1
  <2>3. \A i \in 1..Handled : Answered(i)'
    BY <1>1, <2>1, <2>2 DEF Answered, Sharers
  <2> QED BY <1>1, <2>1, <2>3
<1> QED BY <1>2, <1>3 DEF Attributed

-----------------------------------------------------------------------------
(* The invariant holds at the start. *)

LEMMA InvInit == Init => Inv
<1> SUFFICES ASSUME Init PROVE Inv
  OBVIOUS
<1> USE DEF Init, EngineStarts, RecorderStarts, NoRowsYet
<1>1. /\ DOMAIN topics = Topics /\ \A t \in Topics : topics[t] = << >>
  BY DEF Topics
<1>2. \A t \in Topics : Log(topics[t]) /\ Len(topics[t]) = 0 /\ DOMAIN topics[t] = {}
                       /\ Elems(topics[t]) = {}
  BY <1>1, EmptyIs
<1>3. Counts(taken) /\ Counts(committed) /\ Handled = 0 /\ taken["recorder"]["signals"] = 0
  BY ConsumesIs DEF Counts, Nothing, Handled
<1>4. Bus
  BY <1>1, <1>2, <1>3 DEF Bus, Topics
<1>5. Causes
  BY <1>2 DEF Causes, Topics
<1>6. Indexing
  BY <1>3, EmptyIs DEF Indexing
<1>7. Made = {}
  BY <1>2, EmptyIs DEF Made, Topics
<1>8. Backed
  BY <1>7, EmptyIs DEF Backed
<1>9. Attributed
  BY <1>2, <1>3, <1>7 DEF Attributed, Topics
<1> QED BY <1>4, <1>5, <1>6, <1>8, <1>9 DEF Inv

-----------------------------------------------------------------------------
(* A step of each kind keeps it. *)

LEMMA SignalStep == ASSUME Inv, Signal PROVE Inv'
<1> DEFINE n == Len(topics["signals"]) + 1
           q == topics["signals"]
<1>1. PICK m : m = n
  OBVIOUS
<1>2. Publish("signals", <<m>>) /\ Len(q) < Len(SignalLog)
  BY <1>1 DEF Signal
<1>3. Bus /\ Causes /\ Indexing /\ Backed /\ Attributed
  BY DEF Inv
<1>4. /\ Grow /\ topics'["signals"] = q \o <<m>>
      /\ \A u \in Topics \ {"signals"} : topics'[u] = topics[u]
  BY <1>2, <1>3, OneIs, PublishIs DEF Topics
<1>5. Log(q) /\ Len(q) \in Nat /\ DOMAIN q = 1..Len(q)
  BY <1>3, LogIs DEF Bus, Topics
<1>6. \A i \in DOMAIN topics'["signals"] : topics'["signals"][i] = i /\ i \in Ids
  <2> SUFFICES ASSUME NEW i \in DOMAIN (q \o <<m>>)
               PROVE  (q \o <<m>>)[i] = i /\ i \in Ids
    BY <1>4
  <2>1. /\ i \in DOMAIN q => (q \o <<m>>)[i] = q[i]
        /\ i \in DOMAIN q \/ (i - Len(q) \in DOMAIN <<m>> /\ (q \o <<m>>)[i] = <<m>>[i - Len(q)])
        /\ DOMAIN (q \o <<m>>) = 1..(Len(q) + 1)
    BY <1>5, OneIs, ConcatIs, LogIs
  <2>2. CASE i \in DOMAIN q
    BY <1>3, <2>1, <2>2 DEF Bus
  <2>3. CASE i \notin DOMAIN q
    <3>1. i - Len(q) = 1 /\ i \in Int
      BY <1>5, <2>1, <2>3
    <3>2. i = n /\ <<m>>[1] = m
      BY <1>5, <3>1
    <3>3. n \in Ids
      BY <1>2, <1>5, RecorderAssumption
    <3> QED BY <1>1, <2>1, <2>3, <3>1, <3>2, <3>3
  <2> QED BY <2>2, <2>3
<1>7. /\ UNCHANGED <<connected, signals, byCorrelation, decisions, signalTable, ledger, unpublished, dbFailures>>
      /\ UNCHANGED <<taken, committed, crashes>>
  BY DEF Signal, recorderVars, indexes
<1>8. Bus'
  BY <1>3, <1>4, <1>6, <1>7 DEF Bus, Grow, Counts
<1>9. topics'["decisions"] = topics["decisions"] /\ topics'["closures"] = topics["closures"]
      /\ topics'["outcomes"] = topics["outcomes"]
  BY <1>4 DEF Topics
<1>10. Causes'
  BY <1>3, <1>4, <1>9, CausesKept
<1>11. (FaultFree' => FaultFree) /\ Handled' = Handled
  BY <1>7 DEF FaultFree, Handled
<1>12. Indexing'
  BY <1>3, <1>7, <1>11, IndexingKept
<1>13. Made' = Made
  BY <1>7, <1>9 DEF Made, Elems
<1>14. Backed'
  BY <1>3, <1>7, <1>13 DEF Backed, Log, Elems
<1>15. Attributed'
  BY <1>3, <1>4, <1>11, <1>13, AttributedKept
<1> QED BY <1>8, <1>10, <1>12, <1>14, <1>15 DEF Inv

LEMMA EngineSignalStep == ASSUME Inv, EngineSignal PROVE Inv'
<1>1. Bus /\ Causes /\ Indexing /\ Backed /\ Attributed
  BY DEF Inv
<1>2. /\ taken["engine"]["signals"] + 1 \in DOMAIN topics["signals"]
      /\ taken'["recorder"] = taken["recorder"] /\ Counts(taken')
  <2>1. Take("engine", "signals") /\ "engine" \in Consumers /\ "signals" \in Consumes["engine"]
    BY ConsumesIs DEF EngineSignal
  <2>2. taken["engine"]["signals"] + 1 \in DOMAIN topics["signals"] /\ Counts(taken')
    BY <1>1, <2>1, TakeIs
  <2>3. taken'["recorder"] = taken["recorder"]
    BY <1>1, <2>1, ConsumesIs DEF Take, Bus, Counts
  <2> QED BY <2>2, <2>3
<1>3. PICK id \in DOMAIN topics["signals"] :
        Publish("decisions", DecisionsFor(id, SignalLog[id], now))
  BY <1>2, <1>1 DEF EngineSignal, Message, Bus
<1> DEFINE s == SignalLog[id]
           q == topics["decisions"]
<1>4. PICK d : d = [corr |-> s.corr, signals |-> {id}, weighted |-> Weighted(s)]
  OBVIOUS
<1>5. PICK msgs : msgs = DecisionsFor(id, s, now)
  OBVIOUS
<1>6. /\ Log(msgs) /\ \A i \in DOMAIN msgs : DecisionOf(msgs[i], id)
  <2>1. CASE Actionable(s, now)
    <3>1. msgs = <<d>>
      BY <1>4, <1>5, <2>1 DEF DecisionsFor
    <3>2. HasView(id)
      BY <2>1 DEF Actionable, HasView
    <3>3. DecisionOf(d, id)
      BY <1>4, <3>2 DEF DecisionOf
    <3>4. \A i \in DOMAIN <<d>> : i = 1 /\ <<d>>[i] = d
      OBVIOUS
    <3> QED BY <3>1, <3>3, <3>4, OneIs
  <2>2. CASE ~Actionable(s, now)
    <3>1. msgs = << >>
      BY <1>5, <2>2 DEF DecisionsFor
    <3> QED BY <3>1, EmptyIs
  <2> QED BY <2>1, <2>2
<1>7. /\ Grow /\ topics'["decisions"] = q \o msgs
      /\ \A u \in Topics \ {"decisions"} : topics'[u] = topics[u]
  BY <1>3, <1>1, <1>5, <1>6, PublishIs DEF Topics
<1>8. topics'["signals"] = topics["signals"] /\ topics'["closures"] = topics["closures"]
      /\ topics'["outcomes"] = topics["outcomes"]
  BY <1>7 DEF Topics
<1>9. /\ UNCHANGED <<connected, signals, byCorrelation, decisions, signalTable, ledger, unpublished, dbFailures>>
      /\ UNCHANGED <<committed, crashes>>
  BY DEF EngineSignal, recorderVars, indexes
<1>10. Bus'
  BY <1>2, <1>1, <1>7, <1>8, <1>9 DEF Bus, Grow, Counts
<1>11. Causes'
  <2>1. ASSUME NEW i \in DOMAIN topics'["decisions"]
        PROVE  \E x \in DOMAIN topics["signals"] : DecisionOf(topics'["decisions"][i], x)
    <3>1. /\ i \in DOMAIN q => (q \o msgs)[i] = q[i]
          /\ i \in DOMAIN q \/ (i - Len(q) \in DOMAIN msgs /\ (q \o msgs)[i] = msgs[i - Len(q)])
      BY <1>1, <1>6, <1>7, ConcatIs DEF Bus, Topics
    <3>2. CASE i \in DOMAIN q
      BY <1>1, <1>7, <3>1, <3>2 DEF Causes
    <3>3. CASE i \notin DOMAIN q
      BY <1>6, <1>7, <3>1, <3>3
    <3> QED BY <3>2, <3>3
  <2>2. \A i \in DOMAIN q : i \in DOMAIN topics'["decisions"] /\ topics'["decisions"][i] = q[i]
    BY <1>7 DEF Grow, Topics
  <2> QED BY <1>1, <1>8, <2>1, <2>2 DEF Causes, DecisionOf, ClosureOf, HasView
<1>12. (FaultFree' => FaultFree) /\ Handled' = Handled
  BY <1>2, <1>9 DEF FaultFree, Handled
<1>13. Indexing'
  BY <1>2, <1>1, <1>9, <1>12, IndexingKept
<1>14. Made' = Made
  BY <1>8, <1>9 DEF Made, Elems
<1>15. Backed'
  BY <1>1, <1>9, <1>14 DEF Backed, Log, Elems
<1>16. Attributed'
  BY <1>1, <1>7, <1>12, <1>14, AttributedKept
<1> QED BY <1>10, <1>11, <1>13, <1>15, <1>16 DEF Inv

LEMMA EngineOutcomeStep == ASSUME Inv, EngineOutcome PROVE Inv'
<1>1. Bus /\ Causes /\ Indexing /\ Backed /\ Attributed
  BY DEF Inv
<1>2. taken'["recorder"] = taken["recorder"] /\ Counts(taken')
  <2>1. Take("engine", "outcomes") /\ "engine" \in Consumers /\ "outcomes" \in Consumes["engine"]
    BY ConsumesIs DEF EngineOutcome
  <2>2. Counts(taken')
    BY <1>1, <2>1, TakeIs
  <2>3. taken'["recorder"] = taken["recorder"]
    BY <1>1, <2>1, ConsumesIs DEF Take, Bus, Counts
  <2> QED BY <2>2, <2>3
<1>3. /\ UNCHANGED <<connected, signals, byCorrelation, decisions, signalTable, ledger, unpublished, dbFailures>>
      /\ UNCHANGED <<topics, committed, crashes>>
  BY DEF EngineOutcome, recorderVars, indexes
<1>4. Bus'
  BY <1>1, <1>2, <1>3 DEF Bus, Counts
<1>5. Causes'
  BY <1>1, <1>3 DEF Causes, DecisionOf, ClosureOf, HasView
<1>6. (FaultFree' => FaultFree) /\ Handled' = Handled
  BY <1>2, <1>3 DEF FaultFree, Handled
<1>7. Indexing'
  BY <1>1, <1>2, <1>3, <1>6, IndexingKept
<1>8. Made' = Made
  BY <1>3 DEF Made, Elems
<1>9. Backed'
  BY <1>1, <1>3, <1>8 DEF Backed, Log, Elems
<1>10. Attributed'
  BY <1>1, <1>3, <1>6, <1>8, AttributedKept, SameGrow
<1> QED BY <1>4, <1>5, <1>7, <1>9, <1>10 DEF Inv

LEMMA CloseStep == ASSUME Inv, NEW d \in DOMAIN topics["decisions"], Close(d) PROVE Inv'
<1>1. Bus /\ Causes /\ Indexing /\ Backed /\ Attributed
  BY DEF Inv
<1> DEFINE q == topics["closures"]
<1>2. PICK k : /\ k.id = Len(q) + 1 /\ k.decision = d /\ k.corr = topics["decisions"][d].corr
               /\ Publish("closures", <<k>>)
  BY DEF Close
<1>4. /\ Grow /\ topics'["closures"] = q \o <<k>>
      /\ \A u \in Topics \ {"closures"} : topics'[u] = topics[u]
  BY <1>1, <1>2, OneIs, PublishIs DEF Topics
<1>5. topics'["signals"] = topics["signals"] /\ topics'["decisions"] = topics["decisions"]
      /\ topics'["outcomes"] = topics["outcomes"]
  BY <1>4 DEF Topics
<1>6. /\ UNCHANGED <<connected, signals, byCorrelation, decisions, signalTable, ledger, unpublished, dbFailures>>
      /\ UNCHANGED <<taken, committed, crashes>>
  BY DEF Close, recorderVars, indexes
<1>7. Bus'
  BY <1>1, <1>4, <1>5, <1>6 DEF Bus, Grow, Counts
<1>8. Log(q) /\ Len(q) \in Nat /\ DOMAIN q = 1..Len(q)
  BY <1>1, LogIs DEF Bus, Topics
<1>9. PICK r : r = q \o <<k>>
  OBVIOUS
<1>10. \A i \in DOMAIN r : \/ i \in DOMAIN q /\ r[i] = q[i]
                           \/ i \notin DOMAIN q /\ i = Len(q) + 1 /\ r[i] = k
  <2> SUFFICES ASSUME NEW i \in DOMAIN r
               PROVE  \/ i \in DOMAIN q /\ r[i] = q[i]
                      \/ i \notin DOMAIN q /\ i = Len(q) + 1 /\ r[i] = k
    OBVIOUS
  <2>1. /\ i \in DOMAIN q => r[i] = q[i]
        /\ i \in DOMAIN q \/ (i - Len(q) \in DOMAIN <<k>> /\ r[i] = <<k>>[i - Len(q)])
        /\ DOMAIN r = 1..(Len(q) + 1)
    BY <1>8, <1>9, OneIs, ConcatIs, LogIs
  <2>2. CASE i \notin DOMAIN q
    <3>1. i - Len(q) = 1 /\ i \in Int
      BY <1>8, <2>1, <2>2
    <3>2. i = Len(q) + 1 /\ <<k>>[1] = k
      BY <1>8, <3>1
    <3> QED BY <2>1, <2>2, <3>1, <3>2
  <2> QED BY <2>1, <2>2
<1>11. Causes'
  <2>1. \A i \in DOMAIN r : ClosureOf(r[i], i)
    BY <1>1, <1>2, <1>10 DEF Causes, ClosureOf
  <2>2. r = topics'["closures"]
    BY <1>4, <1>9
  <2>3. \A i \in DOMAIN topics'["decisions"] :
          \E id \in DOMAIN topics'["signals"] : DecisionOf(topics'["decisions"][i], id)
    BY <1>1, <1>5 DEF Causes
  <2>4. \A i \in DOMAIN topics'["closures"] : ClosureOf(topics["closures"][i], i)'
    BY <1>5, <2>1, <2>2 DEF ClosureOf
  <2> QED BY <2>3, <2>4 DEF Causes, DecisionOf, ClosureOf, HasView
<1>12. (FaultFree' => FaultFree) /\ Handled' = Handled
  BY <1>6 DEF FaultFree, Handled
<1>13. Indexing'
  BY <1>1, <1>6, <1>12, IndexingKept
<1>14. Made' = Made
  BY <1>5, <1>6 DEF Made, Elems
<1>15. Backed'
  BY <1>1, <1>6, <1>14 DEF Backed, Log, Elems
<1>16. Attributed'
  BY <1>1, <1>4, <1>12, <1>14, AttributedKept
<1> QED BY <1>7, <1>11, <1>13, <1>15, <1>16 DEF Inv

LEMMA RecorderSignalStep == ASSUME Inv, RecorderSignal PROVE Inv'
<1>1. Bus /\ Causes /\ Indexing /\ Backed /\ Attributed
  BY DEF Inv
<1>2. PICK n : n = taken["recorder"]["signals"]
  OBVIOUS
<1>3. /\ n \in Nat /\ n + 1 \in DOMAIN topics["signals"] /\ taken'["recorder"]["signals"] = n + 1
      /\ taken'["recorder"]["closures"] = taken["recorder"]["closures"]
      /\ Counts(taken')
  <2>1. /\ Take("recorder", "signals") /\ "recorder" \in Consumers
        /\ "signals" \in Consumes["recorder"] /\ "closures" \in Consumes["recorder"]
    BY ConsumesIs DEF RecorderSignal
  <2> QED BY <1>1, <1>2, <2>1, TakeIs
<1>4. PICK id : id = n + 1 /\ id \in Ids /\ IndexSignal(id)
  BY <1>1, <1>2, <1>3 DEF RecorderSignal, Message, Bus
<1>5. UNCHANGED <<connected, topics, committed, crashes, decisions, ledger, unpublished>>
  BY <1>4 DEF RecorderSignal, IndexSignal
<1>6. \/ signalTable' = signalTable \cup {id} /\ dbFailures' = dbFailures
      \/ signalTable' = signalTable /\ dbFailures' = dbFailures + 1
      \/ ~connected /\ signalTable' = signalTable /\ dbFailures' = dbFailures
  BY <1>4 DEF IndexSignal, RaiseDb
<1>7. Bus'
  BY <1>1, <1>3, <1>5, <1>6 DEF Bus, Counts
<1>8. Causes'
  BY <1>1, <1>5 DEF Causes, DecisionOf, ClosureOf, HasView
<1>9. FaultFree' => FaultFree /\ signalTable' = signalTable \cup {id}
  BY <1>1, <1>5, <1>6 DEF FaultFree, Bus
<1>10. Indexing'
  <2>1. PICK c, known :
          /\ c = SignalLog[id].corr
          /\ known = IF Has(byCorrelation, c) THEN At(byCorrelation, c) ELSE {}
          /\ byCorrelation' = Put(byCorrelation, c, known \cup {id})
    BY <1>4 DEF IndexSignal
  <2>2. known \subseteq Sharers(c)
    <3>1. CASE Has(byCorrelation, c)
      <4>1. PICK e \in Elems(byCorrelation) : e.key = c /\ At(byCorrelation, c) = e.val
        BY <3>1, AtIs
      <4> QED BY <1>1, <2>1, <3>1, <4>1 DEF Indexing
    <3>2. CASE ~Has(byCorrelation, c)
      BY <2>1, <3>2
    <3> QED BY <3>1, <3>2
  <2>3. known \cup {id} \subseteq Sharers(c)
    BY <1>4, <2>1, <2>2 DEF Sharers
  <2>4. /\ Log(byCorrelation')
        /\ Elems(byCorrelation') \subseteq
             Elems(byCorrelation) \cup {[key |-> c, val |-> known \cup {id}]}
    BY <1>1, <2>1, PutIs DEF Indexing
  <2>5. \A e \in Elems(byCorrelation') : e.val \subseteq Sharers(e.key)
    BY <1>1, <2>3, <2>4 DEF Indexing
  <2>6. Log(decisions') /\ \A e \in Elems(decisions') : e.val \subseteq Sharers(e.key)
    BY <1>1, <1>5 DEF Indexing
  <2>7. signalTable' \subseteq Ids
    BY <1>1, <1>4, <1>6 DEF Indexing
  <2>8. FaultFree' => \A i \in 1..taken'["recorder"]["signals"] : i \in signalTable'
    <3> SUFFICES ASSUME FaultFree', NEW i \in 1..(n + 1) PROVE i \in signalTable'
      BY <1>3
    <3>1. i \in 1..n \/ i = n + 1
      BY <1>3
    <3> QED BY <1>1, <1>2, <1>4, <1>9, <3>1 DEF Indexing
  <2>9. \A e \in Elems(byCorrelation') \cup Elems(decisions') : e.val \subseteq Sharers(e.key)
    BY <2>5, <2>6
  <2> QED BY <2>4, <2>6, <2>7, <2>8, <2>9 DEF Indexing, Sharers, Elems, Log
<1>11. Made' = Made
  BY <1>5 DEF Made, Elems
<1>12. Backed'
  BY <1>1, <1>5, <1>11 DEF Backed, Log, Elems
<1>13. Handled' = Handled
  BY <1>3 DEF Handled
<1>14. Attributed'
  BY <1>1, <1>5, <1>9, <1>11, <1>13, AttributedKept, SameGrow
<1> QED BY <1>7, <1>8, <1>10, <1>12, <1>14 DEF Inv

LEMMA RecorderDecisionStep == ASSUME Inv, RecorderDecision PROVE Inv'
<1>1. Bus /\ Causes /\ Indexing /\ Backed /\ Attributed
  BY DEF Inv
<1>2. /\ taken["recorder"]["decisions"] + 1 \in DOMAIN topics["decisions"]
      /\ taken'["recorder"]["signals"] = taken["recorder"]["signals"]
      /\ taken'["recorder"]["closures"] = taken["recorder"]["closures"]
      /\ Counts(taken')
  <2>1. /\ Take("recorder", "decisions") /\ "recorder" \in Consumers
        /\ "signals" \in Consumes["recorder"] /\ "closures" \in Consumes["recorder"]
        /\ "decisions" \in Consumes["recorder"]
    BY ConsumesIs DEF RecorderDecision
  <2> QED BY <1>1, <2>1, TakeIs
<1>3. PICK d : /\ \E i \in DOMAIN topics["decisions"] : d = topics["decisions"][i]
               /\ IndexDecision(d)
  BY <1>2 DEF RecorderDecision, Message
<1>4. /\ UNCHANGED <<topics, committed, crashes>>
      /\ UNCHANGED <<connected, signals, byCorrelation, signalTable, ledger, unpublished, dbFailures>>
      /\ decisions' = Put(decisions, d.corr, d.signals)
  BY <1>3 DEF RecorderDecision, IndexDecision
<1>5. Bus'
  BY <1>1, <1>2, <1>4 DEF Bus, Counts
<1>6. Causes'
  BY <1>1, <1>4 DEF Causes, DecisionOf, ClosureOf, HasView
<1>7. Indexing'
  <2>1. PICK id \in Ids : DecisionOf(d, id)
    BY <1>1, <1>3 DEF Causes, Bus
  <2>2. d.signals \subseteq Sharers(d.corr)
    BY <2>1 DEF DecisionOf, Sharers
  <2>3. /\ Log(decisions')
        /\ Elems(decisions') \subseteq Elems(decisions) \cup {[key |-> d.corr, val |-> d.signals]}
    BY <1>1, <1>4, PutIs DEF Indexing
  <2>4. \A e \in Elems(decisions') : e.val \subseteq Sharers(e.key)
    BY <1>1, <2>2, <2>3 DEF Indexing
  <2>5. Log(byCorrelation') /\ \A e \in Elems(byCorrelation') : e.val \subseteq Sharers(e.key)
    BY <1>1, <1>4 DEF Indexing
  <2>6. signalTable' \subseteq Ids
    BY <1>1, <1>4 DEF Indexing
  <2>7. FaultFree' => \A i \in 1..taken'["recorder"]["signals"] : i \in signalTable'
    BY <1>1, <1>2, <1>4 DEF Indexing, FaultFree
  <2>8. \A e \in Elems(byCorrelation') \cup Elems(decisions') : e.val \subseteq Sharers(e.key)
    BY <2>4, <2>5
  <2> QED BY <2>3, <2>5, <2>6, <2>7, <2>8 DEF Indexing, Sharers, Elems, Log
<1>8. Made' = Made
  BY <1>4 DEF Made, Elems
<1>9. Backed'
  BY <1>1, <1>4, <1>8 DEF Backed, Log, Elems
<1>10. Handled' = Handled /\ (FaultFree' => FaultFree)
  BY <1>2, <1>4 DEF Handled, FaultFree
<1>11. Attributed'
  BY <1>1, <1>4, <1>8, <1>10, AttributedKept, SameGrow
<1> QED BY <1>5, <1>6, <1>7, <1>9, <1>11 DEF Inv

(* What the recorder scores a closure by: signals of its correlation.      *)
LEMMA ScoredAre ==
  ASSUME Indexing, NEW c
  PROVE  /\ SignalsFor(c) \subseteq Sharers(c)
         /\ Scored(c) \in SUBSET Nat /\ IsFiniteSet(Scored(c)) /\ Scored(c) \subseteq Sharers(c)
<1>1. Listed(c) \subseteq Sharers(c)
  <2>1. CASE Has(decisions, c)
    <3>1. PICK e \in Elems(decisions) : e.key = c /\ At(decisions, c) = e.val
      BY <2>1, AtIs
    <3> QED BY <2>1, <3>1 DEF Listed, InMemory, Indexing
  <2>2. CASE ~Has(decisions, c)
    BY <2>2 DEF Listed
  <2> QED BY <2>1, <2>2
<1>2. Indexed(c) \subseteq Sharers(c)
  <2>1. CASE Has(byCorrelation, c)
    <3>1. PICK e \in Elems(byCorrelation) : e.key = c /\ At(byCorrelation, c) = e.val
      BY <2>1, AtIs
    <3> QED BY <2>1, <3>1 DEF Indexed, InMemory, Indexing
  <2>2. CASE ~Has(byCorrelation, c)
    BY <2>2 DEF Indexed
  <2> QED BY <2>1, <2>2
<1>3. Persisted(c) \subseteq Sharers(c)
  BY DEF Persisted, Sharers, Indexing
<1>4. SignalsFor(c) \subseteq Sharers(c)
  BY <1>1, <1>2, <1>3 DEF SignalsFor
<1>5. Scored(c) \subseteq Sharers(c)
  BY <1>4 DEF Scored
<1>6. IsFiniteSet(Ids) /\ Ids \subseteq Nat
  BY RecorderAssumption, FS_Interval
<1>7. Scored(c) \subseteq Ids
  BY <1>5 DEF Sharers
<1> QED BY <1>4, <1>5, <1>6, <1>7, FS_Subset

LEMMA LedgeredIs ==
  ASSUME NEW ids, NEW correct
  PROVE  /\ DOMAIN ledger \subseteq DOMAIN Ledgered(ids, correct)
         /\ connected => DOMAIN Ledgered(ids, correct) = DOMAIN ledger \cup ids
  BY DEF Ledgered

(* The signal of a decision is found, if nothing else than by the table. *)
LEMMA ContributorIsScored ==
  ASSUME Bus, Causes, Indexing, FaultFree, ~Waiting("recorder", "signals"),
         NEW i \in DOMAIN topics["closures"], NEW id \in Ids,
         Sharers(topics["closures"][i].corr) = {id}
  PROVE  Scored(topics["closures"][i].corr) = {id}
<1>1. PICK c : c = topics["closures"][i].corr
  OBVIOUS
<1>2. PICK x \in DOMAIN topics["signals"] : SignalLog[x].corr = c /\ HasView(x) /\ x \in Ids
  <2>1. topics["closures"][i].decision \in DOMAIN topics["decisions"]
        /\ c = topics["decisions"][topics["closures"][i].decision].corr
    BY <1>1 DEF Causes, ClosureOf
  <2>2. PICK x \in DOMAIN topics["signals"] :
          DecisionOf(topics["decisions"][topics["closures"][i].decision], x)
    BY <2>1 DEF Causes
  <2> QED BY <2>1, <2>2 DEF DecisionOf, Bus
<1>3. x = id
  BY <1>1, <1>2 DEF Sharers
<1>4. x \in 1..taken["recorder"]["signals"]
  <2>1. taken["recorder"]["signals"] \in Nat
    BY ConsumesIs DEF Bus, Counts
  <2>2. /\ DOMAIN topics["signals"] = 1..Len(topics["signals"])
        /\ Len(topics["signals"]) \in Nat
    BY LogIs DEF Bus, Topics
  <2>3. ~(taken["recorder"]["signals"] < Len(topics["signals"]))
    BY DEF Waiting
  <2> QED BY <1>2, <2>1, <2>2, <2>3
<1>5. x \in Persisted(c)
  BY <1>2, <1>4 DEF Indexing, Persisted, FaultFree
<1>6. SignalsFor(c) # {}
  BY <1>5 DEF SignalsFor
<1>7. SignalsFor(c) = {id}
  BY <1>1, <1>6, ScoredAre
<1> QED BY <1>1, <1>2, <1>3, <1>7 DEF Scored

LEMMA RecorderClosureStep == ASSUME Inv, RecorderClosure PROVE Inv'
<1>1. Bus /\ Causes /\ Indexing /\ Backed /\ Attributed
  BY DEF Inv
<1> DEFINE q == topics["closures"]
<1>2. PICK n : n = Handled
  OBVIOUS
<1>3. /\ n \in Nat /\ n + 1 \in DOMAIN q /\ Handled' = n + 1
      /\ taken'["recorder"]["signals"] = taken["recorder"]["signals"]
      /\ Counts(taken')
  <2>1. /\ Take("recorder", "closures") /\ "recorder" \in Consumers
        /\ "signals" \in Consumes["recorder"] /\ "closures" \in Consumes["recorder"]
    BY ConsumesIs DEF RecorderClosure
  <2> QED BY <1>1, <1>2, <2>1, TakeIs DEF Handled
<1>4. PICK k : k = q[n + 1]
  OBVIOUS
<1>5. Attribute(k)
  BY <1>2, <1>4 DEF RecorderClosure, Message, Handled
<1>6. /\ UNCHANGED <<topics, committed, crashes>>
      /\ UNCHANGED <<connected, signals, byCorrelation, decisions, signalTable>>
  BY <1>5 DEF RecorderClosure, Attribute, indexes
<1>7. PICK S : S = Scored(k.corr)
  OBVIOUS
<1>8. S \in SUBSET Nat /\ IsFiniteSet(S) /\ S \subseteq Sharers(k.corr)
  BY <1>1, <1>7, ScoredAre
<1>9. \/ /\ ledger' = Ledgered(S, k.profitable)
         /\ unpublished' = Outcomes(S, k)
         /\ dbFailures' = dbFailures
      \/ /\ DOMAIN ledger \subseteq DOMAIN ledger'
         /\ unpublished' = unpublished
         /\ dbFailures' = dbFailures + 1
  <2>1. \A ids : DOMAIN ledger \subseteq DOMAIN Ledgered(ids, k.profitable)
    BY LedgeredIs
  <2>2. \/ /\ ledger' = Ledgered(S, k.profitable)
           /\ unpublished' = Outcomes(S, k)
           /\ UNCHANGED dbFailures
        \/ \E bad \in S :
             /\ RaiseDb
             /\ ledger' = Ledgered({id \in S : id < bad}, k.profitable)
             /\ UNCHANGED unpublished
        \/ RaiseDb /\ UNCHANGED <<ledger, unpublished>>
    BY <1>5, <1>7 DEF Attribute
  <2> QED BY <2>1, <2>2 DEF RaiseDb
<1>10. Bus'
  BY <1>1, <1>3, <1>6, <1>9 DEF Bus, Counts
<1>11. Causes'
  BY <1>1, <1>6 DEF Causes, DecisionOf, ClosureOf, HasView
<1>12. FaultFree' => FaultFree /\ dbFailures' = dbFailures
  BY <1>1, <1>6, <1>9 DEF FaultFree, Bus
<1>13. Indexing'
  BY <1>1, <1>3, <1>6, <1>12, IndexingKept
<1>14. unpublished = << >> /\ Elems(unpublished) = {}
  BY EmptyIs DEF RecorderClosure, RecorderIdle
<1>15. CASE dbFailures' = dbFailures
  <2>1. /\ ledger' = Ledgered(S, k.profitable)
        /\ unpublished' = Outcomes(S, k)
    BY <1>1, <1>9, <1>15 DEF Bus
  <2>2. Log(unpublished') /\ Elems(unpublished') = {OutcomeOf(id, k) : id \in S}
    BY <1>8, <2>1, OutcomesAre
  <2>3. Made' = Made \cup {OutcomeOf(id, k) : id \in S}
    <3>1. Elems(topics["outcomes"])' = Elems(topics["outcomes"])
      BY <1>6 DEF Elems
    <3>2. Elems(unpublished)' = {OutcomeOf(id, k) : id \in S}
      BY <2>2 DEF Elems
    <3> QED BY <1>14, <3>1, <3>2 DEF Made
  <2>4. \A id \in S : /\ OutcomeOf(id, k).signal = id /\ OutcomeOf(id, k).closure = n + 1
                      /\ OutcomeOf(id, k).durable = connected
    <3>1. k.id = n + 1
      BY <1>1, <1>3, <1>4 DEF Causes, ClosureOf
    <3> QED BY <3>1 DEF OutcomeOf
  <2>5. Backed'
    <3>1. DOMAIN ledger \subseteq DOMAIN ledger' /\ (connected => S \subseteq DOMAIN ledger')
      <4>1. PICK rows : rows = Ledgered(S, k.profitable)
        OBVIOUS
      <4>2. DOMAIN ledger \subseteq DOMAIN rows /\ (connected => DOMAIN rows = DOMAIN ledger \cup S)
        BY <4>1, LedgeredIs
      <4>3. connected => S \subseteq DOMAIN rows
        BY <4>2
      <4> QED BY <2>1, <4>1, <4>2, <4>3
    <3>2. \A o \in Made' : o.durable => o.signal \in DOMAIN ledger'
      BY <1>1, <2>3, <2>4, <3>1 DEF Backed
    <3> QED BY <2>2, <3>2 DEF Backed, Log, Elems
  <2>6. \A o \in Made' : Due(o)'
    <3>1. \A o \in Made : Due(o)
      BY <1>1 DEF Attributed
    <3>2. \A o \in Made' \ Made : o.closure = n + 1 /\ o.signal \in Sharers(q[n + 1].corr)
      BY <1>4, <1>8, <2>3, <2>4
    <3>3. \A o \in Made' : Due(o)
      BY <1>3, <3>1, <3>2 DEF Due
    <3> QED BY <1>6, <3>3 DEF Due, Sharers
  <2>7. ASSUME CausalDelivery, FaultFree'
        PROVE  n + 1 <= Len(q) /\ \A i \in 1..(n + 1) : Answered(i)'
    <3>1. \A i \in 1..n : Answered(i)
      BY <1>1, <1>2, <1>12, <2>7 DEF Attributed
    <3>2. n + 1 <= Len(q)
      BY <1>1, <1>3, LogIs DEF Bus, Topics
    <3>3. ASSUME NEW i \in 1..n PROVE Answered(i)'
      BY <1>6, <2>3, <3>1 DEF Answered, Sharers
    <3>4. Answered(n + 1)'
      <4> SUFFICES ASSUME NEW id \in Ids, Sharers(q[n + 1].corr) = {id}
                   PROVE  \E o \in Made' : o.closure = n + 1 /\ o.signal = id
        BY <1>6 DEF Answered, Sharers
      <4>1. FaultFree /\ ~Waiting("recorder", "signals")
        BY <1>12, <2>7 DEF RecorderClosure
      <4>2. S = {id}
        BY <1>1, <1>3, <1>4, <1>7, <4>1, ContributorIsScored
      <4>3. OutcomeOf(id, k) \in Made'
        BY <2>3, <4>2
      <4> QED BY <2>4, <4>2, <4>3
    <3>5. \A i \in 1..(n + 1) : i \in 1..n \/ i = n + 1
      BY <1>3
    <3> QED BY <3>2, <3>3, <3>4, <3>5
  <2>8. Attributed'
    BY <1>3, <1>6, <2>6, <2>7 DEF Attributed
  <2> QED BY <1>10, <1>11, <1>13, <2>5, <2>8 DEF Inv
<1>16. CASE dbFailures' # dbFailures
  <2>1. DOMAIN ledger \subseteq DOMAIN ledger' /\ unpublished' = unpublished
    BY <1>9, <1>16
  <2>2. Made' = Made
    BY <1>6, <2>1 DEF Made, Elems
  <2>3. Backed'
    BY <1>1, <2>1, <2>2 DEF Backed, Log, Elems
  <2>4. Attributed'
    <3>1. ~FaultFree'
      BY <1>12, <1>16
    <3>2. \A o \in Made' : Due(o)'
      BY <1>1, <1>6, <2>2 DEF Attributed, Due, Sharers
    <3> QED BY <3>1, <3>2 DEF Attributed
  <2> QED BY <1>10, <1>11, <1>13, <2>3, <2>4 DEF Inv
<1> QED BY <1>15, <1>16

LEMMA RecorderPublishStep == ASSUME Inv, RecorderPublish PROVE Inv'
<1>1. Bus /\ Causes /\ Indexing /\ Backed /\ Attributed
  BY DEF Inv
<1>2. PICK o : o = Head(unpublished)
  OBVIOUS
<1>3. /\ unpublished # << >> /\ Publish("outcomes", <<o>>) /\ unpublished' = Tail(unpublished)
      /\ UNCHANGED <<connected, signals, byCorrelation, decisions, signalTable, ledger, dbFailures>>
      /\ UNCHANGED <<taken, committed, crashes>>
  BY <1>2 DEF RecorderPublish, indexes
<1>4. /\ Grow /\ topics'["outcomes"] = topics["outcomes"] \o <<o>>
      /\ \A u \in Topics \ {"outcomes"} : topics'[u] = topics[u]
  BY <1>1, <1>3, OneIs, PublishIs DEF Topics
<1>5. topics'["signals"] = topics["signals"] /\ topics'["decisions"] = topics["decisions"]
      /\ topics'["closures"] = topics["closures"]
  BY <1>4 DEF Topics
<1>6. Bus'
  BY <1>1, <1>3, <1>4, <1>5 DEF Bus, Grow, Counts
<1>7. Causes'
  BY <1>1, <1>4, <1>5, CausesKept
<1>8. (FaultFree' => FaultFree) /\ Handled' = Handled
  BY <1>3 DEF FaultFree, Handled
<1>9. Indexing'
  BY <1>1, <1>3, <1>8, IndexingKept
<1>10. Log(unpublished') /\ Elems(unpublished) = {o} \cup Elems(unpublished')
  BY <1>1, <1>2, <1>3, TailIs DEF Backed
<1>11. Elems(topics'["outcomes"]) = Elems(topics["outcomes"]) \cup {o}
  BY <1>1, <1>4, OneIs, ConcatIs DEF Bus, Topics
<1>12. Made' = Made
  <2>1. Made' = Elems(topics'["outcomes"]) \cup Elems(unpublished')
    BY DEF Made, Elems
  <2> QED BY <1>10, <1>11, <2>1 DEF Made
<1>13. Backed'
  BY <1>1, <1>3, <1>10, <1>12 DEF Backed, Log, Elems
<1>14. Attributed'
  BY <1>1, <1>4, <1>8, <1>12, AttributedKept
<1> QED BY <1>6, <1>7, <1>9, <1>13, <1>14 DEF Inv

LEMMA CrashStep == ASSUME Inv, NEW c \in Consumers, Crash(c) PROVE Inv'
<1>1. Bus /\ Causes /\ Indexing /\ Backed /\ Attributed
  BY DEF Inv
<1>2. crashes' = crashes + 1 /\ UNCHANGED topics
  BY DEF Crash
<1>3. Counts(taken') /\ Counts(committed')
  <2>1. CASE taken' = [taken EXCEPT ![c] = committed[c]] /\ UNCHANGED committed
    BY <1>1, <2>1 DEF Bus, Counts
  <2>2. CASE committed' = [committed EXCEPT ![c] = taken[c]] /\ UNCHANGED taken
    BY <1>1, <2>2 DEF Bus, Counts
  <2>3. ASSUME NEW t \in Consumes[c], taken' = [taken EXCEPT ![c][t] = @ + 1],
               committed' = [committed EXCEPT ![c] = taken'[c]]
        PROVE  Counts(taken') /\ Counts(committed')
    <3>1. taken' = [taken EXCEPT ![c] = [taken[c] EXCEPT ![t] = taken[c][t] + 1]]
      BY <2>3
    <3>2. Counts(taken')
      BY <1>1, <3>1 DEF Bus, Counts
    <3> QED BY <1>1, <2>3, <3>2 DEF Bus, Counts
  <2> QED BY <2>1, <2>2, <2>3 DEF Crash
<1>4. ~FaultFree'
  BY <1>1, <1>2 DEF FaultFree, Bus
<1>5. /\ signalTable' = signalTable /\ ledger' = ledger /\ dbFailures' = dbFailures
      /\ byCorrelation' = byCorrelation \/ byCorrelation' = << >>
      /\ decisions' = decisions \/ decisions' = << >>
      /\ unpublished' = unpublished \/ unpublished' = << >>
  BY DEF Crash, RecorderRestarts, recorderVars, indexes
<1>6. Bus'
  BY <1>1, <1>2, <1>3, <1>5 DEF Bus
<1>7. Causes'
  BY <1>1, <1>2 DEF Causes, DecisionOf, ClosureOf, HasView
<1>8. Indexing'
  <2>1. Log(byCorrelation') /\ Elems(byCorrelation') \subseteq Elems(byCorrelation)
    BY <1>1, <1>5, EmptyIs DEF Indexing
  <2>2. Log(decisions') /\ Elems(decisions') \subseteq Elems(decisions)
    BY <1>1, <1>5, EmptyIs DEF Indexing
  <2>3. \A e \in Elems(byCorrelation') \cup Elems(decisions') : e.val \subseteq Sharers(e.key)
    BY <1>1, <2>1, <2>2 DEF Indexing
  <2>4. signalTable' \subseteq Ids
    BY <1>1, <1>5 DEF Indexing
  <2> QED BY <1>4, <2>1, <2>2, <2>3, <2>4 DEF Indexing, Sharers, Elems, Log
<1>9. Log(unpublished') /\ Elems(unpublished') \subseteq Elems(unpublished)
  BY <1>1, <1>5, EmptyIs DEF Backed
<1>10. Backed'
  <2>1. Made' = Elems(topics["outcomes"]) \cup Elems(unpublished')
    BY <1>2 DEF Made, Elems
  <2>2. \A o \in Made' : o.durable => o.signal \in DOMAIN ledger'
    BY <1>1, <1>5, <1>9, <2>1 DEF Backed, Made
  <2> QED BY <1>9, <2>2 DEF Backed, Log, Elems
<1>11. Attributed'
  <2>1. Made' = Elems(topics["outcomes"]) \cup Elems(unpublished')
    BY <1>2 DEF Made, Elems
  <2>2. \A o \in Made' : Due(o)
    BY <1>1, <1>9, <2>1 DEF Attributed, Made
  <2>3. \A o \in Made' : Due(o)'
    BY <1>2, <2>2 DEF Due, Sharers
  <2> QED BY <1>4, <2>3 DEF Attributed
<1> QED BY <1>6, <1>7, <1>8, <1>10, <1>11 DEF Inv

LEMMA SameState ==
  ASSUME Inv,
         UNCHANGED <<connected, signals, byCorrelation, decisions, signalTable, ledger, unpublished, dbFailures>>,
         UNCHANGED <<topics, taken, committed, crashes>>
  PROVE  Inv'
<1>1. Bus'
  BY DEF Inv, Bus, Counts
<1>2. Causes'
  BY DEF Inv, Causes, DecisionOf, ClosureOf, HasView
<1>3. Indexing'
  <2>1. FaultFree' = FaultFree
    BY DEF FaultFree
  <2> QED BY <2>1 DEF Inv, Indexing, Sharers
<1>4. Made' = Made
  BY DEF Made, Elems
<1>5. Backed'
  BY <1>4 DEF Inv, Backed, Elems, Log
<1>6. Attributed'
  BY <1>4, AttributedKept, SameGrow DEF Inv, FaultFree, Handled
<1> QED BY <1>1, <1>2, <1>3, <1>5, <1>6 DEF Inv

LEMMA InvNext == Inv /\ [Next]_vars => Inv'
<1> SUFFICES ASSUME Inv, [Next]_vars PROVE Inv'
  OBVIOUS
<1>1. CASE Signal
  BY <1>1, SignalStep
<1>2. CASE EngineSignal
  BY <1>2, EngineSignalStep
<1>3. CASE EngineOutcome
  BY <1>3, EngineOutcomeStep
<1>4. ASSUME NEW d \in DOMAIN topics["decisions"], Close(d) PROVE Inv'
  BY <1>4, CloseStep
<1>5. CASE RecorderSignal
  BY <1>5, RecorderSignalStep
<1>6. CASE RecorderDecision
  BY <1>6, RecorderDecisionStep
<1>7. CASE RecorderClosure
  BY <1>7, RecorderClosureStep
<1>8. CASE RecorderPublish
  BY <1>8, RecorderPublishStep
<1>9. CASE Clock
  BY <1>9, SameState DEF Clock, recorderVars, busVars, indexes
<1>10. ASSUME NEW c \in Consumers, Crash(c) PROVE Inv'
  BY <1>10, CrashStep
<1>11. CASE UNCHANGED vars
  BY <1>11, SameState DEF vars, recorderVars, busVars, indexes
<1> QED BY <1>1, <1>2, <1>3, <1>4, <1>5, <1>6, <1>7, <1>8, <1>9, <1>10, <1>11 DEF Next

LEMMA Invariance == Spec => []Inv
  BY InvInit, InvNext, PTL DEF Spec

-----------------------------------------------------------------------------
(* Whichever statement of attribute() fails and wherever a process         *)
(* crashes, a recorder that reached its database when it started publishes *)
(* an outcome only for a forecast that has its row in the ledger           *)
(* (attribute() writes the rows before handle() returns).                  *)
THEOREM LedgerFirst == Spec => []LedgerBacksOutcomes
<1>1. Inv => LedgerBacksOutcomes
  <2> SUFFICES ASSUME Inv, NEW i \in DOMAIN topics["outcomes"], topics["outcomes"][i].durable
               PROVE  topics["outcomes"][i].signal \in DOMAIN ledger
    BY DEF LedgerBacksOutcomes
  <2>1. topics["outcomes"][i] \in Made
    BY DEF Made, Elems
  <2> QED BY <2>1 DEF Inv, Backed
<1> QED BY <1>1, Invariance, PTL

(* With an index of any size, whatever failed or crashed and with or       *)
(* without a database, a closed position is attributed to no signal but of *)
(* its correlation; and without faults, where no other signal shares that  *)
(* correlation, to the one its decision names (_signals_for falls back to  *)
(* the table for what the memory has lost).                                *)
THEOREM RightSignalsScored ==
  ASSUME CausalDelivery
  PROVE  Spec => []AttributedToContributors
<1>1. Inv => AttributedToContributors
  <2> SUFFICES ASSUME Inv, NEW i \in DOMAIN topics["closures"], NEW k, k = topics["closures"][i]
               PROVE  /\ ScoredFor(k) \subseteq Sharers(k.corr)
                      /\ (FaultFree /\ i <= Handled /\ Cardinality(Sharers(k.corr)) = 1) =>
                           ScoredFor(k) = topics["decisions"][k.decision].signals
    BY DEF AttributedToContributors, Handled
  <2>1. Bus /\ Causes /\ Indexing /\ Backed /\ Attributed
    BY DEF Inv
  <2>2. ClosureOf(k, i)
    BY <2>1 DEF Causes
  <2>3. Elems(Produced) = Made
    <3>1. Log(topics["outcomes"]) /\ Log(unpublished)
      BY <2>1 DEF Bus, Backed, Topics
    <3> QED BY <3>1, ConcatIs DEF Produced, Made
  <2>4. ScoredFor(k) = {o.signal : o \in {p \in Made : p.closure = i}}
    BY <2>2, <2>3 DEF ScoredFor, Elems, ClosureOf
  <2>5. ScoredFor(k) \subseteq Sharers(k.corr)
    BY <2>1, <2>4 DEF Attributed, Due
  <2>6. ASSUME FaultFree, i <= Handled, Cardinality(Sharers(k.corr)) = 1
        PROVE  ScoredFor(k) = topics["decisions"][k.decision].signals
    <3>1. IsFiniteSet(Sharers(k.corr))
      <4>1. IsFiniteSet(Ids) /\ Sharers(k.corr) \subseteq Ids
        BY RecorderAssumption, FS_Interval DEF Sharers
      <4> QED BY <4>1, FS_Subset
    <3>2. PICK id : Sharers(k.corr) = {id}
      BY <2>6, <3>1, FS_Singleton
    <3>3. id \in Ids
      BY <3>2 DEF Sharers
    <3>4. PICK x \in Ids : DecisionOf(topics["decisions"][k.decision], x) /\ SignalLog[x].corr = k.corr
      <4>1. k.decision \in DOMAIN topics["decisions"] /\ k.corr = topics["decisions"][k.decision].corr
        BY <2>2 DEF ClosureOf
      <4>2. PICK x \in DOMAIN topics["signals"] : DecisionOf(topics["decisions"][k.decision], x)
        BY <2>1, <4>1 DEF Causes
      <4>3. x \in Ids
        BY <2>1, <4>2 DEF Bus
      <4> QED BY <4>1, <4>2, <4>3 DEF DecisionOf
    <3>5. x = id /\ topics["decisions"][k.decision].signals = {id}
      BY <3>2, <3>4 DEF Sharers, DecisionOf
    <3>6. i \in 1..Handled
      BY <2>1, <2>6, LogIs, ConsumesIs DEF Bus, Topics, Counts, Handled
    <3>7. PICK o \in Made : o.closure = i /\ o.signal = id
      BY <2>1, <2>6, <3>2, <3>3, <3>6 DEF Attributed, Answered
    <3> QED BY <2>4, <2>5, <3>2, <3>5, <3>7
  <2> QED BY <2>5, <2>6
<1> QED BY <1>1, Invariance, PTL

-----------------------------------------------------------------------------
(* The trust in an agent and its rows. *)

Learned == taken["engine"]["outcomes"]

(* An outcome for each row, and the verdict of the row where it is the     *)
(* only one.                                                               *)
Tells(o, rows) ==
  /\ o.signal \in DOMAIN rows /\ o.agent = SignalLog[o.signal].agent
  /\ o.confidence = SignalLog[o.signal].confidence
Rows ==
  /\ DOMAIN ledger \subseteq Ids
  /\ \A i \in DOMAIN Produced : Tells(Produced[i], ledger)
  /\ \A id \in DOMAIN ledger : \E i \in DOMAIN Produced : Produced[i].signal = id
  /\ \A a : ScoredOnce(a) =>
       \A i \in DOMAIN Produced :
         Produced[i].agent = a => Produced[i].correct = ledger[Produced[i].signal]

(* The window of an agent none of whose signals was scored twice holds the *)
(* scores of what the engine was told.                                     *)
HeardOf(a) ==
  {id \in Ids : /\ SignalLog[id].agent = a
                /\ \E i \in 1..Learned : topics["outcomes"][i].signal = id}
ScoreOf(id) == BrierScore(SignalLog[id].confidence, ledger[id])
ScoresOver(S) == [id \in S |-> ScoreOf(id)]
Fits(window, S) ==
  /\ window \in Seq(Int)
  /\ IF Cardinality(S) <= ScoreWindow
     THEN Len(window) = Cardinality(S) /\ Total(window) = SumOf(ScoresOver(S))
     ELSE Len(window) = ScoreWindow
Trusted ==
  /\ Learned <= Len(topics["outcomes"])
  /\ \A a : ScoredOnce(a) => Fits(WindowOf(a), HeardOf(a))

Sound == FaultFree => Rows /\ Trusted

LEMMA ScoreIs == ASSUME NEW id \in Ids PROVE ScoreOf(id) \in Int
<1>1. SignalLog[id].confidence \in Int
  BY LoopAssumption DEF Confidences
<1>2. \A x \in Int : (100 - x) * (100 - x) \in Int /\ x * x \in Int
  OBVIOUS
<1> QED BY <1>1, <1>2 DEF ScoreOf, BrierScore

LEMMA HeardIs == \A a : HeardOf(a) \subseteq Ids /\ IsFiniteSet(HeardOf(a))
<1>1. IsFiniteSet(Ids)
  BY RecorderAssumption, FS_Interval
<1>2. \A a : HeardOf(a) \subseteq Ids
  BY DEF HeardOf
<1> QED BY <1>1, <1>2, FS_Subset

LEMMA BothIs ==
  ASSUME NEW q, NEW m, Log(q), Log(m)
  PROVE  /\ DOMAIN (q \o m) = 1..(Len(q) + Len(m)) /\ Len(q) \in Nat /\ Len(m) \in Nat
         /\ DOMAIN q = 1..Len(q) /\ DOMAIN m = 1..Len(m)
         /\ \A i \in 1..Len(q) : (q \o m)[i] = q[i]
         /\ \A i \in 1..Len(m) : (q \o m)[Len(q) + i] = m[i]
<1>1. PICK S : q \in Seq(S) /\ m \in Seq(S)
  <2>1. q \in Seq(Elems(q) \cup Elems(m)) /\ m \in Seq(Elems(q) \cup Elems(m))
    BY DEF Log
  <2> QED BY <2>1
<1> QED BY <1>1

LEMMA ProducedIs ==
  ASSUME Bus, Backed
  PROVE  /\ DOMAIN Produced = 1..(Len(topics["outcomes"]) + Len(unpublished))
         /\ Len(topics["outcomes"]) \in Nat /\ Len(unpublished) \in Nat
         /\ DOMAIN topics["outcomes"] = 1..Len(topics["outcomes"])
         /\ DOMAIN unpublished = 1..Len(unpublished)
         /\ \A i \in 1..Len(topics["outcomes"]) : Produced[i] = topics["outcomes"][i]
         /\ \A i \in 1..Len(unpublished) : Produced[Len(topics["outcomes"]) + i] = unpublished[i]
<1>1. Log(topics["outcomes"]) /\ Log(unpublished)
  BY DEF Bus, Topics, Backed
<1> QED BY <1>1, BothIs DEF Produced

LEMMA TakenIs == ASSUME Bus PROVE Learned \in Nat /\ Handled \in Nat
  BY ConsumesIs DEF Bus, Counts, Learned, Handled

-----------------------------------------------------------------------------
(* What stays as it is, part by part. *)

LEMMA RowsKept == ASSUME Rows, ledger' = ledger, Produced' = Produced PROVE Rows'
<1>1. \A a : ScoredOnce(a)' = ScoredOnce(a)
  BY DEF ScoredOnce
<1> QED BY <1>1 DEF Rows, Tells

LEMMA TrustedKept ==
  ASSUME Bus, Backed, Rows, Trusted, Grow, trust' = trust, Learned' = Learned,
         \A id \in DOMAIN ledger : ledger'[id] = ledger[id],
         \A a : ScoredOnce(a)' => ScoredOnce(a)
  PROVE  Trusted'
<1>1. /\ Learned \in Nat /\ Len(topics["outcomes"]) \in Nat /\ Len(topics'["outcomes"]) \in Nat
      /\ DOMAIN topics["outcomes"] = 1..Len(topics["outcomes"])
      /\ Len(topics["outcomes"]) <= Len(topics'["outcomes"])
      /\ Learned <= Len(topics["outcomes"])
  BY TakenIs, LogIs DEF Bus, Grow, Topics, Trusted
<1>2. \A i \in 1..Learned : topics'["outcomes"][i] = topics["outcomes"][i]
  BY <1>1 DEF Grow, Topics
<1>3. \A a : HeardOf(a)' = HeardOf(a)
  BY <1>2 DEF HeardOf
<1>4. \A a : \A id \in HeardOf(a) : id \in DOMAIN ledger
  <2> SUFFICES ASSUME NEW a, NEW id \in HeardOf(a) PROVE id \in DOMAIN ledger
    OBVIOUS
  <2>1. PICK i \in 1..Learned : topics["outcomes"][i].signal = id
    BY DEF HeardOf
  <2>2. i \in DOMAIN Produced /\ Produced[i] = topics["outcomes"][i]
    BY <1>1, <2>1, ProducedIs
  <2> QED BY <2>1, <2>2 DEF Rows, Tells
<1>5. \A a : ScoresOver(HeardOf(a))' = ScoresOver(HeardOf(a))
  <2> TAKE a
  <2>1. \A id \in HeardOf(a) : ScoreOf(id)' = ScoreOf(id)
    BY <1>4 DEF ScoreOf
  <2> QED BY <1>3, <2>1 DEF ScoresOver
<1>6. \A a : WindowOf(a)' = WindowOf(a)
  BY DEF WindowOf
<1>7. ASSUME NEW a, ScoredOnce(a)' PROVE Fits(WindowOf(a), HeardOf(a))'
  <2>1. Fits(WindowOf(a), HeardOf(a))
    BY <1>7 DEF Trusted
  <2> QED BY <1>3, <1>5, <1>6, <2>1 DEF Fits
<1>8. Learned' <= Len(topics'["outcomes"])
  BY <1>1
<1> QED BY <1>7, <1>8 DEF Trusted

-----------------------------------------------------------------------------
(* The engine. *)

LEMMA TotalIs ==
  ASSUME NEW w \in Seq(Int), NEW s \in Int
  PROVE  Total(Append(w, s)) = Total(w) + s /\ Total(w) \in Int
<1> DEFINE n == Len(w)
           f == Append(w, s)
<1>1. n \in Nat /\ f \in [1..(n + 1) -> Int] /\ f[n + 1] = s
  <2>1. f \in Seq(Int) /\ Len(f) = n + 1 /\ f[n + 1] = s
    BY AppendProperties
  <2> HIDE DEF f
  <2>2. f \in [1..Len(f) -> Int]
    BY <2>1, LenProperties
  <2> QED BY <2>1, <2>2, LenProperties
<1>2. w = [i \in 1..n |-> f[i]]
  <2>1. w = [i \in 1..n |-> w[i]]
    BY LenProperties
  <2>2. \A i \in 1..n : f[i] = w[i]
    OBVIOUS
  <2> HIDE DEF f, n
  <2> QED BY <2>1, <2>2
<1>3. SumOf(f) = f[n + 1] + SumOf([i \in 1..n |-> f[i]]) /\ SumOf([i \in 1..n |-> f[i]]) \in Int
  <2> HIDE DEF f, n
  <2> QED BY <1>1, SumNext
<1>4. SumOf(f) = s + SumOf(w) /\ SumOf(w) \in Int
  <2> HIDE DEF f, n
  <2> QED BY <1>1, <1>2, <1>3
<1> QED BY <1>4 DEF Total

(* A score that is told once more of: the window slides.                   *)
LEMMA SlidFits ==
  ASSUME NEW S \in SUBSET Ids, IsFiniteSet(S), NEW id \in Ids, id \notin S, NEW w, Fits(w, S)
  PROVE  Fits(Slid(Append(w, ScoreOf(id))), S \cup {id})
<1>1. ScoreOf(id) \in Int /\ ScoreWindow \in Nat \ {0}
  BY ScoreIs, EngineAssumption
<1>2. Cardinality(S \cup {id}) = Cardinality(S) + 1 /\ Cardinality(S) \in Nat
  BY FS_AddElement, FS_CardinalityType
<1>3. SumOf(ScoresOver(S \cup {id})) = ScoreOf(id) + SumOf(ScoresOver(S))
  <2> DEFINE T == S \cup {id}
             f == ScoresOver(T)
  <2>1. IsFiniteSet(T) /\ f \in [T -> Int] /\ id \in T /\ f[id] = ScoreOf(id)
    <3>1. IsFiniteSet(T)
      BY FS_AddElement
    <3>2. \A x \in T : ScoreOf(x) \in Int
      BY ScoreIs
    <3>3. f = [x \in T |-> ScoreOf(x)]
      BY DEF ScoresOver
    <3> HIDE DEF f
    <3> QED BY <3>1, <3>2, <3>3
  <2>2. [x \in T \ {id} |-> f[x]] = ScoresOver(S)
    <3>1. T \ {id} = S
      OBVIOUS
    <3>2. \A x \in S : f[x] = ScoreOf(x)
      BY DEF ScoresOver
    <3> HIDE DEF f, T
    <3> QED BY <3>1, <3>2 DEF ScoresOver
  <2>3. SumOf(f) = f[id] + SumOf([x \in T \ {id} |-> f[x]])
    <3> HIDE DEF f, T
    <3> QED BY <2>1, SumSplit
  <2> QED BY <2>1, <2>2, <2>3
<1>4. w \in Seq(Int) /\ Len(w) \in Nat
  BY DEF Fits
<1> DEFINE v == Append(w, ScoreOf(id))
<1>5. v \in Seq(Int) /\ Len(v) = Len(w) + 1 /\ Tail(v) \in Seq(Int) /\ Len(Tail(v)) = Len(w)
  BY <1>1, <1>4
<1>6. Total(v) = Total(w) + ScoreOf(id) /\ Total(w) \in Int
  BY <1>1, <1>4, TotalIs
<1> HIDE DEF v
<1>7. CASE Cardinality(S) + 1 <= ScoreWindow
  <2>1. Len(w) = Cardinality(S) /\ Total(w) = SumOf(ScoresOver(S))
    BY <1>1, <1>2, <1>7 DEF Fits
  <2>2. Slid(v) = v
    BY <1>1, <1>2, <1>5, <1>7, <2>1 DEF Slid
  <2>3. Total(v) = SumOf(ScoresOver(S \cup {id}))
    BY <1>1, <1>3, <1>6, <2>1
  <2>4. Fits(v, S \cup {id})
    BY <1>2, <1>5, <1>7, <2>1, <2>3 DEF Fits
  <2> QED BY <2>2, <2>4 DEF v
<1>8. CASE ~(Cardinality(S) + 1 <= ScoreWindow)
  <2>1. Len(w) = ScoreWindow
    BY <1>1, <1>2, <1>8 DEF Fits
  <2>2. Slid(v) = Tail(v)
    BY <1>1, <1>4, <1>5, <2>1 DEF Slid
  <2>3. Fits(Tail(v), S \cup {id})
    BY <1>2, <1>5, <1>8, <2>1 DEF Fits
  <2> QED BY <2>2, <2>3 DEF v
<1> QED BY <1>7, <1>8

LEMMA EngineOutcomeSound ==
  ASSUME Inv, FaultFree, Rows, Trusted, EngineOutcome
  PROVE  Rows' /\ Trusted'
<1> DEFINE q == topics["outcomes"]
           n == Learned
           o == q[n + 1]
           id == o.signal
<1>1. Bus /\ Backed /\ Bus'
  BY EngineOutcomeStep DEF Inv
<1>2. /\ Take("engine", "outcomes") /\ OnOutcome(o)
      /\ UNCHANGED <<topics, ledger, unpublished, byCorrelation, decisions>>
  BY DEF EngineOutcome, recorderVars, indexes, Message, Learned
<1>3. n + 1 \in DOMAIN q /\ n \in Nat /\ Learned' = n + 1
  <2>1. "engine" \in Consumers /\ "outcomes" \in Consumes["engine"]
    BY ConsumesIs
  <2> QED BY <1>1, <1>2, <2>1, TakeIs, ConsumesIs DEF Learned
<1>4. /\ n + 1 \in DOMAIN Produced /\ Produced[n + 1] = o /\ n + 1 <= Len(q)
      /\ \A i \in 1..n : i \in DOMAIN Produced /\ Produced[i] = q[i]
  <2>1. /\ DOMAIN Produced = 1..(Len(q) + Len(unpublished)) /\ Len(q) \in Nat /\ Len(unpublished) \in Nat
        /\ DOMAIN q = 1..Len(q) /\ \A i \in 1..Len(q) : Produced[i] = q[i]
    BY <1>1, ProducedIs
  <2>2. n \in Nat /\ n + 1 \in 1..Len(q) /\ \A i \in 1..n : i \in 1..Len(q)
    <3> HIDE DEF q, n
    <3> QED BY <1>3, <2>1
  <2> HIDE DEF q, n
  <2>3. 1..Len(q) \subseteq DOMAIN Produced
    BY <2>1
  <2> QED BY <2>1, <2>2, <2>3 DEF o
<1>5. Produced' = Produced /\ \A a : ScoredOnce(a)' = ScoredOnce(a)
  BY <1>2 DEF Produced, ScoredOnce
<1>6. Rows'
  BY <1>2, <1>5, RowsKept
<1>7. id \in DOMAIN ledger /\ id \in Ids /\ o.agent = SignalLog[id].agent
  BY <1>4 DEF Rows, Tells
<1>8. PICK score : /\ score = BrierScore(o.confidence, o.correct)
                   /\ ScoredOnce(o.agent) => score = ScoreOf(id)
  BY <1>4 DEF Rows, Tells, ScoreOf
<1>9. ScoredOnce(o.agent) => \A a : id \notin HeardOf(a)
  <2> SUFFICES ASSUME ScoredOnce(o.agent), NEW i \in 1..n, q[i].signal = id PROVE FALSE
    BY DEF HeardOf
  <2>1. n + 1 = i
    BY <1>4 DEF ScoredOnce
  <2> QED BY <1>3, <2>1
<1>10. \A a : HeardOf(a)' = IF a = o.agent THEN HeardOf(a) \cup {id} ELSE HeardOf(a)
  <2> TAKE a
  <2>1. topics' = topics /\ Learned' = n + 1 /\ 1..(n + 1) = (1..n) \cup {n + 1}
    BY <1>2, <1>3
  <2>2. \A x : x \in HeardOf(a)' <=> /\ x \in Ids /\ SignalLog[x].agent = a
                                     /\ (\E i \in 1..n : q[i].signal = x) \/ x = id
    BY <2>1 DEF HeardOf
  <2>3. \A x : x \in HeardOf(a) <=> /\ x \in Ids /\ SignalLog[x].agent = a
                                    /\ \E i \in 1..n : q[i].signal = x
    BY DEF HeardOf
  <2> HIDE DEF q, n, o, id
  <2> QED BY <1>7, <2>2, <2>3
<1>11. \A a : WindowOf(a)' = IF a = o.agent THEN Slid(Append(WindowOf(a), score)) ELSE WindowOf(a)
  <2>1. trust' = Stored(trust, o.agent, Slid(Append(WindowOf(o.agent), score)))
    BY <1>2, <1>8 DEF OnOutcome
  <2> HIDE DEF o, id
  <2>2. /\ DOMAIN trust' = DOMAIN trust \cup {o.agent}
        /\ trust'[o.agent] = Slid(Append(WindowOf(o.agent), score))
        /\ \A a \in DOMAIN trust : a # o.agent => trust'[a] = trust[a]
    BY <2>1 DEF Stored
  <2> QED BY <2>2 DEF WindowOf
<1> HIDE DEF q, n, o, id
<1>12. ASSUME NEW a, ScoredOnce(a)' PROVE Fits(WindowOf(a), HeardOf(a))'
  <2>1. /\ ScoredOnce(a) /\ Fits(WindowOf(a), HeardOf(a))
        /\ HeardOf(a) \subseteq Ids /\ IsFiniteSet(HeardOf(a))
    BY <1>5, <1>12, HeardIs DEF Trusted
  <2>2. CASE a = o.agent
    <3>1. score = ScoreOf(id) /\ id \notin HeardOf(a)
      BY <1>8, <1>9, <2>1, <2>2
    <3>2. Fits(Slid(Append(WindowOf(a), score)), HeardOf(a) \cup {id})
      BY <1>7, <2>1, <3>1, SlidFits
    <3>3. /\ WindowOf(a)' = Slid(Append(WindowOf(a), score))
          /\ HeardOf(a)' = HeardOf(a) \cup {id}
      BY <1>10, <1>11, <2>2
    <3>4. ScoresOver(HeardOf(a))' = ScoresOver(HeardOf(a) \cup {id})
      BY <1>2, <3>3 DEF ScoresOver, ScoreOf
    <3> QED BY <3>2, <3>3, <3>4 DEF Fits
  <2>3. CASE a # o.agent
    <3>1. WindowOf(a)' = WindowOf(a) /\ HeardOf(a)' = HeardOf(a)
      BY <1>10, <1>11, <2>3
    <3>2. ScoresOver(HeardOf(a))' = ScoresOver(HeardOf(a))
      BY <1>2, <3>1 DEF ScoresOver, ScoreOf
    <3> QED BY <2>1, <3>1, <3>2 DEF Fits
  <2> QED BY <2>2, <2>3
<1>13. Learned' <= Len(topics'["outcomes"])
  BY <1>2, <1>3, <1>4 DEF q
<1> QED BY <1>6, <1>12, <1>13 DEF Trusted

LEMMA EngineSignalSees ==
  ASSUME Inv, EngineSignal
  PROVE  /\ Grow /\ topics'["outcomes"] = topics["outcomes"] /\ Learned' = Learned
         /\ UNCHANGED <<ledger, unpublished, trust>>
<1>1. Bus
  BY DEF Inv
<1>2. Learned' = Learned
  <2>1. Take("engine", "signals") /\ "engine" \in Consumers /\ "signals" \in Consumes["engine"]
    BY ConsumesIs DEF EngineSignal
  <2> QED BY <1>1, <2>1, TakeIs, ConsumesIs DEF Learned
<1>3. PICK id : /\ Publish("decisions", DecisionsFor(id, SignalLog[id], now))
                /\ UNCHANGED <<trust, ledger, unpublished>>
  BY DEF EngineSignal, OnSignal, recorderVars
<1>4. PICK msgs : msgs = DecisionsFor(id, SignalLog[id], now)
  OBVIOUS
<1>5. Log(msgs)
  BY <1>4, EmptyIs, OneIs DEF DecisionsFor
<1>6. Grow /\ \A u \in Topics \ {"decisions"} : topics'[u] = topics[u]
  BY <1>1, <1>3, <1>4, <1>5, PublishIs DEF Topics
<1> QED BY <1>2, <1>3, <1>6 DEF Topics

-----------------------------------------------------------------------------
(* The recorder. *)

LEMMA RecorderPublishSound ==
  ASSUME Inv, Rows, Trusted, RecorderPublish
  PROVE  Rows' /\ Trusted'
<1> DEFINE q == topics["outcomes"]
<1>1. Bus /\ Backed /\ Bus'
  BY RecorderPublishStep DEF Inv
<1>2. PICK o : o = Head(unpublished)
  OBVIOUS
<1>3. /\ unpublished # << >> /\ Publish("outcomes", <<o>>) /\ unpublished' = Tail(unpublished)
      /\ UNCHANGED <<ledger, taken, trust>>
  BY <1>2 DEF RecorderPublish, engineVars
<1>4. /\ Grow /\ topics'["outcomes"] = q \o <<o>>
      /\ \A u \in Topics \ {"outcomes"} : topics'[u] = topics[u]
  BY <1>1, <1>3, OneIs, PublishIs DEF Topics
<1>5. Learned' = Learned
  BY <1>3 DEF Learned
<1>6. Produced' = Produced
  <2>1. Log(q) /\ Log(unpublished)
    BY <1>1 DEF Bus, Topics, Backed
  <2>2. \A r, u : Log(r) /\ Log(u) /\ u # << >> => (r \o <<Head(u)>>) \o Tail(u) = r \o u
    <3> SUFFICES ASSUME NEW r, NEW u, Log(r), Log(u), u # << >>
                 PROVE  (r \o <<Head(u)>>) \o Tail(u) = r \o u
      OBVIOUS
    <3>1. PICK S : r \in Seq(S) /\ u \in Seq(S)
      <4>1. r \in Seq(Elems(r) \cup Elems(u)) /\ u \in Seq(Elems(r) \cup Elems(u))
        BY DEF Log
      <4> QED BY <4>1
    <3> QED BY <3>1
  <2> QED BY <1>2, <1>3, <1>4, <2>1, <2>2 DEF Produced
<1>7. Rows'
  BY <1>3, <1>6, RowsKept
<1>8. Trusted'
  <2>1. \A a : ScoredOnce(a)' => ScoredOnce(a)
    BY <1>6 DEF ScoredOnce
  <2> QED BY <1>1, <1>3, <1>4, <1>5, <2>1, TrustedKept
<1> QED BY <1>7, <1>8

LEMMA RecorderClosureSound ==
  ASSUME Inv, FaultFree, FaultFree', Rows, Trusted, RecorderClosure
  PROVE  Rows' /\ Trusted'
<1> DEFINE q == topics["closures"]
           n == Handled
           k == q[n + 1]
           S == Scored(k.corr)
<1>1. Bus /\ Backed /\ Causes /\ Indexing /\ Bus' /\ Backed'
  BY RecorderClosureStep DEF Inv
<1>2. /\ Take("recorder", "closures") /\ Attribute(k) /\ UNCHANGED <<topics, trust>>
      /\ unpublished = << >>
  BY DEF RecorderClosure, RecorderIdle, Message, Handled, engineVars
<1>3. Learned' = Learned
  <2>1. "recorder" \in Consumers /\ "closures" \in Consumes["recorder"]
    BY ConsumesIs
  <2> QED BY <1>1, <1>2, <2>1, TakeIs, ConsumesIs DEF Learned
<1>4. ledger' = Ledgered(S, k.profitable) /\ unpublished' = Outcomes(S, k)
  <2>1. dbFailures' = 0 /\ dbFailures = 0
    BY DEF FaultFree
  <2>2. ~RaiseDb
    BY <2>1 DEF RaiseDb
  <2> QED BY <1>2, <2>2 DEF Attribute
<1>5. S \in SUBSET Nat /\ IsFiniteSet(S) /\ S \subseteq Sharers(k.corr) /\ S \subseteq Ids
  BY <1>1, ScoredAre DEF Sharers
<1>8. /\ DOMAIN ledger' = DOMAIN ledger \cup S
      /\ \A id \in DOMAIN ledger : ledger'[id] = ledger[id]
      /\ \A id \in S \ DOMAIN ledger : ledger'[id] = k.profitable
  <2> HIDE DEF S, k
  <2> QED BY <1>4 DEF Ledgered, FaultFree
<1>9. Grow
  BY <1>1, <1>2, SameGrow
<1> DEFINE m == Len(topics["outcomes"])
           c == Cardinality(S)
<1>12. /\ DOMAIN Produced = 1..m /\ m \in Nat /\ c \in Nat /\ DOMAIN Produced' = 1..(m + c)
       /\ \A i \in 1..m : Produced'[i] = Produced[i]
       /\ \A i \in 1..c : Produced'[m + i] = OutcomeOf(Nth(S, i), k)
  <2> HIDE DEF S, k
  <2>1. c \in Nat /\ Len(unpublished) = 0
    BY <1>2, <1>5, EmptyIs, FS_CardinalityType
  <2>2. /\ DOMAIN Produced = 1..(m + Len(unpublished)) /\ m \in Nat
        /\ \A i \in 1..m : Produced[i] = topics["outcomes"][i]
    BY <1>1, ProducedIs
  <2>3. /\ DOMAIN Produced' = 1..(m + Len(unpublished')) /\ DOMAIN unpublished' = 1..Len(unpublished')
        /\ \A i \in 1..m : Produced'[i] = topics["outcomes"][i]
        /\ \A i \in 1..Len(unpublished') : Produced'[m + i] = unpublished'[i]
        /\ Len(unpublished') \in Nat
    <3>1. \A r, u : Log(r) /\ Log(u) =>
            /\ DOMAIN (r \o u) = 1..(Len(r) + Len(u)) /\ DOMAIN u = 1..Len(u) /\ Len(u) \in Nat
            /\ \A i \in 1..Len(r) : (r \o u)[i] = r[i]
            /\ \A i \in 1..Len(u) : (r \o u)[Len(r) + i] = u[i]
      BY BothIs
    <3>2. Log(topics["outcomes"]) /\ Log(unpublished')
      BY <1>1 DEF Bus, Topics, Backed, Log, Elems
    <3>3. Produced' = topics["outcomes"] \o unpublished'
      BY <1>2 DEF Produced
    <3> QED BY <3>1, <3>2, <3>3
  <2>4. DOMAIN unpublished' = 1..c /\ \A i \in 1..c : unpublished'[i] = OutcomeOf(Nth(S, i), k)
    BY <1>4 DEF Outcomes
  <2>5. Len(unpublished') = c
    BY <2>1, <2>3, <2>4
  <2>6. DOMAIN Produced = 1..m /\ m \in Nat
    <3>1. m + 0 = m
      BY <2>2
    <3> QED BY <2>1, <2>2, <3>1
  <2>7. \A i \in 1..m : Produced'[i] = Produced[i]
    BY <2>2, <2>3
  <2>8. DOMAIN Produced' = 1..(m + c) /\ \A i \in 1..c : Produced'[m + i] = OutcomeOf(Nth(S, i), k)
    <3> HIDE DEF m, c
    <3> QED BY <2>3, <2>4, <2>5
  <2> QED BY <2>1, <2>6, <2>7, <2>8
<1>13. \A i \in 1..c : Nth(S, i) \in S
  <2> HIDE DEF S
  <2> QED BY <1>5, NthIs
<1>14. \A i \in 1..(m + c) : i \in 1..m \/ (i - m \in 1..c /\ i = m + (i - m) /\ i \notin 1..m)
  <2> HIDE DEF m, c
  <2> QED BY <1>12
<1>15. \A i \in 1..(m + c) :
         \/ i \in 1..m /\ Produced'[i] = Produced[i]
         \/ i - m \in 1..c /\ Produced'[i] = OutcomeOf(Nth(S, i - m), k)
  <2> HIDE DEF m, c, S, k
  <2> QED BY <1>12, <1>14
<1>16. \A i \in 1..c : /\ OutcomeOf(Nth(S, i), k).signal = Nth(S, i)
                       /\ OutcomeOf(Nth(S, i), k).agent = SignalLog[Nth(S, i)].agent
                       /\ OutcomeOf(Nth(S, i), k).confidence = SignalLog[Nth(S, i)].confidence
                       /\ OutcomeOf(Nth(S, i), k).correct = k.profitable
  BY DEF OutcomeOf
<1> HIDE DEF m, c, S, k, q, n
<1>17. \A i \in DOMAIN Produced' : Tells(Produced'[i], ledger')
  <2> SUFFICES ASSUME NEW i \in 1..(m + c) PROVE Tells(Produced'[i], ledger')
    BY <1>12
  <2>1. CASE i \in 1..m /\ Produced'[i] = Produced[i]
    <3>1. Tells(Produced[i], ledger)
      BY <1>12, <2>1 DEF Rows
    <3> QED BY <1>8, <2>1, <3>1 DEF Tells
  <2>2. CASE i - m \in 1..c /\ Produced'[i] = OutcomeOf(Nth(S, i - m), k)
    BY <1>8, <1>13, <1>16, <2>2 DEF Tells
  <2> QED BY <1>15, <2>1, <2>2
<1>18. 1..m \subseteq 1..(m + c)
  BY <1>12
<1>19. \A a : ScoredOnce(a)' => ScoredOnce(a)
  <2> SUFFICES ASSUME NEW a, ScoredOnce(a)' PROVE ScoredOnce(a)
    OBVIOUS
  <2> QED BY <1>12, <1>18 DEF ScoredOnce
<1>20. Trusted'
  BY <1>1, <1>2, <1>3, <1>8, <1>9, <1>19, TrustedKept
(* A signal that has its row already has an outcome before this one.       *)
<1>21. ASSUME NEW a, ScoredOnce(a)', NEW i \in DOMAIN Produced', Produced'[i].agent = a
       PROVE  Produced'[i].correct = ledger'[Produced'[i].signal]
  <2>1. CASE i \in 1..m /\ Produced'[i] = Produced[i]
    <3>1. ScoredOnce(a) /\ Produced[i].agent = a
      BY <1>19, <1>21, <2>1
    <3>2. Produced[i].correct = ledger[Produced[i].signal] /\ Produced[i].signal \in DOMAIN ledger
      BY <1>12, <2>1, <3>1 DEF Rows, Tells
    <3> QED BY <1>8, <2>1, <3>2
  <2>2. CASE i \notin 1..m /\ i - m \in 1..c /\ Produced'[i] = OutcomeOf(Nth(S, i - m), k)
    <3>1. PICK id : id = Nth(S, i - m) /\ id \in S
      BY <1>13, <2>2
    <3>2. Produced'[i].signal = id /\ Produced'[i].correct = k.profitable
      BY <1>16, <2>2, <3>1
    <3>3. id \notin DOMAIN ledger
      <4> SUFFICES ASSUME id \in DOMAIN ledger PROVE FALSE
        OBVIOUS
      <4>1. PICK j \in 1..m : Produced[j].signal = id
        BY <1>12 DEF Rows
      <4>2. j \in DOMAIN Produced' /\ Produced'[j].signal = Produced'[i].signal
        BY <1>12, <1>18, <3>2, <4>1
      <4>3. i = j
        BY <1>21, <4>2 DEF ScoredOnce
      <4> QED BY <2>2, <4>3
    <3> QED BY <1>8, <3>1, <3>2, <3>3
  <2>3. i \in 1..(m + c)
    BY <1>12
  <2> QED BY <1>12, <1>14, <1>15, <2>1, <2>2, <2>3
<1>22. ASSUME NEW id \in DOMAIN ledger' PROVE \E i \in DOMAIN Produced' : Produced'[i].signal = id
  <2>1. CASE id \in DOMAIN ledger
    <3>1. \E i \in 1..m : Produced[i].signal = id
      BY <1>12, <2>1 DEF Rows
    <3> QED BY <1>12, <1>18, <3>1
  <2>2. CASE id \in S
    <3>1. PICK x \in 1..c : Nth(S, x) = id
      BY <1>5, <2>2, NthIs DEF c
    <3>2. Produced'[m + x].signal = id /\ m + x \in 1..(m + c)
      BY <1>12, <1>16, <3>1
    <3> QED BY <1>12, <3>2
  <2> QED BY <1>8, <2>1, <2>2
<1>23. DOMAIN ledger' \subseteq Ids
  BY <1>5, <1>8 DEF Rows
<1>24. Rows'
  BY <1>17, <1>21, <1>22, <1>23 DEF Rows
<1> QED BY <1>20, <1>24

-----------------------------------------------------------------------------
(* The steps, and the whole. *)

LEMMA SoundInit == Init => Sound
<1> SUFFICES ASSUME Init PROVE Rows /\ Trusted
  BY DEF Sound
<1>1. Bus /\ Backed
  BY InvInit DEF Inv
<1>2. /\ DOMAIN topics = Topics /\ \A t \in Topics : topics[t] = << >>
      /\ DOMAIN ledger = {} /\ unpublished = << >> /\ trust = << >>
      /\ Learned = 0
  BY ConsumesIs DEF Init, NoRowsYet, EngineStarts, Nothing, Topics, Learned
<1>3. DOMAIN << >> = {} /\ Len(<< >>) = 0 /\ << >> \in Seq(Int)
  OBVIOUS
<1>4. Rows
  <2>1. DOMAIN Produced = 1..0
    BY <1>1, <1>2, <1>3, ProducedIs DEF Topics
  <2>2. 1..0 = {}
    OBVIOUS
  <2> QED BY <1>2, <2>1, <2>2 DEF Rows
<1>5. Trusted
  <2>1. Learned <= Len(topics["outcomes"])
    BY <1>2, <1>3 DEF Topics
  <2>2. \A a : HeardOf(a) = {}
    <3>1. 1..0 = {}
      OBVIOUS
    <3> QED BY <1>2, <3>1 DEF HeardOf
  <2>3. \A a : WindowOf(a) = << >>
    BY <1>2, <1>3 DEF WindowOf
  <2>4. Total(<< >>) = 0
    <3> DEFINE e == [x \in {} |-> 0]
    <3>1. << >> = e
      OBVIOUS
    <3>2. DOMAIN e = {} /\ e = [x \in {} |-> e[x]]
      OBVIOUS
    <3>3. SumOf(e) = 0
      <4> HIDE DEF e
      <4> QED BY <3>2, SumNone
    <3> QED BY <3>1, <3>3 DEF Total
  <2>5. SumOf(ScoresOver({})) = 0
    <3>1. DOMAIN ScoresOver({}) = {} /\ ScoresOver({}) = [x \in {} |-> ScoresOver({})[x]]
      BY DEF ScoresOver
    <3> QED BY <3>1, SumNone
  <2>6. Fits(<< >>, {})
    BY <1>3, <2>4, <2>5, FS_EmptySet, EngineAssumption DEF Fits
  <2> QED BY <2>1, <2>2, <2>3, <2>6 DEF Trusted
<1> QED BY <1>4, <1>5

(* A step that neither the engine nor the ledger sees. *)
LEMMA UnseenSound ==
  ASSUME Inv, Rows, Trusted, Grow, topics'["outcomes"] = topics["outcomes"],
         UNCHANGED <<ledger, unpublished, trust>>, Learned' = Learned
  PROVE  Rows' /\ Trusted'
<1>1. Bus /\ Backed
  BY DEF Inv
<1>2. Produced' = Produced /\ \A a : ScoredOnce(a)' = ScoredOnce(a)
  BY DEF Produced, ScoredOnce
<1>3. Rows'
  BY <1>2, RowsKept
<1>4. Trusted'
  BY <1>1, <1>2, TrustedKept
<1> QED BY <1>3, <1>4

LEMMA RecorderTakes ==
  ASSUME Bus, NEW t \in {"signals", "decisions"}, Take("recorder", t)
  PROVE  Learned' = Learned
<1>1. "recorder" \in Consumers /\ t \in Consumes["recorder"]
  BY ConsumesIs
<1> QED BY <1>1, TakeIs, ConsumesIs DEF Learned

LEMMA SoundNext == Inv /\ Inv' /\ Sound /\ [Next]_vars => Sound'
<1> SUFFICES ASSUME Inv, Inv', Sound, [Next]_vars, FaultFree'
             PROVE  Rows' /\ Trusted'
  BY DEF Sound
<1>1. /\ Bus /\ dbFailures \in Nat /\ crashes \in Nat /\ dbFailures' = 0 /\ crashes' = 0
      /\ connected'
  BY DEF Inv, Bus, FaultFree
<1>2. dbFailures' = dbFailures \/ dbFailures' = dbFailures + 1
  BY DEF Next, vars, recorderVars, Signal, EngineSignal, EngineOutcome, Close, RecorderSignal, RecorderDecision,
         RecorderClosure, RecorderPublish, Clock, Crash, IndexSignal, IndexDecision, Attribute, RaiseDb,
         RecorderRestarts
<1>3. /\ crashes' = crashes /\ \A c \in Consumers : ~Crash(c)
      /\ connected' = connected
  <2>1. \A c \in Consumers : ~Crash(c)
    BY <1>1 DEF Crash
  <2>2. crashes' = crashes
    BY <2>1 DEF Next, vars, Signal, EngineSignal, EngineOutcome, Close, RecorderSignal, RecorderDecision,
              RecorderClosure, RecorderPublish, Clock
  <2>3. connected' = connected
    BY <2>1 DEF Next, vars, recorderVars, Signal, EngineSignal, EngineOutcome, Close, RecorderSignal,
              RecorderDecision, RecorderClosure, RecorderPublish, Clock, IndexSignal, IndexDecision, Attribute
  <2> QED BY <2>1, <2>2, <2>3
<1>4. FaultFree /\ Rows /\ Trusted
  BY <1>1, <1>2, <1>3 DEF FaultFree, Sound
<1>5. CASE Signal
  <2>1. UNCHANGED <<ledger, unpublished, trust, taken>>
    BY <1>5 DEF Signal, engineVars, recorderVars
  <2>2. PICK m : Publish("signals", <<m>>)
    BY <1>5 DEF Signal
  <2>3. Grow /\ \A u \in Topics \ {"signals"} : topics'[u] = topics[u]
    BY <1>1, <2>2, OneIs, PublishIs DEF Topics
  <2> QED BY <1>4, <2>1, <2>3, UnseenSound DEF Topics, Learned
<1>6. CASE EngineSignal
  BY <1>4, <1>6, EngineSignalSees, UnseenSound
<1>7. CASE EngineOutcome
  BY <1>4, <1>7, EngineOutcomeSound
<1>8. ASSUME NEW d \in DOMAIN topics["decisions"], Close(d) PROVE Rows' /\ Trusted'
  <2>1. UNCHANGED <<ledger, unpublished, trust, taken>>
    BY <1>8 DEF Close, engineVars, recorderVars
  <2>2. PICK m : Publish("closures", <<m>>)
    BY <1>8 DEF Close
  <2>3. Grow /\ \A u \in Topics \ {"closures"} : topics'[u] = topics[u]
    BY <1>1, <2>2, OneIs, PublishIs DEF Topics
  <2> QED BY <1>4, <2>1, <2>3, UnseenSound DEF Topics, Learned
<1>9. CASE RecorderSignal
  <2>1. Take("recorder", "signals") /\ UNCHANGED <<ledger, unpublished, trust, topics>>
    BY <1>9 DEF RecorderSignal, IndexSignal, engineVars
  <2> QED BY <1>1, <1>4, <2>1, RecorderTakes, SameGrow, UnseenSound
<1>10. CASE RecorderDecision
  <2>1. Take("recorder", "decisions") /\ UNCHANGED <<ledger, unpublished, trust, topics>>
    BY <1>10 DEF RecorderDecision, IndexDecision, engineVars
  <2> QED BY <1>1, <1>4, <2>1, RecorderTakes, SameGrow, UnseenSound
<1>11. CASE RecorderClosure
  BY <1>4, <1>11, RecorderClosureSound
<1>12. CASE RecorderPublish
  BY <1>4, <1>12, RecorderPublishSound
<1>13. CASE Clock \/ UNCHANGED vars
  <2>1. UNCHANGED <<ledger, unpublished, trust, topics, taken>>
    BY <1>13 DEF Clock, vars, engineVars, recorderVars, busVars
  <2> QED BY <1>1, <1>4, <2>1, SameGrow, UnseenSound DEF Learned
<1> QED BY <1>3, <1>5, <1>6, <1>7, <1>8, <1>9, <1>10, <1>11, <1>12, <1>13 DEF Next

(* Without faults, and with nothing under way, the trust the engine keeps  *)
(* in memory (TrustRegistry) is that of the rows in agent_performance, for *)
(* an agent none of whose signals was scored twice: with no more rows than *)
(* the window holds, the scores add up to those of its rows; with more,    *)
(* the window is full.  In whatever order the messages of the topics came, *)
(* however many closures a decision has, and whatever other agents' were   *)
(* scored by: not only where that of cause and effect was kept.            *)
THEOREM TrustIsOfTheLedger == Spec => []TrustMatchesLedger
<1>1. Inv /\ Sound => TrustMatchesLedger
  <2> SUFFICES ASSUME Inv, Sound, FaultFree, Quiet, NEW a, ScoredOnce(a)
               PROVE  LET scores == [id \in RowsOf(a) |-> BrierScore(SignalLog[id].confidence, ledger[id])]
                      IN  IF Cardinality(RowsOf(a)) <= ScoreWindow
                          THEN Len(WindowOf(a)) = Cardinality(RowsOf(a)) /\ Total(WindowOf(a)) = Total(scores)
                          ELSE Len(WindowOf(a)) = ScoreWindow
    BY DEF TrustMatchesLedger
  <2>1. Bus /\ Backed /\ Rows /\ Trusted
    BY DEF Inv, Sound
  <2>2. /\ DOMAIN Produced = 1..Learned /\ \A i \in 1..Learned : Produced[i] = topics["outcomes"][i]
    <3>1. unpublished = << >> /\ ~Waiting("engine", "outcomes")
      BY ConsumesIs DEF Quiet
    <3>2. Learned = Len(topics["outcomes"])
      BY <2>1, <3>1, ProducedIs, TakenIs DEF Waiting, Trusted, Learned
    <3>3. Len(unpublished) = 0
      BY <3>1, EmptyIs
    <3>4. Learned + 0 = Learned
      BY <2>1, TakenIs
    <3> QED BY <2>1, <3>2, <3>3, <3>4, ProducedIs
  <2>3. HeardOf(a) = RowsOf(a)
    <3>1. ASSUME NEW id \in HeardOf(a) PROVE id \in RowsOf(a)
      <4>1. PICK i \in 1..Learned : topics["outcomes"][i].signal = id
        BY <3>1 DEF HeardOf
      <4>2. id \in DOMAIN ledger
        BY <2>1, <2>2, <4>1 DEF Rows, Tells
      <4> QED BY <3>1, <4>2 DEF HeardOf, RowsOf
    <3>2. ASSUME NEW id \in RowsOf(a) PROVE id \in HeardOf(a)
      <4>1. id \in DOMAIN ledger /\ id \in Ids /\ SignalLog[id].agent = a
        BY <2>1, <3>2 DEF RowsOf, Rows
      <4>2. PICK i \in DOMAIN Produced : Produced[i].signal = id
        BY <2>1, <4>1 DEF Rows
      <4>3. i \in 1..Learned /\ topics["outcomes"][i].signal = id
        BY <2>2, <4>2
      <4> QED BY <4>1, <4>3 DEF HeardOf
    <3> QED BY <3>1, <3>2
  <2>4. ScoresOver(RowsOf(a)) = [id \in RowsOf(a) |-> BrierScore(SignalLog[id].confidence, ledger[id])]
    BY DEF ScoresOver, ScoreOf
  <2>5. Fits(WindowOf(a), RowsOf(a))
    BY <2>1, <2>3 DEF Trusted
  <2> QED BY <2>4, <2>5 DEF Fits, Total
<1>2. Init => Sound
  BY SoundInit
<1>3. Inv /\ Inv' /\ Sound /\ [Next]_vars => Sound'
  BY SoundNext
<1> QED BY <1>1, <1>2, <1>3, Invariance, PTL DEF Spec

-----------------------------------------------------------------------------
(* The weight of an agent and its track record. *)

Adapting ==
  /\ \A o \in Made : o.confidence \in Int
  /\ \A a : WindowOf(a) \in Seq(Int) /\ Len(WindowOf(a)) <= ScoreWindow

LEMMA TotalOfTail ==
  ASSUME NEW q \in Seq(Int), Len(q) # 0
  PROVE  Total(Tail(q)) = Total(q) - q[1] /\ Total(q) \in Int /\ q[1] \in Int
<1> DEFINE g == Tail(q)
<1>1. PICK n \in Nat : n + 1 = Len(q)
  <2>1. Len(q) \in Nat /\ Len(q) - 1 \in Nat /\ (Len(q) - 1) + 1 = Len(q)
    OBVIOUS
  <2> QED BY <2>1
<1>2. q \in [1..(n + 1) -> Int]
  BY <1>1, LenProperties
<1>3. g \in [1..n -> Int] /\ \A i \in 1..n : g[i] = q[i + 1]
  <2>1. g \in Seq(Int) /\ Len(g) = n
    BY <1>1
  <2>2. \A i \in 1..n : g[i] = q[i + 1]
    BY <1>1
  <2> HIDE DEF g
  <2> QED BY <2>1, <2>2, LenProperties
<1> HIDE DEF g
<1>4. n + 1 \in Nat /\ \A k \in 0..n : Prefix(q, k + 1) = q[k + 1] + Prefix(q, k) /\ Prefix(q, k) \in Int /\ q[k + 1] \in Int
  <2> SUFFICES ASSUME NEW k \in 0..n
               PROVE  Prefix(q, k + 1) = q[k + 1] + Prefix(q, k) /\ Prefix(q, k) \in Int /\ q[k + 1] \in Int
    OBVIOUS
  <2>1. n + 1 \in Nat /\ k \in 0..((n + 1) - 1)
    OBVIOUS
  <2> QED BY <1>2, <2>1, PrefixNext
<1> DEFINE X == {k \in 0..n : Prefix(g, k) = Prefix(q, k + 1) - q[1]}
<1>5. 0 \in X
  <2>1. Prefix(g, 0) = 0 /\ Prefix(q, 0) = 0
    BY PrefixNone
  <2>2. Prefix(q, 0 + 1) = q[0 + 1] + Prefix(q, 0) /\ q[0 + 1] \in Int
    BY <1>4
  <2>3. 0 + 1 = 1
    OBVIOUS
  <2>4. Prefix(q, 1) = q[1] /\ q[1] \in Int
    BY <2>1, <2>2, <2>3
  <2>5. Prefix(g, 0) = Prefix(q, 0 + 1) - q[1]
    BY <2>1, <2>3, <2>4
  <2> QED BY <2>5
<1>6. ASSUME NEW k \in 0..(n - 1), k \in X PROVE k + 1 \in X
  <2>1. k \in 0..n /\ k + 1 \in 0..n /\ k + 1 \in 1..n
    OBVIOUS
  <2>2. Prefix(g, k + 1) = g[k + 1] + Prefix(g, k) /\ g[k + 1] = q[(k + 1) + 1]
    BY <1>3, <2>1, PrefixNext
  <2>3. /\ Prefix(q, (k + 1) + 1) = q[(k + 1) + 1] + Prefix(q, k + 1)
        /\ Prefix(q, k + 1) \in Int /\ q[(k + 1) + 1] \in Int
    BY <1>4, <2>1
  <2>4. q[1] \in Int
    <3>1. 0 \in 0..n /\ 0 + 1 = 1
      OBVIOUS
    <3> QED BY <1>4, <3>1
  <2>5. Prefix(g, k) = Prefix(q, k + 1) - q[1]
    BY <1>6
  <2>6. Prefix(g, k + 1) = Prefix(q, (k + 1) + 1) - q[1]
    BY <2>2, <2>3, <2>4, <2>5
  <2> QED BY <2>1, <2>6
<1>7. n \in X
  <2>1. 0..n \subseteq X
    <3> HIDE DEF X
    <3> QED BY <1>5, <1>6, Upwards
  <2> HIDE DEF X
  <2> QED BY <2>1
<1>8. Prefix(g, n) = SumOf(g) /\ Prefix(q, n + 1) = SumOf(q)
  BY <1>2, <1>3, PrefixAll
<1>9. Prefix(q, n + 1) \in Int /\ q[1] \in Int
  <2>1. n \in 0..n /\ 0 \in 0..n /\ 0 + 1 = 1
    OBVIOUS
  <2>2. q[1] \in Int
    BY <1>4, <2>1
  <2>3. Prefix(q, n + 1) = q[n + 1] + Prefix(q, n) /\ q[n + 1] \in Int /\ Prefix(q, n) \in Int
    BY <1>4, <2>1
  <2> QED BY <2>2, <2>3
<1>10. SumOf(g) = SumOf(q) - q[1]
  BY <1>7, <1>8
<1> QED BY <1>8, <1>9, <1>10 DEF Total, g

LEMMA Quotients ==
  ASSUME NEW a \in Int, NEW b \in Nat \ {0}, NEW c \in Int, NEW d \in Nat \ {0}, a * d <= c * b
  PROVE  a \div b <= c \div d /\ a \div b \in Int /\ c \div d \in Int
<1>1. PICK q \in Int, r \in 0..(b - 1) : a \div b = q /\ a = q * b + r
  <2>1. a \div b \in Int /\ a % b \in 0..(b - 1) /\ a = (a \div b) * b + (a % b)
    OBVIOUS
  <2> QED BY <2>1
<1>2. PICK p \in Int, s \in 0..(d - 1) : c \div d = p /\ c = p * d + s
  <2>1. c \div d \in Int /\ c % d \in 0..(d - 1) /\ c = (c \div d) * d + (c % d)
    OBVIOUS
  <2> QED BY <2>1
<1>3. (q * b + r) * d <= (p * d + s) * b
  BY <1>1, <1>2
<1>4. q <= p
  <2> SUFFICES ASSUME p + 1 <= q PROVE FALSE
    OBVIOUS
  <2>1. (p + 1) * (b * d) <= q * (b * d)
    <3>1. \A x, y \in Int, z \in Nat : x <= y => x * z <= y * z
      OBVIOUS
    <3>2. b * d \in Nat
      OBVIOUS
    <3> QED BY <3>1, <3>2
  <2>2. s * b <= (d - 1) * b /\ 0 <= r * d
    OBVIOUS
  <2>3. /\ (q * b + r) * d = q * (b * d) + r * d
        /\ (p * d + s) * b = p * (b * d) + s * b
        /\ (p + 1) * (b * d) = p * (b * d) + d * b
        /\ (d - 1) * b = d * b - b
    OBVIOUS
  <2>4. PICK u \in Int, v \in Int, w \in Int, x \in Int, y \in Int :
          u = q * (b * d) /\ v = p * (b * d) /\ w = r * d /\ x = s * b /\ y = d * b
    OBVIOUS
  <2>5. u + w <= v + x /\ v + y <= u /\ x <= y - b /\ 0 <= w
    BY <1>3, <2>1, <2>2, <2>3, <2>4
  <2> QED BY <2>5
<1> QED BY <1>1, <1>2, <1>4

(* The weight of n scores that add up to t. *)
WeightOf(n, t) == Clamped((DefaultWeight * (2 * CoinFlip * n - t)) \div (CoinFlip * n))

LEMMA WeightIs == ASSUME NEW n \in Nat \ {0}, NEW t \in Int PROVE WeightOf(n, t) \in Int
<1>1. CoinFlip * n \in Nat \ {0} /\ DefaultWeight * (2 * CoinFlip * n - t) \in Int
  <2>1. \A x, y \in Int : x * y \in Int
    OBVIOUS
  <2>2. CoinFlip * n \in Nat \ {0} /\ 2 * CoinFlip * n - t \in Int /\ DefaultWeight \in Int
    BY EngineAssumption DEF CoinFlip
  <2> QED BY <2>1, <2>2
<1>2. \A x \in Int : \A y \in Nat \ {0} : x \div y \in Int
  OBVIOUS
<1>3. \A x \in Int : Clamped(x) \in Int
  BY EngineAssumption DEF Clamped
<1> QED BY <1>1, <1>2, <1>3 DEF WeightOf

LEMMA Heavier ==
  ASSUME NEW n \in Nat \ {0}, NEW m \in Nat \ {0}, NEW s \in Int, NEW t \in Int, s * n <= t * m
  PROVE  WeightOf(n, t) <= WeightOf(m, s)
<1>1. PICK D \in Nat : D = DefaultWeight
  BY EngineAssumption
<1>2. PICK C \in Nat \ {0} : C = CoinFlip
  BY DEF CoinFlip
<1> DEFINE a == D * (2 * C * n - t)
           b == C * n
           c == D * (2 * C * m - s)
           d == C * m
<1>3. a \in Int /\ b \in Nat \ {0} /\ c \in Int /\ d \in Nat \ {0}
  <2>1. \A x, y \in Nat \ {0} : x * y \in Nat \ {0}
    OBVIOUS
  <2>2. \A x, y \in Int : x * y \in Int
    OBVIOUS
  <2> QED BY <2>1, <2>2
<1>4. a * d <= c * b
  <2>1. a * d = (D * C) * ((2 * C) * (n * m) - t * m)
    OBVIOUS
  <2>2. c * b = (D * C) * ((2 * C) * (n * m) - s * n)
    OBVIOUS
  <2>3. PICK u \in Int, v \in Int, w \in Int, k \in Nat :
          u = s * n /\ v = t * m /\ w = (2 * C) * (n * m) /\ k = D * C
    OBVIOUS
  <2>4. k * (w - v) <= k * (w - u)
    <3>1. \A x, y \in Int : x <= y => k * x <= k * y
      OBVIOUS
    <3>2. w - v <= w - u /\ w - v \in Int /\ w - u \in Int
      BY <2>3
    <3> QED BY <3>1, <3>2
  <2> HIDE DEF a, b, c, d
  <2> QED BY <2>1, <2>2, <2>3, <2>4
<1>5. a \div b <= c \div d /\ a \div b \in Int /\ c \div d \in Int
  <2> HIDE DEF a, b, c, d
  <2> QED BY <1>3, <1>4, Quotients
<1>6. \A x, y \in Int : x <= y => Clamped(x) <= Clamped(y)
  BY EngineAssumption DEF Clamped
<1>7. WeightOf(n, t) = Clamped(a \div b) /\ WeightOf(m, s) = Clamped(c \div d)
  BY <1>1, <1>2 DEF WeightOf
<1> HIDE DEF a, b, c, d
<1> QED BY <1>5, <1>6, <1>7

(* A window that takes another score. *)
LEMMA SlidIs ==
  ASSUME NEW w \in Seq(Int), NEW s \in Int, Len(w) <= ScoreWindow
  PROVE  LET v == Slid(Append(w, s))
         IN  /\ v \in Seq(Int) /\ Len(v) <= ScoreWindow /\ v[Len(v)] = s
             /\ Len(w) = ScoreWindow =>
                  /\ Len(v) = Len(w) /\ Total(v) = (Total(w) + s) - w[1] /\ w[1] \in Int
             /\ Len(w) # ScoreWindow => Len(v) = Len(w) + 1 /\ Total(v) = Total(w) + s
<1> DEFINE q == Append(w, s)
<1>1. ScoreWindow \in Nat \ {0}
  BY EngineAssumption
<1>2. q \in Seq(Int) /\ Len(q) = Len(w) + 1 /\ q[Len(w) + 1] = s /\ Len(w) \in Nat
  BY AppendProperties
<1>3. Total(q) = Total(w) + s /\ Total(w) \in Int
  BY TotalIs
<1>4. CASE Len(w) = ScoreWindow
  <2>1. Slid(q) = Tail(q)
    <3> HIDE DEF q
    <3> QED BY <1>1, <1>2, <1>4 DEF Slid
  <2>2. /\ Tail(q) \in Seq(Int) /\ Len(Tail(q)) = Len(w) /\ Tail(q)[Len(w)] = q[Len(w) + 1]
    <3> HIDE DEF q
    <3> QED BY <1>1, <1>2, <1>4
  <2>3. q[1] = w[1] /\ w[1] \in Int
    <3>1. 1 \in 1..Len(w)
      BY <1>1, <1>4
    <3> QED BY <3>1, AppendProperties
  <2>4. Total(Tail(q)) = Total(q) - q[1]
    <3> HIDE DEF q
    <3> QED BY <1>2, TotalOfTail
  <2> HIDE DEF q
  <2>5. Total(Tail(q)) = (Total(w) + s) - w[1]
    BY <1>3, <2>3, <2>4
  <2> QED BY <1>2, <1>4, <2>1, <2>2, <2>3, <2>5 DEF q
<1>5. CASE Len(w) # ScoreWindow
  <2>1. Slid(q) = q
    <3> HIDE DEF q
    <3> QED BY <1>1, <1>2, <1>5 DEF Slid
  <2>2. Len(w) + 1 <= ScoreWindow
    BY <1>1, <1>2, <1>5
  <2> HIDE DEF q
  <2> QED BY <1>2, <1>3, <1>5, <2>1, <2>2 DEF q
<1> QED BY <1>4, <1>5

LEMMA TrustStep ==
  ASSUME Inv, Adapting, EngineOutcome
  PROVE  \E x : \E s \in Int : \A a :
           WindowOf(a)' = IF a = x THEN Slid(Append(WindowOf(a), s)) ELSE WindowOf(a)
<1> DEFINE q == topics["outcomes"]
<1>1. Bus
  BY DEF Inv
<1>2. PICK o : o = Message("engine", "outcomes")
  OBVIOUS
<1>3. o \in Elems(q)
  <2>1. "engine" \in Consumers /\ "outcomes" \in Consumes["engine"]
    BY ConsumesIs
  <2>2. taken["engine"]["outcomes"] + 1 \in DOMAIN q
    BY <1>1, <2>1, TakeIs DEF EngineOutcome
  <2> QED BY <1>2, <2>2 DEF Elems, Message
<1>4. o.confidence \in Int
  BY <1>3 DEF Adapting, Made
<1>5. PICK s \in Int : s = BrierScore(o.confidence, o.correct)
  <2>1. \A c \in Int : (100 - c) * (100 - c) \in Int /\ c * c \in Int
    OBVIOUS
  <2> QED BY <1>4, <2>1 DEF BrierScore
<1>6. trust' = Stored(trust, o.agent, Slid(Append(WindowOf(o.agent), s)))
  BY <1>2, <1>5 DEF EngineOutcome, OnOutcome
<1>7. /\ DOMAIN trust' = DOMAIN trust \cup {o.agent}
      /\ trust'[o.agent] = Slid(Append(WindowOf(o.agent), s))
      /\ \A a \in DOMAIN trust : a # o.agent => trust'[a] = trust[a]
  BY <1>6 DEF Stored
<1>8. \A a : WindowOf(a)' = IF a = o.agent THEN Slid(Append(WindowOf(a), s)) ELSE WindowOf(a)
  BY <1>7 DEF WindowOf
<1> QED BY <1>8

LEMMA AdaptingInit == Init => Adapting
<1> SUFFICES ASSUME Init PROVE Adapting
  OBVIOUS
<1>1. topics["outcomes"] = << >> /\ unpublished = << >>
  BY DEF Init, NoRowsYet
<1>2. Made = {}
  BY <1>1, EmptyIs DEF Made
<1>3. \A a : WindowOf(a) = << >>
  BY DEF Init, EngineStarts, WindowOf
<1>4. << >> \in Seq(Int) /\ Len(<< >>) <= ScoreWindow
  BY EngineAssumption
<1> QED BY <1>2, <1>3, <1>4 DEF Adapting

(* What is published is what was made. *)
LEMMA PublishedSame == ASSUME Bus, Backed, RecorderPublish PROVE Made' = Made
<1>1. PICK o : o = Head(unpublished)
  OBVIOUS
<1>2. unpublished # << >> /\ Publish("outcomes", <<o>>) /\ unpublished' = Tail(unpublished)
  BY <1>1 DEF RecorderPublish
<1>3. topics'["outcomes"] = topics["outcomes"] \o <<o>>
  BY <1>2, OneIs, PublishIs DEF Topics
<1>4. Elems(unpublished) = {o} \cup Elems(unpublished')
  BY <1>1, <1>2, TailIs DEF Backed
<1>5. Elems(topics'["outcomes"]) = Elems(topics["outcomes"]) \cup {o}
  BY <1>3, OneIs, ConcatIs DEF Bus, Topics
<1>6. Made' = Elems(topics'["outcomes"]) \cup Elems(unpublished')
  BY DEF Made, Elems
<1> QED BY <1>4, <1>5, <1>6 DEF Made

LEMMA AdaptingNext == Inv /\ Inv' /\ Adapting /\ [Next]_vars => Adapting'
<1> SUFFICES ASSUME Inv, Inv', Adapting, [Next]_vars PROVE Adapting'
  OBVIOUS
<1>1. Bus /\ Backed /\ Indexing
  BY DEF Inv
<1>2. ASSUME trust' = trust \/ trust' = << >>
      PROVE  \A a : WindowOf(a)' \in Seq(Int) /\ Len(WindowOf(a)') <= ScoreWindow
  <2>1. \A a : WindowOf(a)' = WindowOf(a) \/ WindowOf(a)' = << >>
    BY <1>2 DEF WindowOf
  <2>2. << >> \in Seq(Int) /\ Len(<< >>) <= ScoreWindow
    BY EngineAssumption
  <2> QED BY <2>1, <2>2 DEF Adapting
<1>3. ASSUME topics'["outcomes"] = topics["outcomes"], unpublished' = unpublished \/ unpublished' = << >>
      PROVE  \A o \in Made' : o.confidence \in Int
  <2>1. Elems(unpublished') \subseteq Elems(unpublished)
    BY <1>3, EmptyIs
  <2>2. Made' = Elems(topics'["outcomes"]) \cup Elems(unpublished')
    BY DEF Made, Elems
  <2>3. Made' \subseteq Made
    BY <1>3, <2>1, <2>2 DEF Made
  <2> QED BY <2>3 DEF Adapting
<1>4. ASSUME NEW t \in Topics \ {"outcomes"}, NEW msgs, Publish(t, msgs) PROVE topics'["outcomes"] = topics["outcomes"]
  BY <1>1, <1>4 DEF Publish, Bus, Topics
<1>5. CASE Signal
  <2>1. topics'["outcomes"] = topics["outcomes"]
    BY <1>4, <1>5 DEF Signal, Topics
  <2> QED BY <1>2, <1>3, <1>5, <2>1 DEF Signal, engineVars, recorderVars, Adapting
<1>6. CASE EngineSignal
  <2>1. topics'["outcomes"] = topics["outcomes"]
    BY <1>4, <1>6 DEF EngineSignal, Topics
  <2> QED BY <1>2, <1>3, <1>6, <2>1 DEF EngineSignal, OnSignal, recorderVars, Adapting
<1>7. CASE EngineOutcome
  <2>1. UNCHANGED <<topics, unpublished>>
    BY <1>7 DEF EngineOutcome, recorderVars
  <2>2. PICK x : \E s \in Int : \A a :
          WindowOf(a)' = IF a = x THEN Slid(Append(WindowOf(a), s)) ELSE WindowOf(a)
    BY <1>7, TrustStep
  <2>3. \A a : WindowOf(a)' \in Seq(Int) /\ Len(WindowOf(a)') <= ScoreWindow
    <3> TAKE a
    <3>1. WindowOf(a) \in Seq(Int) /\ Len(WindowOf(a)) <= ScoreWindow
      BY DEF Adapting
    <3> PICK s \in Int : \A b :
           WindowOf(b)' = IF b = x THEN Slid(Append(WindowOf(b), s)) ELSE WindowOf(b)
      BY <2>2
    <3>2. CASE a = x
      BY <3>1, <3>2, SlidIs
    <3>3. CASE a # x
      BY <3>1, <3>3
    <3> QED BY <3>2, <3>3
  <2> QED BY <1>3, <2>1, <2>3 DEF Adapting
<1>8. ASSUME NEW d \in DOMAIN topics["decisions"], Close(d) PROVE Adapting'
  <2>1. topics'["outcomes"] = topics["outcomes"]
    BY <1>4, <1>8 DEF Close, Topics
  <2> QED BY <1>2, <1>3, <1>8, <2>1 DEF Close, engineVars, recorderVars, Adapting
<1>9. CASE RecorderSignal
  BY <1>2, <1>3, <1>9 DEF RecorderSignal, IndexSignal, engineVars, Adapting
<1>10. CASE RecorderDecision
  BY <1>2, <1>3, <1>10 DEF RecorderDecision, IndexDecision, engineVars, Adapting
<1>11. CASE RecorderClosure
  <2>1. PICK k : Attribute(k)
    BY <1>11 DEF RecorderClosure
  <2>2. UNCHANGED <<topics, trust>>
    BY <1>11 DEF RecorderClosure, engineVars
  <2>3. PICK S : S = Scored(k.corr)
    OBVIOUS
  <2>4. S \in SUBSET Nat /\ IsFiniteSet(S) /\ S \subseteq Sharers(k.corr)
    BY <1>1, <2>3, ScoredAre
  <2>5. unpublished' = unpublished \/ unpublished' = Outcomes(S, k)
    BY <2>1, <2>3 DEF Attribute
  <2>6. Elems(unpublished') \subseteq Elems(unpublished) \cup {OutcomeOf(id, k) : id \in S}
    BY <2>4, <2>5, OutcomesAre
  <2>7. Made' = Elems(topics["outcomes"]) \cup Elems(unpublished')
    BY <2>2 DEF Made, Elems
  <2>8. \A id \in S : OutcomeOf(id, k).confidence \in Int
    <3>1. \A id \in S : id \in Ids /\ SignalLog[id].confidence \in Int
      BY <2>4, LoopAssumption DEF Sharers, Confidences
    <3> QED BY <3>1 DEF OutcomeOf
  <2>9. \A o \in Made' : o.confidence \in Int
    BY <2>6, <2>7, <2>8 DEF Adapting, Made
  <2> QED BY <1>2, <2>2, <2>9 DEF Adapting
<1>12. CASE RecorderPublish
  <2>1. UNCHANGED trust
    BY <1>12 DEF RecorderPublish, engineVars
  <2>2. Made' = Made
    BY <1>1, <1>12, PublishedSame
  <2> QED BY <1>2, <2>1, <2>2 DEF Adapting
<1>13. ASSUME NEW c \in Consumers, Crash(c) PROVE Adapting'
  <2>1. topics' = topics /\ (unpublished' = unpublished \/ unpublished' = << >>)
        /\ (trust' = trust \/ trust' = << >>)
    BY <1>13 DEF Crash, RecorderRestarts, recorderVars, engineVars
  <2> QED BY <1>2, <1>3, <2>1 DEF Adapting
<1>14. CASE Clock \/ UNCHANGED vars
  <2>1. UNCHANGED <<topics, unpublished, trust>>
    BY <1>14 DEF Clock, vars, engineVars, recorderVars, busVars
  <2> QED BY <1>2, <1>3, <2>1 DEF Adapting
<1> QED BY <1>5, <1>6, <1>7, <1>8, <1>9, <1>10, <1>11, <1>12, <1>13, <1>14 DEF Next

(* A weight moves with the track record.                                   *)
LEMMA WeightFollows ==
  ASSUME NEW w \in Seq(Int), NEW s \in Int, Len(w) <= ScoreWindow, Len(w) \in Nat \ {0},
         NEW v, v = Slid(Append(w, s)),
         NEW against, against = IF Len(w) = ScoreWindow THEN w[1] * Len(w) ELSE Total(w)
  PROVE  /\ Len(v) \in Nat \ {0} /\ Len(v) >= Len(w) /\ v[Len(v)] = s
         /\ s * Len(w) <= against => WeightOf(Len(w), Total(w)) <= WeightOf(Len(v), Total(v))
         /\ s * Len(w) >= against => WeightOf(Len(v), Total(v)) <= WeightOf(Len(w), Total(w))
<1>1. PICK n \in Nat \ {0} : n = Len(w)
  OBVIOUS
<1>2. PICK t \in Int : t = Total(w)
  BY TotalIs
<1>3. v[Len(v)] = s
  BY SlidIs
<1>4. CASE Len(w) = ScoreWindow
  <2>1. Len(v) = n /\ Total(v) = (t + s) - w[1] /\ w[1] \in Int
    BY <1>1, <1>2, <1>4, SlidIs
  <2>2. PICK f \in Int : f = w[1]
    BY <2>1
  <2>3. PICK u \in Int : u = (t + s) - f
    OBVIOUS
  <2>4. against = f * n /\ Total(v) = u
    BY <1>1, <1>4, <2>1, <2>2, <2>3
  <2>5. \A x, y \in Int : x <= y <=> x * n <= y * n
    OBVIOUS
  <2>6. s * n <= f * n => u * n <= t * n
    <3>1. s * n <= f * n => s <= f
      BY <2>5
    <3>2. s <= f => u <= t
      BY <2>3
    <3> QED BY <2>5, <3>1, <3>2
  <2>7. s * n >= f * n => t * n <= u * n
    <3>1. s * n >= f * n => f <= s
      <4>1. s * n \in Int /\ f * n \in Int
        OBVIOUS
      <4>2. s * n >= f * n => f * n <= s * n
        BY <4>1
      <4> QED BY <2>5, <4>2
    <3>2. f <= s => t <= u
      BY <2>3
    <3> QED BY <2>5, <3>1, <3>2
  <2>8. u * n <= t * n => WeightOf(n, t) <= WeightOf(n, u)
    BY Heavier
  <2>9. t * n <= u * n => WeightOf(n, u) <= WeightOf(n, t)
    BY Heavier
  <2> QED BY <1>1, <1>2, <1>3, <2>1, <2>4, <2>6, <2>7, <2>8, <2>9
<1>5. CASE Len(w) # ScoreWindow
  <2>1. Len(v) = n + 1 /\ Total(v) = t + s
    BY <1>1, <1>2, <1>5, SlidIs
  <2>2. PICK u \in Int : u = t + s
    OBVIOUS
  <2>3. PICK m \in Nat \ {0} : m = n + 1
    OBVIOUS
  <2>4. PICK p \in Int, r \in Int : p = s * n /\ r = t * n
    OBVIOUS
  <2>5. u * n = r + p /\ t * m = r + t
    BY <2>2, <2>3, <2>4
  <2>6. p <= t => u * n <= t * m
    BY <2>5
  <2>7. p >= t => t * m <= u * n
    BY <2>5
  <2>8. u * n <= t * m => WeightOf(n, t) <= WeightOf(m, u)
    BY Heavier
  <2>9. t * m <= u * n => WeightOf(m, u) <= WeightOf(n, t)
    BY Heavier
  <2>10. against = t /\ Total(v) = u /\ Len(v) = m
    BY <1>2, <1>5, <2>1, <2>2, <2>3
  <2>11. m >= n
    BY <2>3
  <2> QED BY <1>1, <1>2, <1>3, <2>4, <2>6, <2>7, <2>8, <2>9, <2>10, <2>11
<1> QED BY <1>4, <1>5

(* "A consistently sharp agent earns more influence" (TrustRegistry): an   *)
(* outcome that scores no worse than the one it pushes out of the window,  *)
(* or than the mean of a window that still grows, does not lower an        *)
(* agent's weight, and one that scores no better does not raise it: for    *)
(* any window, default and bounds of the weight, whatever failed or        *)
(* crashed.                                                                *)
THEOREM TrackRecordCounts == Spec => TrustFollowsTrackRecord
<1> DEFINE Moves ==
      \A a \in DOMAIN trust :
        LET old == trust[a]
            new == trust'[a]
            score == new[Len(new)]
            slid == Len(old) = ScoreWindow
            against == IF slid THEN old[1] * Len(old) ELSE Total(old)
        IN  (a \in DOMAIN trust' /\ Len(old) >= MinSamples /\ new # old) =>
              /\ score * Len(old) <= against => WeightFor(a)' >= WeightFor(a)
              /\ score * Len(old) >= against => WeightFor(a)' <= WeightFor(a)
<1>1. ASSUME Inv, Adapting, [Next]_vars PROVE [Moves]_trust
  <2> SUFFICES ASSUME trust' # trust, NEW a \in DOMAIN trust,
                      a \in DOMAIN trust', Len(trust[a]) >= MinSamples, trust'[a] # trust[a],
                      NEW w, w = trust[a], NEW v, v = trust'[a],
                      NEW against, against = IF Len(w) = ScoreWindow THEN w[1] * Len(w) ELSE Total(w)
               PROVE  /\ v[Len(v)] * Len(w) <= against => WeightFor(a)' >= WeightFor(a)
                      /\ v[Len(v)] * Len(w) >= against => WeightFor(a)' <= WeightFor(a)
    OBVIOUS
  <2>1. WindowOf(a) = w /\ WindowOf(a)' = v /\ w \in Seq(Int) /\ Len(w) <= ScoreWindow
    BY <1>1 DEF WindowOf, Adapting
  <2>2. EngineOutcome
    <3>1. \A c \in Consumers : ~Crash(c)
      BY DEF Crash, engineVars
    <3> QED BY <1>1, <3>1 DEF Next, vars, engineVars, Signal, EngineSignal, OnSignal, Close, RecorderSignal,
                          RecorderDecision, RecorderClosure, RecorderPublish, Clock
  <2>3. PICK s \in Int : v = Slid(Append(w, s))
    BY <1>1, <2>1, <2>2, TrustStep
  <2>4. Len(w) \in Nat \ {0} /\ Len(w) >= MinSamples /\ MinSamples \in Nat \ {0}
    BY <2>1, EngineAssumption
  <2>5. /\ Len(v) \in Nat \ {0} /\ Len(v) >= Len(w) /\ v[Len(v)] = s
        /\ s * Len(w) <= against => WeightOf(Len(w), Total(w)) <= WeightOf(Len(v), Total(v))
        /\ s * Len(w) >= against => WeightOf(Len(v), Total(v)) <= WeightOf(Len(w), Total(w))
    BY <2>1, <2>3, <2>4, WeightFollows
  <2>6. WeightFor(a) = WeightOf(Len(w), Total(w)) /\ WeightFor(a)' = WeightOf(Len(v), Total(v))
    <3>1. ~(Len(w) < MinSamples) /\ ~(Len(v) < MinSamples)
      BY <2>4, <2>5
    <3> QED BY <2>1, <3>1 DEF WeightFor, WeightOf
  <2>7. WeightFor(a) \in Int /\ WeightFor(a)' \in Int
    <3>1. \A n \in Nat \ {0} : \A t \in Int : WeightOf(n, t) \in Int
      BY WeightIs
    <3>2. Total(w) \in Int /\ Total(v) \in Int
      BY <2>1, <2>3, SlidIs, TotalIs
    <3> QED BY <2>4, <2>5, <2>6, <3>1, <3>2
  <2> QED BY <2>5, <2>6, <2>7
<1>2. Init => Adapting
  BY AdaptingInit
<1>3. Inv /\ Inv' /\ Adapting /\ [Next]_vars => Adapting'
  BY AdaptingNext
<1>4. TrustFollowsTrackRecord <=> [][Moves]_trust
  BY DEF TrustFollowsTrackRecord
<1> QED BY <1>1, <1>2, <1>3, <1>4, Invariance, PTL DEF Spec
=============================================================================
