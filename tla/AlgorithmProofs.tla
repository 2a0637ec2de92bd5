--------------------------- MODULE AlgorithmProofs ---------------------------
(***************************************************************************)
(* Theorems about six of the algorithms.                                   *)
(*                                                                         *)
(* The risk manager, for any snapshot that may have been the latest, any   *)
(* decision and any settings: an order it approves is within the risk      *)
(* budget, the notional cap and the leverage, and its stop is at a loss.   *)
(* The properties hold of every typed snapshot, so the type of the latest  *)
(* one is all that has to be invariant; what they rest on is that the size *)
(* is the least of its caps, and that an integer quotient times its        *)
(* divisor does not exceed the dividend.                                   *)
(*                                                                         *)
(* The paper broker, for any books and orders: its walk of the sorted book *)
(* fills at the best prices there are, and a larger order at no better a   *)
(* price.  The books are sorted, what is taken of a level is what the      *)
(* better ones leave, and moving quantity to a better level cannot raise   *)
(* what is paid; rounding is monotone.                                     *)
(*                                                                         *)
(* The replay, for any bars: a trade ends at the first touch of a level.   *)
(* The open trade has met no level and knows its best price so far.  What  *)
(* its analyst is shown is what a live builder holds: the last candles of  *)
(* each interval, one more with every one that closes.                     *)
(*                                                                         *)
(* The market analyst, for any timeframes, weights and composites: at full *)
(* confidence no timeframe contradicts the direction taken.  The score is  *)
(* a weighted mean, so it lies where every composite does; and full        *)
(* confidence takes full agreement, of every timeframe that has a view.    *)
(* For any closes and volumes a timeframe does not score against an        *)
(* established trend.  Every average, ratio and clamp on the way is typed  *)
(* and bounded; then the weights decide.  Stop and target stand on their   *)
(* sides of the price: by a level only where that leaves them there, or    *)
(* else off the price by the atr; the levels are sorted by distance.       *)
(*                                                                         *)
(* The corrections, for any grid: a family's discoveries are what its size *)
(* supports.  They are the tests up to the largest hit, as many as its     *)
(* rank; a set that its size supports ends in a hit.                       *)
(*                                                                         *)
(* The studies, for any bars, firings, funding, rates and closes: a sample *)
(* is a largest one without overlap, and sees nothing of its future.  What *)
(* is not taken lies within a horizon of one that is; carry telescopes.    *)
(***************************************************************************)
EXTENDS MCAlgorithms, SumsProofs, SequenceTheorems

PortfolioSnapshot ==
  [known : BOOLEAN, equity : Int, dayStart : Int, gross : Int,
   held : UNION {[S -> {"long", "short"}] : S \in SUBSET {d.symbol : d \in Decisions}}]

RiskSpec == NoPortfolioYet /\ [][\E p \in PortfolioSnapshot : OnSnapshot(p)]_portfolio

Known == portfolio \in PortfolioSnapshot

LEMMA Quotient ==
  ASSUME NEW a \in Int, NEW b \in Nat \ {0}
  PROVE  a \div b \in Int /\ (a \div b) * b <= a
  OBVIOUS

LEMMA Wider ==
  ASSUME NEW a \in Int, NEW b \in Int, NEW n \in Nat, a <= b
  PROVE  a * n <= b * n
  OBVIOUS

LEMMA Product == \A a, b \in Int : a * b \in Int
  OBVIOUS

LEMMA LeastIs ==
  /\ \A a, b \in Int : LeastOf({a, b}) \in {a, b} /\ LeastOf({a, b}) <= a /\ LeastOf({a, b}) <= b
  /\ \A a, b, c \in Int : /\ LeastOf({a, b} \cup {c}) \in {a, b, c}
                          /\ LeastOf({a, b} \cup {c}) <= a
                          /\ LeastOf({a, b} \cup {c}) <= b
                          /\ LeastOf({a, b} \cup {c}) <= c
<1>1. ASSUME NEW a \in Int, NEW b \in Int
      PROVE  LeastOf({a, b}) \in {a, b} /\ LeastOf({a, b}) <= a /\ LeastOf({a, b}) <= b
  <2>1. \E x \in {a, b} : \A y \in {a, b} : x <= y
    OBVIOUS
  <2> QED BY <2>1 DEF LeastOf
<1>2. ASSUME NEW a \in Int, NEW b \in Int, NEW c \in Int
      PROVE  /\ LeastOf({a, b} \cup {c}) \in {a, b, c} /\ LeastOf({a, b} \cup {c}) <= a
             /\ LeastOf({a, b} \cup {c}) <= b /\ LeastOf({a, b} \cup {c}) <= c
  <2>1. \E x \in {a, b} \cup {c} : \A y \in {a, b} \cup {c} : x <= y
    <3>1. CASE a <= b /\ a <= c
      BY <3>1
    <3>2. CASE b <= a /\ b <= c
      BY <3>2
    <3>3. CASE c <= a /\ c <= b
      BY <3>3
    <3> QED BY <3>1, <3>2, <3>3
  <2> QED BY <2>1 DEF LeastOf
<1> QED BY <1>1, <1>2

(* What is known of a decision that is approved. *)
LEMMA Approved ==
  ASSUME NEW d \in Decisions, NEW p \in PortfolioSnapshot, Approves(d, p)
  PROVE  /\ d.direction \in {"long", "short"} /\ d.stop \in Int /\ d.price \in Nat \ {0}
         /\ p.equity \in Nat \ {0} /\ p.gross \in Int
         /\ DefaultOffset(d) \in Int /\ ResolveStop(d) \in Int /\ StopDistance(d) \in Nat \ {0}
         /\ Headroom(p) \in Nat \ {0}
<1>1. /\ d.direction \in {"long", "short", "hold"} /\ d.price \in Int /\ d.stop \in Int
      /\ p.equity \in Int /\ p.gross \in Int
  BY RiskAssumption DEF PortfolioSnapshot
<1>2. d.direction # "hold" /\ ~(p.equity <= 0) /\ ~(d.price <= 0) /\ ~(StopDistance(d) <= 0)
  BY DEF Approves, Unanswerable
<1>3. ~(Headroom(p) <= 0)
  BY DEF Approves, Reasons
<1>4. DefaultOffset(d) \in Int
  <2>1. DefaultStopPct \in Int /\ d.price * DefaultStopPct \in Int
    BY <1>1, RiskAssumption, Product
  <2> QED BY <2>1, Quotient DEF DefaultOffset
<1>5. ResolveStop(d) \in Int
  BY <1>1, <1>4 DEF ResolveStop
<1>6. StopDistance(d) \in Int
  BY <1>1, <1>5 DEF StopDistance, Magnitude
<1>7. Headroom(p) \in Int
  <2>1. p.equity * MaxLeverage \in Int
    BY <1>1, RiskAssumption, Product
  <2> QED BY <1>1, <2>1 DEF Headroom
<1> QED BY <1>1, <1>2, <1>3, <1>4, <1>5, <1>6, <1>7

(* The size is below each of the caps. *)
LEMMA Capped ==
  ASSUME NEW d \in Decisions, NEW p \in PortfolioSnapshot, Approves(d, p)
  PROVE  /\ Size(d, p) \in Int
         /\ Size(d, p) <= (p.equity * RiskPct) \div (100 * StopDistance(d))
         /\ Size(d, p) <= MaxNotional \div d.price
         /\ Size(d, p) <= Headroom(p) \div d.price
<1> DEFINE a == (p.equity * RiskPct) \div (100 * StopDistance(d))
           b == MaxNotional \div d.price
           c == Headroom(p) \div d.price
<1>1. /\ d.price \in Nat \ {0} /\ p.equity \in Int
      /\ StopDistance(d) \in Nat \ {0} /\ Headroom(p) \in Nat \ {0}
  BY Approved
<1>2. Size(d, p) = LeastOf({a, b} \cup {c})
  <2>1. Headroom(p) > 0
    BY <1>1
  <2>2. Caps(d, p) = {a, b} \cup {c}
    BY <2>1 DEF Caps
  <2> QED BY <2>2 DEF Size
<1>3. /\ p.equity * RiskPct \in Int /\ 100 * StopDistance(d) \in Nat \ {0}
      /\ MaxNotional \in Int /\ Headroom(p) \in Int
  BY <1>1, RiskAssumption, Product
<1>4. a \in Int /\ b \in Int /\ c \in Int
  BY <1>1, <1>3, Quotient
<1> HIDE DEF a, b, c
<1>5. /\ LeastOf({a, b} \cup {c}) \in {a, b, c} /\ LeastOf({a, b} \cup {c}) <= a
      /\ LeastOf({a, b} \cup {c}) <= b /\ LeastOf({a, b} \cup {c}) <= c
  BY <1>4, LeastIs
<1>6. Size(d, p) \in Int /\ Size(d, p) <= a /\ Size(d, p) <= b /\ Size(d, p) <= c
  BY <1>2, <1>4, <1>5
<1> QED BY <1>6 DEF a, b, c

LEMMA Invariance == RiskSpec => []Known
<1>1. NoPortfolioYet => Known
  <2> SUFFICES ASSUME NoPortfolioYet PROVE Known
    OBVIOUS
  <2> DEFINE none == [s \in {} |-> "long"]
  <2>1. none \in [{} -> {"long", "short"}]
    OBVIOUS
  <2>2. none \in UNION {[S -> {"long", "short"}] : S \in SUBSET {d.symbol : d \in Decisions}}
    BY <2>1
  <2>3. portfolio = [known |-> FALSE, equity |-> StartingEquity, dayStart |-> StartingEquity,
                     gross |-> 0, held |-> none]
    BY DEF NoPortfolioYet, NoSnapshot
  <2>4. StartingEquity \in Int
    BY RiskAssumption
  <2> HIDE DEF none
  <2> QED BY <2>2, <2>3, <2>4 DEF Known, PortfolioSnapshot
<1>2. Known /\ [\E p \in PortfolioSnapshot : OnSnapshot(p)]_portfolio => Known'
  BY DEF Known, OnSnapshot
<1> QED BY <1>1, <1>2, PTL DEF RiskSpec

(* If its stop is hit at its price, an approved order loses no more than   *)
(* the risk budget, whichever cap, stop or rounding decided its size.      *)
THEOREM BudgetKept == RiskSpec => []RiskWithinBudget
<1>1. Known => RiskWithinBudget
  <2> SUFFICES ASSUME Known, NEW d \in Decisions, Approves(d, portfolio)
               PROVE  100 * Size(d, portfolio) * StopDistance(d) <= RiskPct * portfolio.equity
    BY DEF RiskWithinBudget
  <2> DEFINE n == 100 * StopDistance(d)
             budget == portfolio.equity * RiskPct
             size == Size(d, portfolio)
  <2>1. portfolio \in PortfolioSnapshot
    BY DEF Known
  <2>2. /\ portfolio.equity \in Int /\ RiskPct \in Int
        /\ StopDistance(d) \in Nat \ {0} /\ size \in Int /\ size <= budget \div n
    BY <2>1, Approved, Capped, RiskAssumption
  <2>3. n \in Nat \ {0} /\ budget \in Int
    BY <2>2, Product
  <2>4. budget \div n \in Int /\ (budget \div n) * n <= budget
    BY <2>3, Quotient
  <2>5. size * n <= (budget \div n) * n
    BY <2>2, <2>3, <2>4, Wider
  <2>6. size * n \in Int /\ (budget \div n) * n \in Int
    BY <2>2, <2>3, <2>4, Product
  <2>7. size * n <= budget
    BY <2>3, <2>4, <2>5, <2>6
  <2>8. 100 * size * StopDistance(d) = size * n /\ RiskPct * portfolio.equity = budget
    BY <2>2
  <2> QED BY <2>7, <2>8
<1> QED BY <1>1, Invariance, PTL

(* By the latest snapshot, an approved order leaves the portfolio within   *)
(* its leverage and is itself within the notional cap.                     *)
THEOREM ExposureKept == RiskSpec => []ExposureWithinLimits
<1>1. Known => ExposureWithinLimits
  <2> SUFFICES ASSUME Known, NEW d \in Decisions, Approves(d, portfolio)
               PROVE  /\ Size(d, portfolio) * d.price <= MaxNotional
                      /\ portfolio.gross + Size(d, portfolio) * d.price
                           <= MaxLeverage * portfolio.equity
    BY DEF ExposureWithinLimits
  <2> DEFINE size == Size(d, portfolio)
             room == Headroom(portfolio)
  <2>1. portfolio \in PortfolioSnapshot
    BY DEF Known
  <2>2. /\ portfolio.equity \in Int /\ portfolio.gross \in Int /\ d.price \in Nat \ {0}
        /\ room \in Int /\ MaxNotional \in Int /\ MaxLeverage \in Int
        /\ size \in Int /\ size <= MaxNotional \div d.price /\ size <= room \div d.price
    BY <2>1, Approved, Capped, RiskAssumption
  <2> HIDE DEF size
  <2>3. \A x \in Int : size <= x \div d.price => size * d.price <= x
    <3> SUFFICES ASSUME NEW x \in Int, size <= x \div d.price PROVE size * d.price <= x
      OBVIOUS
    <3>1. x \div d.price \in Int /\ (x \div d.price) * d.price <= x
      BY <2>2, Quotient
    <3>2. size * d.price <= (x \div d.price) * d.price
      BY <2>2, <3>1, Wider
    <3>3. size * d.price \in Int /\ (x \div d.price) * d.price \in Int
      BY <2>2, <3>1, Product
    <3> QED BY <3>1, <3>2, <3>3
  <2>4. size * d.price <= MaxNotional /\ size * d.price <= room /\ size * d.price \in Int
    BY <2>2, <2>3, Product
  <2>5. room = portfolio.equity * MaxLeverage - portfolio.gross
    BY DEF Headroom
  <2>6. /\ portfolio.equity * MaxLeverage = MaxLeverage * portfolio.equity
        /\ MaxLeverage * portfolio.equity \in Int
    BY <2>2, Product
  <2>7. portfolio.gross + size * d.price <= MaxLeverage * portfolio.equity
    BY <2>2, <2>4, <2>5, <2>6
  <2> QED BY <2>4, <2>7 DEF size
<1> QED BY <1>1, Invariance, PTL

(* A suggested stop on the wrong side, or none, never reaches an order.    *)
THEOREM StopLoses == RiskSpec => []StopIsALoss
<1>1. Known => StopIsALoss
  <2> SUFFICES ASSUME Known, NEW d \in Decisions, Approves(d, portfolio)
               PROVE  IF d.direction = "long" THEN ResolveStop(d) < d.price
                                              ELSE ResolveStop(d) > d.price
    BY DEF StopIsALoss
  <2>1. portfolio \in PortfolioSnapshot
    BY DEF Known
  <2>2. /\ d.direction \in {"long", "short"} /\ d.price \in Nat \ {0} /\ d.stop \in Int
        /\ DefaultOffset(d) \in Int /\ StopDistance(d) \in Nat \ {0}
    BY <2>1, Approved
  <2>3. CASE Usable(d)
    BY <2>2, <2>3 DEF Usable, ResolveStop
  <2>4. CASE ~Usable(d)
    <3>1. DefaultOffset(d) >= 0
      <4>1. d.price * DefaultStopPct \in Nat
        BY <2>2, RiskAssumption
      <4>2. (d.price * DefaultStopPct) \div 100 >= 0
        BY <4>1
      <4> QED BY <4>2 DEF DefaultOffset
    <3>2. StopDistance(d) = DefaultOffset(d)
      BY <2>2, <2>4, <3>1 DEF StopDistance, ResolveStop, Magnitude
    <3> QED BY <2>2, <2>4, <3>2 DEF ResolveStop
  <2> QED BY <2>3, <2>4
<1> QED BY <1>1, Invariance, PTL

-----------------------------------------------------------------------------
(* The paper broker: any books, any orders. *)

(* "Bids are ordered best (highest) first; asks best (lowest) first." *)
Offer == [price : Nat, size : Nat]
Rising(levels) == \A i, j \in 1..Len(levels) : i <= j => levels[i].price <= levels[j].price
Falling(levels) == \A i, j \in 1..Len(levels) : i <= j => levels[i].price >= levels[j].price
OrderBook == {b \in [asks : Seq(Offer), bids : Seq(Offer), at : Int] : Rising(b.asks) /\ Falling(b.bids)}

BrokerSpec == NoBooksYet /\ [][\E s, b : b \in OrderBook /\ OnBook(s, b)]_<<books, now>>

(* What is left of an order once a level of so many has been offered to it,*)
(* and what is left of it after each level: the function walk_book() is.   *)
After(rest, size) == IF rest <= size THEN 0 ELSE rest - size
IsLeft(g, levels, size, m) ==
  g = [i \in 0..m |-> IF i = 0 THEN size ELSE After(g[i - 1], levels[i].size)]
Left(levels, size) == CHOOSE g : IsLeft(g, levels, size, Len(levels))

LEMMA LeftExists ==
  ASSUME NEW levels \in Seq(Offer), NEW size \in Nat
  PROVE  IsLeft(Left(levels, size), levels, size, Len(levels))
<1> DEFINE X == {m \in Nat : \E g : IsLeft(g, levels, size, m)}
           L == Len(levels)
<1>1. 0 \in X
  <2> DEFINE g == [i \in 0..0 |-> size]
  <2>1. IsLeft(g, levels, size, 0)
    BY DEF IsLeft
  <2> QED BY <2>1
<1>2. ASSUME NEW m \in 0..(L - 1), m \in X PROVE m + 1 \in X
  <2>1. PICK g : IsLeft(g, levels, size, m)
    BY <1>2
  <2> DEFINE h == [i \in 0..(m + 1) |-> IF i <= m THEN g[i] ELSE After(g[m], levels[m + 1].size)]
  <2>2. \A i \in 0..(m + 1) : h[i] = IF i = 0 THEN size ELSE After(h[i - 1], levels[i].size)
    <3> TAKE i \in 0..(m + 1)
    <3>1. \A k \in 0..m : g[k] = IF k = 0 THEN size ELSE After(g[k - 1], levels[k].size)
      BY <2>1 DEF IsLeft
    <3>2. CASE i <= m
      <4>1. h[i] = g[i] /\ i \in 0..m
        BY <3>2
      <4>2. i # 0 => h[i - 1] = g[i - 1]
        BY <3>2
      <4> HIDE DEF h
      <4> QED BY <3>1, <4>1, <4>2
    <3>3. CASE i = m + 1
      <4>1. h[i] = After(g[m], levels[i].size) /\ h[i - 1] = g[m] /\ i # 0
        BY <3>3
      <4> HIDE DEF h
      <4> QED BY <4>1
    <3> QED BY <3>2, <3>3
  <2>3. h = [i \in 0..(m + 1) |-> IF i = 0 THEN size ELSE After(h[i - 1], levels[i].size)]
    <3>1. h = [i \in 0..(m + 1) |-> h[i]]
      OBVIOUS
    <3> HIDE DEF h
    <3> QED BY <2>2, <3>1
  <2>4. IsLeft(h, levels, size, m + 1) /\ m + 1 \in Nat
    BY <2>3 DEF IsLeft
  <2> HIDE DEF h
  <2> QED BY <2>4
<1>3. L \in Nat /\ L \in 0..L
  OBVIOUS
<1> HIDE DEF X, L
<1>4. 0..L \subseteq X
  BY <1>1, <1>2, <1>3, Upwards
<1>5. \E g : IsLeft(g, levels, size, L)
  BY <1>3, <1>4 DEF X
<1> QED BY <1>5 DEF Left, L

(* What is left never grows, and it is what the levels so far did not have.*)
LEMMA LeftIs ==
  ASSUME NEW levels \in Seq(Offer), NEW size \in Nat
  PROVE  /\ Left(levels, size)[0] = size
         /\ \A i \in 0..Len(levels) : Left(levels, size)[i] \in Nat
         /\ \A i \in 1..Len(levels) :
              /\ levels[i].size \in Nat /\ levels[i].price \in Nat
              /\ Left(levels, size)[i] = After(Left(levels, size)[i - 1], levels[i].size)
              /\ i - 1 \in 0..Len(levels)
<1> DEFINE g == Left(levels, size)
           L == Len(levels)
           X == {i \in 0..L : g[i] \in Nat}
<1>1. \A i \in 0..L : g[i] = IF i = 0 THEN size ELSE After(g[i - 1], levels[i].size)
  <2>1. IsLeft(g, levels, size, L)
    BY LeftExists
  <2> HIDE DEF g, L
  <2> QED BY <2>1 DEF IsLeft
<1>3. L \in Nat
  OBVIOUS
<1>2. \A i \in 1..L : levels[i].size \in Nat /\ levels[i].price \in Nat /\ i - 1 \in 0..L /\ i \in 0..L
  <2> TAKE i \in 1..L
  <2>1. levels[i] \in Offer
    OBVIOUS
  <2>2. i - 1 \in 0..L /\ i \in 0..L
    BY <1>3
  <2> QED BY <2>1, <2>2 DEF Offer
<1> HIDE DEF g, L
<1>4. 0 \in X /\ g[0] = size
  BY <1>1, <1>3
<1>5. \A i \in 1..L : g[i] = After(g[i - 1], levels[i].size)
  BY <1>1, <1>2
<1>6. ASSUME NEW i \in 0..(L - 1), i \in X PROVE i + 1 \in X
  <2>1. i + 1 \in 1..L /\ i + 1 \in 0..L /\ g[i] \in Nat
    BY <1>3, <1>6
  <2>2. g[i + 1] = After(g[i], levels[i + 1].size) /\ levels[i + 1].size \in Nat
    BY <1>2, <1>5, <2>1
  <2>3. g[i + 1] \in Nat
    BY <2>1, <2>2 DEF After
  <2> QED BY <2>1, <2>3
<1>7. 0..L \subseteq X
  <2> HIDE DEF X
  <2> QED BY <1>3, <1>4, <1>6, Upwards
<1> QED BY <1>2, <1>4, <1>5, <1>7 DEF g, L

LEMMA TakenIs ==
  ASSUME NEW levels \in Seq(Offer), NEW size \in Nat
  PROVE  /\ Taken(levels, size) \in [1..Len(levels) -> Nat]
         /\ \A i \in 1..Len(levels) :
              /\ Taken(levels, size)[i] = Left(levels, size)[i - 1] - Left(levels, size)[i]
              /\ Taken(levels, size)[i] <= levels[i].size
              /\ Left(levels, size)[i] > 0 => Taken(levels, size)[i] = levels[i].size
<1>1. Taken(levels, size)
      = [i \in 1..Len(levels) |-> Left(levels, size)[i - 1] - Left(levels, size)[i]]
  BY DEF Taken, Left, IsLeft, After
<1> DEFINE g == Left(levels, size)
<1>2. ASSUME NEW i \in 1..Len(levels)
      PROVE  /\ g[i - 1] - g[i] \in Nat /\ g[i - 1] - g[i] <= levels[i].size
             /\ g[i] > 0 => g[i - 1] - g[i] = levels[i].size
  <2>1. /\ g[i] = After(g[i - 1], levels[i].size) /\ g[i - 1] \in Nat /\ g[i] \in Nat
        /\ levels[i].size \in Nat
    BY LeftIs
  <2> HIDE DEF g
  <2> QED BY <2>1 DEF After
<1> QED BY <1>1, <1>2

(* What the levels so far were taken of is what is left less.              *)
LEMMA TakenUpTo ==
  ASSUME NEW levels \in Seq(Offer), NEW size \in Nat
  PROVE  \A k \in 0..Len(levels) : Prefix(Taken(levels, size), k) = size - Left(levels, size)[k]
<1> DEFINE L == Len(levels)
           taken == Taken(levels, size)
           left == Left(levels, size)
           X == {k \in 0..L : Prefix(taken, k) = size - left[k]}
<1>1. L \in Nat
  OBVIOUS
<1>2. /\ left[0] = size /\ \A k \in 0..L : left[k] \in Nat
      /\ taken \in [1..L -> Int]
      /\ \A k \in 1..L : taken[k] = left[k - 1] - left[k]
  <2>1. left[0] = size /\ \A k \in 0..L : left[k] \in Nat
    BY LeftIs
  <2>2. taken \in [1..L -> Nat] /\ \A k \in 1..L : taken[k] = left[k - 1] - left[k]
    BY TakenIs
  <2> HIDE DEF taken, left, L
  <2> QED BY <2>1, <2>2
<1> HIDE DEF L, taken, left
<1>3. 0 \in X
  BY <1>1, <1>2, PrefixNone
<1>4. ASSUME NEW k \in 0..(L - 1), k \in X PROVE k + 1 \in X
  <2>1. /\ k + 1 \in 0..L /\ k + 1 \in 1..L /\ k \in 0..L /\ (k + 1) - 1 = k
    BY <1>1, <1>4
  <2>2. Prefix(taken, k + 1) = taken[k + 1] + Prefix(taken, k)
    BY <1>1, <1>2, PrefixNext
  <2>3. taken[k + 1] = left[k] - left[k + 1] /\ left[k] \in Nat /\ left[k + 1] \in Nat
    BY <1>2, <2>1
  <2>4. Prefix(taken, k) = size - left[k]
    BY <1>4
  <2>5. Prefix(taken, k + 1) = size - left[k + 1]
    BY <2>2, <2>3, <2>4
  <2> QED BY <2>1, <2>5
<1>5. 0..L \subseteq X
  <2> HIDE DEF X
  <2> QED BY <1>1, <1>3, <1>4, Upwards
<1> QED BY <1>5 DEF L, taken, left

LEMMA FilledIs ==
  ASSUME NEW levels \in Seq(Offer), NEW size \in Nat
  PROVE  /\ Filled(levels, size) = size - Left(levels, size)[Len(levels)]
         /\ Filled(levels, size) \in Nat /\ Filled(levels, size) <= size
         /\ Left(levels, size)[Len(levels)] \in Nat
<1> DEFINE L == Len(levels)
<1>1. L \in Nat /\ L \in 0..L
  OBVIOUS
<1>2. Taken(levels, size) \in [1..L -> Nat]
  BY TakenIs
<1>3. Prefix(Taken(levels, size), L) = size - Left(levels, size)[L]
  BY <1>1, TakenUpTo
<1>4. Left(levels, size)[L] \in Nat
  BY <1>1, LeftIs
<1>5. Prefix(Taken(levels, size), L) = Filled(levels, size)
  <2> HIDE DEF L
  <2> QED BY <1>2, PrefixAll DEF Filled
<1>6. IsFiniteSet(1..L)
  BY <1>1, FS_Interval
<1>7. Filled(levels, size) \in Nat
  <2> HIDE DEF L
  <2> QED BY <1>2, <1>6, SumNat DEF Filled
<1> QED BY <1>3, <1>4, <1>5, <1>7

(* No way to take as much, or less, is ahead of walk_book().               *)
LEMMA NeverBehind ==
  ASSUME NEW levels \in Seq(Offer), NEW size \in Nat,
         NEW take \in [1..Len(levels) -> Nat], \A i \in 1..Len(levels) : take[i] <= levels[i].size
  PROVE  /\ \A k \in 0..Len(levels) :
              Left(levels, size)[k] > 0 => Prefix(take, k) <= Prefix(Taken(levels, size), k)
         /\ SumOf(take) <= size =>
              \A k \in 0..Len(levels) : Prefix(take, k) <= Prefix(Taken(levels, size), k)
<1> DEFINE L == Len(levels)
           taken == Taken(levels, size)
           left == Left(levels, size)
           X == {k \in 0..L : left[k] > 0 => Prefix(take, k) <= Prefix(taken, k)}
<1>1. L \in Nat
  OBVIOUS
<1>2. /\ \A k \in 0..L : left[k] \in Nat
      /\ \A k \in 1..L : left[k] = After(left[k - 1], levels[k].size) /\ levels[k].size \in Nat
  BY LeftIs
<1>3. taken \in [1..L -> Nat] /\ \A k \in 1..L : left[k] > 0 => taken[k] = levels[k].size
  BY TakenIs
<1>4. \A k \in 1..L : take[k] \in Nat /\ take[k] <= levels[k].size
  OBVIOUS
<1>5. take \in [1..L -> Nat] /\ take \in [1..L -> Int] /\ taken \in [1..L -> Int]
  <2>1. take \in [1..L -> Nat]
    OBVIOUS
  <2> HIDE DEF taken, L
  <2> QED BY <1>3, <2>1
<1>6. \A k \in 0..L : Prefix(taken, k) = size - left[k]
  BY TakenUpTo
<1> HIDE DEF L, taken, left
<1>7. 0 \in X
  BY <1>1, PrefixNone
<1>8. ASSUME NEW k \in 0..(L - 1), k \in X PROVE k + 1 \in X
  <2>1. /\ k + 1 \in 0..L /\ k + 1 \in 1..L /\ k \in 0..L /\ (k + 1) - 1 = k
    BY <1>1, <1>8
  <2>2. SUFFICES ASSUME left[k + 1] > 0 PROVE Prefix(take, k + 1) <= Prefix(taken, k + 1)
    BY <2>1
  <2>3. left[k] > 0
    BY <1>2, <2>1, <2>2 DEF After
  <2>4. /\ Prefix(taken, k + 1) = taken[k + 1] + Prefix(taken, k) /\ Prefix(taken, k) \in Int
        /\ Prefix(take, k + 1) = take[k + 1] + Prefix(take, k) /\ Prefix(take, k) \in Int
    BY <1>1, <1>5, PrefixNext
  <2>5. take[k + 1] <= taken[k + 1] /\ take[k + 1] \in Nat /\ taken[k + 1] \in Nat
    BY <1>2, <1>3, <1>4, <2>1, <2>2
  <2>6. Prefix(take, k) <= Prefix(taken, k)
    BY <1>8, <2>3
  <2> QED BY <2>4, <2>5, <2>6
<1>9. 0..L \subseteq X
  <2> HIDE DEF X
  <2> QED BY <1>1, <1>7, <1>8, Upwards
<1>10. ASSUME SumOf(take) <= size, NEW k \in 0..L
       PROVE  Prefix(take, k) <= Prefix(taken, k)
  <2>1. CASE left[k] > 0
    BY <1>9, <2>1
  <2>2. CASE left[k] = 0
    <3>1. Prefix(take, k) <= SumOf(take) /\ Prefix(take, k) \in Int
      BY <1>1, <1>5, PrefixWithin, PrefixInt
    <3>2. Prefix(taken, k) = size
      BY <1>6, <2>2
    <3>3. SumOf(take) \in Int
      <4>1. IsFiniteSet(1..L)
        BY <1>1, FS_Interval
      <4> QED BY <1>5, <4>1, SumInt
    <3> QED BY <1>10, <3>1, <3>2, <3>3
  <2> QED BY <1>2, <2>1, <2>2
<1>11. \A k \in 0..L : left[k] > 0 => Prefix(take, k) <= Prefix(taken, k)
  BY <1>9
<1> QED BY <1>10, <1>11 DEF L, taken, left

(* What walk_book() takes is a way to take as much, and the best one.      *)
LEMMA WalkIs ==
  ASSUME NEW levels \in Seq(Offer), NEW size \in Nat, NEW n, n = Filled(levels, size)
  PROVE  /\ n < size => Allocations(levels, n + 1) = {}
         /\ \E take \in Allocations(levels, n) : CostOf(levels, take) = Notional(levels, size)
         /\ Rising(levels) => \A take \in Allocations(levels, n) :
                               CostOf(levels, take) >= Notional(levels, size)
         /\ Falling(levels) => \A take \in Allocations(levels, n) :
                                CostOf(levels, take) <= Notional(levels, size)
<1> DEFINE L == Len(levels)
           taken == Taken(levels, size)
           price == [i \in 1..L |-> levels[i].price]
           negative == [i \in 1..L |-> -levels[i].price]
           cost(t) == [i \in 1..L |-> t[i] * price[i]]
           minus(t) == [i \in 1..L |-> t[i] * negative[i]]
<1>1. L \in Nat /\ L \in 0..L /\ IsFiniteSet(1..L)
  <2>1. L \in Nat
    OBVIOUS
  <2> QED BY <2>1, FS_Interval
<1>2. n \in Nat /\ n <= size /\ n = size - Left(levels, size)[L] /\ Left(levels, size)[L] \in Nat
  BY FilledIs
<1>3. taken \in [1..L -> Nat] /\ \A i \in 1..L : taken[i] <= levels[i].size
  BY TakenIs
<1>4. SumOf(taken) = n
  BY DEF Filled
<1>5. \A i \in 1..L : levels[i].price \in Nat /\ levels[i].size \in Nat
  BY LeftIs
<1>6. ASSUME NEW m \in Nat, NEW take \in Allocations(levels, m)
      PROVE  /\ take \in [1..L -> Nat] /\ take \in [1..L -> Int] /\ SumOf(take) = m
             /\ \A i \in 1..L : take[i] <= levels[i].size
             /\ CostOf(levels, take) = SumOf(cost(take))
  <2>1. take \in [1..L -> 0..m] /\ SumOf(take) = m /\ \A i \in 1..L : take[i] <= levels[i].size
    BY DEF Allocations
  <2>2. cost(take) = [i \in 1..L |-> take[i] * levels[i].price]
    OBVIOUS
  <2>3. CostOf(levels, take) = SumOf(cost(take))
    BY <2>2 DEF CostOf
  <2> QED BY <2>1, <2>3
<1>7. Notional(levels, size) = SumOf(cost(taken))
  <2>1. cost(taken) = [i \in 1..L |-> taken[i] * levels[i].price]
    OBVIOUS
  <2> QED BY <2>1 DEF Notional
<1>8. price \in [1..L -> Int] /\ negative \in [1..L -> Int]
  BY <1>5
<1>9. taken \in [1..L -> Int]
  <2> HIDE DEF taken, L
  <2> QED BY <1>3
<1>10. ASSUME n < size PROVE Allocations(levels, n + 1) = {}
  <2> SUFFICES ASSUME NEW take \in Allocations(levels, n + 1) PROVE FALSE
    OBVIOUS
  <2>1. take \in [1..L -> Nat] /\ SumOf(take) = n + 1 /\ \A i \in 1..L : take[i] <= levels[i].size
    <3>1. n + 1 \in Nat
      BY <1>2
    <3> QED BY <1>6, <3>1
  <2>2. Left(levels, size)[L] > 0
    BY <1>2, <1>10
  <2>3. Prefix(take, L) <= Prefix(taken, L)
    BY <1>1, <2>1, <2>2, NeverBehind
  <2>4. Prefix(take, L) = n + 1 /\ Prefix(taken, L) = n
    <3> HIDE DEF taken, L
    <3> QED BY <1>3, <1>4, <2>1, PrefixAll
  <2> QED BY <1>2, <2>3, <2>4
<1>11. taken \in Allocations(levels, n)
  <2>1. \A i \in 1..L : taken[i] <= SumOf(taken)
    <3> HIDE DEF taken, L
    <3> QED BY <1>1, <1>3, SumNat
  <2>2. taken \in [1..L -> 0..n]
    <3> HIDE DEF taken, L
    <3> QED BY <1>2, <1>3, <1>4, <2>1
  <2> QED BY <1>3, <1>4, <2>2 DEF Allocations
<1>12. CostOf(levels, taken) = Notional(levels, size)
  BY <1>2, <1>6, <1>7, <1>11
<1>13. ASSUME NEW take \in Allocations(levels, n)
       PROVE  /\ take \in [1..L -> Int] /\ SumOf(take) = SumOf(taken)
              /\ \A k \in 0..L : Prefix(take, k) <= Prefix(taken, k)
              /\ CostOf(levels, take) = SumOf(cost(take))
  <2>1. /\ take \in [1..L -> Nat] /\ take \in [1..L -> Int] /\ SumOf(take) = n
        /\ \A i \in 1..L : take[i] <= levels[i].size
        /\ CostOf(levels, take) = SumOf(cost(take))
    BY <1>2, <1>6
  <2>2. \A k \in 0..L : Prefix(take, k) <= Prefix(taken, k)
    BY <1>2, <2>1, NeverBehind
  <2> QED BY <1>4, <2>1, <2>2
<1>14. ASSUME Rising(levels), NEW take \in Allocations(levels, n)
       PROVE  CostOf(levels, take) >= Notional(levels, size)
  <2>1. \A i, j \in 1..L : i <= j => price[i] <= price[j]
    BY <1>14 DEF Rising
  <2>2. SumOf(cost(taken)) <= SumOf(cost(take))
    <3>1. /\ take \in [1..L -> Int] /\ SumOf(take) = SumOf(taken)
          /\ \A k \in 0..L : Prefix(take, k) <= Prefix(taken, k)
      BY <1>13
    <3> HIDE DEF taken, L, price
    <3> QED BY <1>1, <1>8, <1>9, <2>1, <3>1, Earlier
  <2>3. CostOf(levels, take) = SumOf(cost(take))
    BY <1>13
  <2> HIDE DEF cost
  <2> QED BY <1>7, <2>2, <2>3
<1>15. ASSUME NEW t \in [1..L -> Int]
       PROVE  SumOf(minus(t)) = -SumOf(cost(t)) /\ SumOf(cost(t)) \in Int
  <2> DEFINE c == cost(t)
  <2>1. c \in [1..L -> Int]
    <3>1. \A i \in 1..L : t[i] \in Int /\ price[i] \in Int
      BY <1>8
    <3> HIDE DEF price, L
    <3> QED BY <3>1, ProductInt
  <2>2. \A i \in 1..L : t[i] * negative[i] = -c[i]
    <3> TAKE i \in 1..L
    <3>1. t[i] \in Int /\ levels[i].price \in Int
      BY <1>5
    <3>2. \A x, y \in Int : x * (-y) = -(x * y)
      OBVIOUS
    <3> QED BY <3>1, <3>2
  <2>3. minus(t) = [i \in 1..L |-> -c[i]]
    BY <2>2
  <2> HIDE DEF c, minus, L
  <2> QED BY <1>1, <2>1, <2>3, SumNegated DEF c
<1>16. ASSUME Falling(levels), NEW take \in Allocations(levels, n)
       PROVE  CostOf(levels, take) <= Notional(levels, size)
  <2>1. \A i, j \in 1..L : i <= j => negative[i] <= negative[j]
    BY <1>5, <1>16 DEF Falling
  <2>2. /\ take \in [1..L -> Int] /\ SumOf(take) = SumOf(taken)
        /\ \A k \in 0..L : Prefix(take, k) <= Prefix(taken, k)
        /\ CostOf(levels, take) = SumOf(cost(take))
    BY <1>13
  <2>3. SumOf(minus(taken)) <= SumOf(minus(take))
    <3> HIDE DEF taken, L, negative
    <3> QED BY <1>1, <1>8, <1>9, <2>1, <2>2, Earlier
  <2>4. /\ SumOf(minus(taken)) = -SumOf(cost(taken)) /\ SumOf(cost(taken)) \in Int
        /\ SumOf(minus(take)) = -SumOf(cost(take)) /\ SumOf(cost(take)) \in Int
    BY <1>9, <1>15, <2>2
  <2> HIDE DEF cost, minus
  <2> QED BY <1>7, <2>2, <2>3, <2>4
<1> QED BY <1>10, <1>11, <1>12, <1>14, <1>16
Booked == \A s \in DOMAIN books : books[s] \in OrderBook

(* The books are what came in.                                             *)
LEMMA BooksAreSeen == BrokerSpec => []Booked
<1>1. NoBooksYet => Booked
  BY DEF NoBooksYet, Booked
<1>2. Booked /\ [\E s, b : b \in OrderBook /\ OnBook(s, b)]_<<books, now>> => Booked'
  <2> SUFFICES ASSUME Booked, [\E s, b : b \in OrderBook /\ OnBook(s, b)]_<<books, now>>
               PROVE  Booked'
    OBVIOUS
  <2>1. CASE UNCHANGED <<books, now>>
    BY <2>1 DEF Booked
  <2>2. ASSUME NEW s, NEW b \in OrderBook, OnBook(s, b) PROVE Booked'
    BY <2>2 DEF OnBook, Booked
  <2> QED BY <2>1, <2>2
<1> QED BY <1>1, <1>2, PTL DEF BrokerSpec

(* The side an order is filled against: best level first, and its size.    *)
LEMMA SideIs ==
  ASSUME Booked, NEW o \in Orders
  PROVE  /\ Side(o) \in Seq(Offer) /\ o.size \in Nat \ {0}
         /\ o.direction = "long" => Rising(Side(o))
         /\ o.direction # "long" => Falling(Side(o))
<1>1. o.symbol \in DOMAIN books /\ o.size \in Nat \ {0}
  BY BrokerAssumption DEF Orders
<1>2. books[o.symbol] \in OrderBook
  BY <1>1 DEF Booked
<1> QED BY <1>1, <1>2 DEF Side, OrderBook

(* The property the run checks, for every book, every size of order and    *)
(* however the books come: walk_book() takes the best a book has.          *)
THEOREM WalkTakesBest == BrokerSpec => []WalkIsBest
<1>1. Booked => WalkIsBest
  <2> SUFFICES ASSUME Booked, NEW o \in Orders
               PROVE  LET levels == Side(o)
                          n == Filled(levels, o.size)
                      IN  /\ n <= o.size
                          /\ n < o.size => Allocations(levels, n + 1) = {}
                          /\ \E take \in Allocations(levels, n) :
                               CostOf(levels, take) = Notional(levels, o.size)
                          /\ \A take \in Allocations(levels, n) :
                               IF o.direction = "long" THEN CostOf(levels, take) >= Notional(levels, o.size)
                               ELSE CostOf(levels, take) <= Notional(levels, o.size)
    BY DEF WalkIsBest
  <2> DEFINE levels == Side(o)
             n == Filled(levels, o.size)
  <2>1. /\ levels \in Seq(Offer) /\ o.size \in Nat
        /\ o.direction = "long" => Rising(levels)
        /\ o.direction # "long" => Falling(levels)
    BY SideIs
  <2>2. n <= o.size
    <3> HIDE DEF levels
    <3> QED BY <2>1, FilledIs
  <2>3. /\ n < o.size => Allocations(levels, n + 1) = {}
        /\ \E take \in Allocations(levels, n) : CostOf(levels, take) = Notional(levels, o.size)
        /\ Rising(levels) => \A take \in Allocations(levels, n) :
                              CostOf(levels, take) >= Notional(levels, o.size)
        /\ Falling(levels) => \A take \in Allocations(levels, n) :
                               CostOf(levels, take) <= Notional(levels, o.size)
    <3> HIDE DEF levels
    <3> QED BY <2>1, WalkIs
  <2> HIDE DEF levels, n
  <2>4. /\ n <= o.size
        /\ n < o.size => Allocations(levels, n + 1) = {}
        /\ \E take \in Allocations(levels, n) : CostOf(levels, take) = Notional(levels, o.size)
        /\ \A take \in Allocations(levels, n) :
             IF o.direction = "long" THEN CostOf(levels, take) >= Notional(levels, o.size)
             ELSE CostOf(levels, take) <= Notional(levels, o.size)
    BY <2>1, <2>2, <2>3
  <2> QED BY <2>4 DEF levels, n
<1> QED BY <1>1, BooksAreSeen, PTL
(* Of two orders of a side, the larger has as much left at every level.    *)
LEMMA LeftGrows ==
  ASSUME NEW levels \in Seq(Offer), NEW a \in Nat, NEW b \in Nat, a <= b
  PROVE  \A k \in 0..Len(levels) : Left(levels, a)[k] <= Left(levels, b)[k]
<1> DEFINE L == Len(levels)
           few == Left(levels, a)
           many == Left(levels, b)
           X == {k \in 0..L : few[k] <= many[k]}
<1>1. L \in Nat
  OBVIOUS
<1>2. /\ few[0] = a /\ \A k \in 0..L : few[k] \in Nat
      /\ \A k \in 1..L : levels[k].size \in Nat /\ few[k] = After(few[k - 1], levels[k].size)
  BY LeftIs
<1>3. /\ many[0] = b /\ \A k \in 0..L : many[k] \in Nat
      /\ \A k \in 1..L : many[k] = After(many[k - 1], levels[k].size)
  BY LeftIs
<1> HIDE DEF L, few, many
<1>4. 0 \in X
  BY <1>1, <1>2, <1>3
<1>5. ASSUME NEW k \in 0..(L - 1), k \in X PROVE k + 1 \in X
  <2>1. /\ k + 1 \in 0..L /\ k + 1 \in 1..L /\ k \in 0..L /\ (k + 1) - 1 = k
    BY <1>1, <1>5
  <2>2. /\ few[k + 1] = After(few[k], levels[k + 1].size)
        /\ many[k + 1] = After(many[k], levels[k + 1].size)
        /\ few[k] \in Nat /\ many[k] \in Nat /\ levels[k + 1].size \in Nat
    BY <1>2, <1>3, <2>1
  <2>3. few[k] <= many[k]
    BY <1>5
  <2>4. few[k + 1] <= many[k + 1]
    BY <2>2, <2>3 DEF After
  <2> QED BY <2>1, <2>4
<1>6. 0..L \subseteq X
  <2> HIDE DEF X
  <2> QED BY <1>1, <1>4, <1>5, Upwards
<1> QED BY <1>6 DEF L, few, many

(* Where the smaller order ends the larger one goes on: up to a level they *)
(* take alike, and beyond it the smaller takes nothing.                    *)
LEMMA LongerWalk ==
  ASSUME NEW levels \in Seq(Offer), levels # << >>,
         NEW a \in Nat \ {0}, NEW b \in Nat, a <= b
  PROVE  \E m \in 1..Len(levels) :
           /\ \A i \in 1..Len(levels) : i < m => Taken(levels, a)[i] = Taken(levels, b)[i]
           /\ \A i \in 1..Len(levels) : i > m => Taken(levels, a)[i] = 0
           /\ Taken(levels, a)[m] <= Taken(levels, b)[m]
<1> DEFINE L == Len(levels)
           few == Left(levels, a)
           many == Left(levels, b)
           less == Taken(levels, a)
           more == Taken(levels, b)
           Out == {k \in 0..L : few[k] = 0}
<1>1. L \in Nat \ {0}
  OBVIOUS
<1>2. /\ few[0] = a /\ \A k \in 0..L : few[k] \in Nat
      /\ \A k \in 1..L : levels[k].size \in Nat /\ few[k] = After(few[k - 1], levels[k].size)
  BY LeftIs
<1>3. \A k \in 0..L : many[k] \in Nat /\ few[k] <= many[k]
  <2>1. \A k \in 0..L : many[k] \in Nat
    BY LeftIs
  <2> HIDE DEF L, many
  <2> QED BY <2>1, LeftGrows DEF L, many
<1>4. \A k \in 1..L : /\ less[k] = few[k - 1] - few[k] /\ less[k] <= levels[k].size
                      /\ few[k] > 0 => less[k] = levels[k].size
  BY TakenIs
<1>5. \A k \in 1..L : /\ more[k] = many[k - 1] - many[k]
                      /\ many[k] > 0 => more[k] = levels[k].size
  BY TakenIs
<1> HIDE DEF L, few, many, less, more
<1>6. \A k \in 1..L : k \in 0..L /\ k - 1 \in 0..L
  BY <1>1
<1>7. \A k \in 1..L : few[k] > 0 => less[k] = more[k]
  <2> SUFFICES ASSUME NEW k \in 1..L, few[k] > 0 PROVE less[k] = more[k]
    OBVIOUS
  <2>1. many[k] > 0
    BY <1>2, <1>3, <1>6
  <2> QED BY <1>4, <1>5, <2>1
<1>8. CASE Out = {}
  <2>1. \A k \in 0..L : few[k] > 0
    BY <1>2, <1>8
  <2>2. \A k \in 1..L : less[k] = more[k]
    BY <1>6, <1>7, <2>1
  <2>3. L \in 1..L /\ \A k \in 1..L : ~(k > L)
    BY <1>1
  <2>4. less[L] \in Int
    <3>1. less[L] = few[L - 1] - few[L]
      BY <1>4, <2>3
    <3>2. few[L - 1] \in Nat /\ few[L] \in Nat
      BY <1>2, <1>6, <2>3
    <3> QED BY <3>1, <3>2
  <2>5. less[L] <= more[L]
    BY <2>2, <2>3, <2>4
  <2> QED BY <2>2, <2>3, <2>5 DEF L, less, more
<1>9. CASE Out # {}
  <2>1. PICK m \in Out : \A k \in Out : m <= k
    <3>1. Out \in SUBSET Nat
      BY <1>1
    <3> HIDE DEF Out
    <3> QED BY <1>9, <3>1, LeastNat
  <2>2. m \in 1..L /\ few[m] = 0 /\ m \in 0..L
    BY <1>1, <1>2, <2>1
  <2>3. \A k \in 1..L : k < m => few[k] > 0
    <3> SUFFICES ASSUME NEW k \in 1..L, k < m PROVE few[k] > 0
      OBVIOUS
    <3>1. k \notin Out
      BY <2>1, <2>2
    <3> QED BY <1>2, <1>6, <3>1
  <2> DEFINE X == {k \in 0..L : k >= m => few[k] = 0}
  <2>4. 0 \in X
    BY <1>1, <2>2
  <2>5. ASSUME NEW k \in 0..(L - 1), k \in X PROVE k + 1 \in X
    <3>1. /\ k + 1 \in 0..L /\ k + 1 \in 1..L /\ k \in 0..L /\ (k + 1) - 1 = k
      BY <1>1, <2>5
    <3>2. CASE k >= m
      <4>1. /\ few[k + 1] = After(few[k], levels[k + 1].size) /\ few[k] = 0
            /\ levels[k + 1].size \in Nat
        BY <1>2, <2>5, <3>1, <3>2
      <4>2. few[k + 1] = 0
        BY <4>1 DEF After
      <4> QED BY <3>1, <4>2
    <3>3. CASE k + 1 = m
      BY <2>2, <3>1, <3>3
    <3>4. CASE k + 1 < m
      BY <2>2, <3>1, <3>4
    <3> QED BY <2>2, <3>1, <3>2, <3>3, <3>4
  <2>6. 0..L \subseteq X
    <3> HIDE DEF X
    <3> QED BY <1>1, <2>4, <2>5, Upwards
  <2>7. \A k \in 1..L : k > m => less[k] = 0
    <3> SUFFICES ASSUME NEW k \in 1..L, k > m PROVE less[k] = 0
      OBVIOUS
    <3>1. k \in 0..L /\ k - 1 \in 0..L /\ k >= m /\ k - 1 >= m
      BY <1>1, <2>2
    <3>2. few[k] = 0 /\ few[k - 1] = 0
      BY <2>6, <3>1
    <3> QED BY <1>4, <3>2
  <2>8. less[m] <= more[m]
    <3>1. few[m - 1] \in Nat /\ many[m - 1] \in Nat /\ many[m] \in Nat /\ few[m - 1] <= many[m - 1]
      BY <1>2, <1>3, <1>6, <2>2
    <3>2. less[m] = few[m - 1] /\ less[m] <= levels[m].size
      BY <1>4, <2>2, <3>1
    <3>3. more[m] = many[m - 1] - many[m] /\ (many[m] > 0 => more[m] = levels[m].size)
      BY <1>5, <2>2
    <3> QED BY <3>1, <3>2, <3>3
  <2>9. \A k \in 1..L : k < m => less[k] = more[k]
    BY <1>7, <2>3
  <2> QED BY <2>2, <2>7, <2>8, <2>9 DEF L, less, more
<1> QED BY <1>8, <1>9

(* The average a larger order pays is no better, as a fraction compares.   *)
LEMMA AverageWorsens ==
  ASSUME NEW levels \in Seq(Offer), NEW a \in Nat \ {0}, NEW b \in Nat, a <= b
  PROVE  /\ Notional(levels, a) \in Nat /\ Notional(levels, b) \in Nat
         /\ Rising(levels) =>
              Notional(levels, a) * Filled(levels, b) <= Notional(levels, b) * Filled(levels, a)
         /\ Falling(levels) =>
              Notional(levels, b) * Filled(levels, a) <= Notional(levels, a) * Filled(levels, b)
<1> DEFINE L == Len(levels)
           less == Taken(levels, a)
           more == Taken(levels, b)
           price == [i \in 1..L |-> levels[i].price]
           negative == [i \in 1..L |-> -levels[i].price]
           cost(t) == [i \in 1..L |-> t[i] * price[i]]
           minus(t) == [i \in 1..L |-> t[i] * negative[i]]
<1>1. L \in Nat /\ IsFiniteSet(1..L)
  <2>1. L \in Nat
    OBVIOUS
  <2> QED BY <2>1, FS_Interval
<1>2. less \in [1..L -> Nat] /\ more \in [1..L -> Nat]
  BY TakenIs
<1>3. \A i \in 1..L : levels[i].price \in Nat
  BY LeftIs
<1>4. price \in [1..L -> Int] /\ price \in [1..L -> Nat] /\ negative \in [1..L -> Int]
  BY <1>3
<1>5. /\ Notional(levels, a) = SumOf(cost(less)) /\ Notional(levels, b) = SumOf(cost(more))
      /\ Filled(levels, a) = SumOf(less) /\ Filled(levels, b) = SumOf(more)
  <2>1. /\ cost(less) = [i \in 1..L |-> less[i] * levels[i].price]
        /\ cost(more) = [i \in 1..L |-> more[i] * levels[i].price]
    OBVIOUS
  <2> QED BY <2>1 DEF Notional, Filled
<1>6. ASSUME NEW t \in [1..L -> Nat]
      PROVE  SumOf(cost(t)) \in Nat /\ SumOf(minus(t)) = -SumOf(cost(t))
  <2> DEFINE c == cost(t)
  <2>1. c \in [1..L -> Nat] /\ c \in [1..L -> Int]
    <3>1. \A x, y \in Nat : x * y \in Nat
      OBVIOUS
    <3>2. \A i \in 1..L : t[i] \in Nat /\ price[i] \in Nat
      BY <1>4
    <3> HIDE DEF price, L
    <3>3. \A i \in 1..L : t[i] * price[i] \in Nat
      BY <3>1, <3>2
    <3>4. c = [i \in 1..L |-> c[i]] /\ \A i \in 1..L : c[i] \in Nat
      BY <3>3
    <3> HIDE DEF c
    <3> QED BY <3>4
  <2>2. \A i \in 1..L : t[i] * negative[i] = -c[i]
    <3> TAKE i \in 1..L
    <3>1. t[i] \in Int /\ levels[i].price \in Int
      BY <1>3
    <3>2. \A x, y \in Int : x * (-y) = -(x * y)
      OBVIOUS
    <3> QED BY <3>1, <3>2
  <2>3. minus(t) = [i \in 1..L |-> -c[i]]
    BY <2>2
  <2> HIDE DEF c, minus, L
  <2>4. SumOf([i \in 1..L |-> -c[i]]) = -SumOf(c)
    BY <1>1, <2>1, SumNegated
  <2>5. SumOf(c) \in Nat
    BY <1>1, <2>1, SumNat
  <2> QED BY <2>3, <2>4, <2>5 DEF c
<1>7. CASE levels = << >>
  <2>1. /\ SumOf(less) = 0 /\ SumOf(more) = 0
    <3>1. L = 0 /\ 1..L = {}
      BY <1>7
    <3>2. less = more
      BY <1>2, <3>1
    <3>3. Prefix(less, 0) = 0 /\ Prefix(less, 0) = SumOf(less)
      <4> HIDE DEF less, L
      <4> QED BY <1>2, <3>1, PrefixNone, PrefixAll
    <3> QED BY <3>2, <3>3
  <2> HIDE DEF cost
  <2>2. SumOf(cost(less)) \in Nat /\ SumOf(cost(more)) \in Nat
    BY <1>2, <1>6
  <2> HIDE DEF less, more
  <2> QED BY <1>5, <2>1, <2>2
<1>8. CASE levels # << >>
  <2>1. PICK m \in 1..L : /\ \A i \in 1..L : i < m => less[i] = more[i]
                          /\ \A i \in 1..L : i > m => less[i] = 0
                          /\ less[m] <= more[m]
    BY <1>8, LongerWalk
  <2>2. ASSUME NEW p \in [1..L -> Int], \A i, j \in 1..L : i <= j => p[i] <= p[j]
        PROVE  SumOf([i \in 1..L |-> less[i] * p[i]]) * SumOf(more)
                 <= SumOf([i \in 1..L |-> more[i] * p[i]]) * SumOf(less)
    <3> HIDE DEF less, more, L
    <3> QED BY <1>1, <1>2, <2>1, <2>2, OnAverage
  <2>3. /\ SumOf(cost(less)) \in Nat /\ SumOf(minus(less)) = -SumOf(cost(less))
        /\ SumOf(cost(more)) \in Nat /\ SumOf(minus(more)) = -SumOf(cost(more))
    <3> HIDE DEF less, more, cost, minus, L
    <3> QED BY <1>2, <1>6
  <2>4. Rising(levels) => SumOf(cost(less)) * SumOf(more) <= SumOf(cost(more)) * SumOf(less)
    <3> SUFFICES ASSUME Rising(levels)
                 PROVE  SumOf(cost(less)) * SumOf(more) <= SumOf(cost(more)) * SumOf(less)
      OBVIOUS
    <3>1. \A i, j \in 1..L : i <= j => price[i] <= price[j]
      BY DEF Rising
    <3> HIDE DEF price
    <3> QED BY <1>4, <2>2, <3>1
  <2>5. Falling(levels) => SumOf(minus(less)) * SumOf(more) <= SumOf(minus(more)) * SumOf(less)
    <3> SUFFICES ASSUME Falling(levels)
                 PROVE  SumOf(minus(less)) * SumOf(more) <= SumOf(minus(more)) * SumOf(less)
      OBVIOUS
    <3>1. \A i, j \in 1..L : i <= j => negative[i] <= negative[j]
      BY <1>3 DEF Falling
    <3> HIDE DEF negative
    <3> QED BY <1>4, <2>2, <3>1
  <2>6. SumOf(less) \in Nat /\ SumOf(more) \in Nat
    <3> HIDE DEF less, more, L
    <3> QED BY <1>1, <1>2, SumNat
  <2>7. \A x, y, u, v \in Nat : (-x) * v <= (-y) * u => y * u <= x * v
    OBVIOUS
  <2> HIDE DEF less, more, cost, minus
  <2>8. Falling(levels) => SumOf(cost(more)) * SumOf(less) <= SumOf(cost(less)) * SumOf(more)
    BY <2>3, <2>5, <2>6, <2>7
  <2> QED BY <1>5, <2>3, <2>4, <2>8
<1> QED BY <1>7, <1>8
(* Quotients, and the rounding of quantize(), keep the order of fractions. *)
LEMMA QuotientGrows ==
  ASSUME NEW a \in Nat, NEW b \in Nat \ {0}, NEW c \in Nat, NEW d \in Nat \ {0}, a * d <= c * b
  PROVE  a \div b <= c \div d
<1>1. PICK q \in Int, r \in 0..(b - 1) : a = b * q + r /\ q = a \div b
  OBVIOUS
<1>2. PICK u \in Int, v \in 0..(d - 1) : c = d * u + v /\ u = c \div d
  OBVIOUS
<1>3. SUFFICES ASSUME u + 1 <= q PROVE FALSE
  BY <1>1, <1>2
<1>4. PICK t \in Nat : q = u + 1 + t
  <2>1. q - (u + 1) \in Nat /\ q = u + 1 + (q - (u + 1))
    BY <1>3
  <2> QED BY <2>1
<1>5. c < d * (u + 1)
  <2>1. d * (u + 1) = d * u + d
    OBVIOUS
  <2>2. d * u \in Int
    BY ProductInt
  <2> QED BY <1>2, <2>1, <2>2
<1>6. b * (u + 1) <= a
  <2>1. b * q = b * (u + 1) + b * t
    BY <1>4
  <2>2. b * t \in Nat
    OBVIOUS
  <2>3. b * (u + 1) \in Int /\ b * q \in Int
    BY ProductInt
  <2> QED BY <1>1, <2>1, <2>2, <2>3
<1>7. PICK w \in Int : w = u + 1
  OBVIOUS
<1>8. (b * w) * d <= a * d
  <2>1. b * w <= a /\ b * w \in Int
    BY <1>6, <1>7, ProductInt
  <2> QED BY <2>1, Wider
<1>9. c * b < (d * w) * b
  <2>1. c + 1 <= d * w /\ d * w \in Int
    BY <1>5, <1>7, ProductInt
  <2>2. (c + 1) * b <= (d * w) * b
    BY <2>1, Wider
  <2>3. (c + 1) * b = c * b + b /\ c * b \in Int /\ (d * w) * b \in Int
    BY <2>1, ProductInt
  <2> QED BY <2>2, <2>3
<1>10. (b * w) * d = (d * w) * b
  OBVIOUS
<1>11. a * d \in Int /\ c * b \in Int /\ (d * w) * b \in Int
  BY ProductInt
<1> QED BY <1>8, <1>9, <1>10, <1>11

LEMMA RoundedGrows ==
  ASSUME NEW a \in Nat, NEW b \in Nat \ {0}, NEW c \in Nat, NEW d \in Nat \ {0}, a * d <= c * b
  PROVE  Rounded(a, b) <= Rounded(c, d)
<1>1. PICK e \in Nat, f \in Nat \ {0}, g \in Nat, h \in Nat \ {0} :
        e = 2 * a + b /\ f = 2 * b /\ g = 2 * c + d /\ h = 2 * d
  OBVIOUS
<1>2. PICK x \in Int, y \in Int, z \in Int : x = a * d /\ y = c * b /\ z = b * d
  BY ProductInt
<1>3. e * h = 4 * (a * d) + 2 * (b * d) /\ g * f = 4 * (c * b) + 2 * (b * d)
  BY <1>1
<1>4. e * h <= g * f
  BY <1>2, <1>3
<1> QED BY <1>1, <1>4, QuotientGrows DEF Rounded

(* The property the run checks, for every book and every two sizes: no     *)
(* walk, slippage or quantum makes a larger order cheaper.                 *)
THEOREM SizeNeverPays == BrokerSpec => []SizeIsNeverRewarded
<1>1. ASSUME NEW x \in Nat, NEW y \in Nat, NEW u \in Nat \ {0}, NEW v \in Nat \ {0},
             NEW w \in Nat, NEW e \in Nat \ {0}, x * v <= y * u
      PROVE  Rounded(x * w, u * e) <= Rounded(y * w, v * e)
  <2>1. PICK g \in Nat, h \in Nat \ {0}, k \in Nat, l \in Nat \ {0} :
          g = x * w /\ h = u * e /\ k = y * w /\ l = v * e
    OBVIOUS
  <2>2. g * l = (x * v) * (w * e) /\ k * h = (y * u) * (w * e)
    BY <2>1
  <2>3. x * v \in Int /\ y * u \in Int /\ w * e \in Nat
    BY ProductInt
  <2>4. (x * v) * (w * e) <= (y * u) * (w * e)
    BY <1>1, <2>3, Wider
  <2>5. g * l <= k * h
    BY <2>2, <2>4
  <2> QED BY <2>1, <2>5, RoundedGrows
<1>2. Booked => SizeIsNeverRewarded
  <2> SUFFICES ASSUME Booked, NEW o \in Orders, NEW q \in Orders, Fills(o), Fills(q),
                      o.symbol = q.symbol, o.direction = q.direction, o.size <= q.size
               PROVE  IF o.direction = "long" THEN FillPrice(o) <= FillPrice(q)
                      ELSE FillPrice(o) >= FillPrice(q)
    BY DEF SizeIsNeverRewarded
  <2> DEFINE levels == Side(o)
             worse == IF o.direction = "long" THEN Bps + Slippage ELSE Bps - Slippage
  <2>1. Side(q) = levels
    BY DEF Side
  <2>2. /\ levels \in Seq(Offer) /\ o.size \in Nat \ {0} /\ q.size \in Nat \ {0}
        /\ o.direction = "long" => Rising(levels)
        /\ o.direction # "long" => Falling(levels)
    BY SideIs
  <2>3. Bps \in Nat \ {0} /\ worse \in Nat
    BY BrokerAssumption DEF Bps
  <2>4. /\ FillPrice(o) = Rounded(Notional(levels, o.size) * worse, Filled(levels, o.size) * Bps)
        /\ FillPrice(q) = Rounded(Notional(levels, q.size) * worse, Filled(levels, q.size) * Bps)
    BY <2>1 DEF FillPrice
  <2>5. Filled(levels, o.size) > 0 /\ Filled(levels, q.size) > 0
    BY <2>1 DEF Fills
  <2> HIDE DEF levels, worse
  <2>6. Filled(levels, o.size) \in Nat \ {0} /\ Filled(levels, q.size) \in Nat \ {0}
    <3>1. Filled(levels, o.size) \in Nat /\ Filled(levels, q.size) \in Nat
      BY <2>2, FilledIs
    <3> QED BY <2>5, <3>1
  <2>7. /\ Notional(levels, o.size) \in Nat /\ Notional(levels, q.size) \in Nat
        /\ Rising(levels) =>
             Notional(levels, o.size) * Filled(levels, q.size)
               <= Notional(levels, q.size) * Filled(levels, o.size)
        /\ Falling(levels) =>
             Notional(levels, q.size) * Filled(levels, o.size)
               <= Notional(levels, o.size) * Filled(levels, q.size)
    BY <2>2, AverageWorsens
  <2>8. PICK x \in Nat, y \in Nat, u \in Nat \ {0}, v \in Nat \ {0}, e \in Nat \ {0} :
           /\ x = Notional(levels, o.size) /\ y = Notional(levels, q.size)
           /\ u = Filled(levels, o.size) /\ v = Filled(levels, q.size) /\ e = Bps
    BY <2>3, <2>6, <2>7
  <2>9. FillPrice(o) = Rounded(x * worse, u * e) /\ FillPrice(q) = Rounded(y * worse, v * e)
    BY <2>4, <2>8
  <2>10. /\ Rising(levels) => x * v <= y * u
         /\ Falling(levels) => y * u <= x * v
    BY <2>7, <2>8
  <2>11. x * v <= y * u => Rounded(x * worse, u * e) <= Rounded(y * worse, v * e)
    BY <1>1, <2>3, Zenon
  <2>12. y * u <= x * v => Rounded(y * worse, v * e) <= Rounded(x * worse, u * e)
    BY <1>1, <2>3, Zenon
  <2> QED BY <2>2, <2>9, <2>10, <2>11, <2>12
<1> QED BY <1>2, BooksAreSeen, PTL

-----------------------------------------------------------------------------
(* The replay: the driving bars and the trade as the proofs see them, for  *)
(* any history b.                                                          *)
Way == {"long", "short"}
Reason == {"stop_loss", "trailing_stop", "take_profit", "manual"}
BarShape == [low : Nat, high : Nat, close : Nat]
Running ==
  [direction : Way, entry : Nat, entryPrice : Nat, stop : Int, target : Int, extreme : Nat, bars : Nat]
Ended ==
  [direction : Way, entry : Nat, entryPrice : Nat, stop : Int, target : Int, exit : Nat, price : Int,
   reason : Reason, forced : BOOLEAN, held : Nat]
ReplaySpec == ReplayInit /\ [][ReplayNext]_replayVars

SeenIn(b, t, k) ==
  {t.entryPrice} \cup {IF t.direction = "long" THEN b[j].high ELSE b[j].low : j \in t.entry + 1..k}
PathIn(b, t, k) ==
  [direction |-> t.direction, stop |-> t.stop,
   extreme |-> IF t.direction = "long" THEN Max(SeenIn(b, t, k)) ELSE Min(SeenIn(b, t, k))]
StoppedIn(b, t, k) == \E l \in EffectiveStop(PathIn(b, t, k)) : Fallen(t.direction, b[k], l)
ReachedIn(b, t, k) == t.target # 0 /\ Risen(t.direction, b[k], t.target)
Untouched(b, t, k) == ~StoppedIn(b, t, k) /\ ~ReachedIn(b, t, k)
EndsIn(b, ended, t) ==
  /\ \A k \in t.entry + 1..t.exit - 1 : Untouched(b, t, k)
  /\ t.held = t.exit - t.entry
  /\ IF t.forced THEN /\ t.held > 0 => Untouched(b, t, t.exit)
                      /\ t.held = MaxBarsHeld \/ (ended /\ t.exit = Len(b))
     ELSE IF StoppedIn(b, t, t.exit) THEN {t.price} = EffectiveStop(PathIn(b, t, t.exit))
     ELSE ReachedIn(b, t, t.exit) /\ t.price = t.target

LEMMA EndsAsWritten == ASSUME NEW t PROVE EndsRight(t) <=> EndsIn(bars, over, t)
  BY DEF EndsRight, EndsIn, Untouched, Stopped, StoppedIn, Reached, ReachedIn, Path, PathIn, SeenIn

(* x is the best price of those in S, for a trade that goes the way d.     *)
BestIn(d, x, S) == x \in S /\ \A y \in S : IF d = "long" THEN y <= x ELSE x <= y

LEMMA BestIsExtreme ==
  ASSUME NEW S \in SUBSET Int, NEW x
  PROVE  /\ BestIn("long", x, S) => Max(S) = x
         /\ BestIn("short", x, S) => Min(S) = x
<1>1. ASSUME BestIn("long", x, S) PROVE Max(S) = x
  <2>1. x \in S /\ \A y \in S : x >= y
    BY <1>1 DEF BestIn
  <2>2. \A z \in S : (\A y \in S : z >= y) => z = x
    BY <2>1
  <2> QED BY <2>1, <2>2 DEF Max
<1>2. ASSUME BestIn("short", x, S) PROVE Min(S) = x
  <2>1. x \in S /\ \A y \in S : x <= y
    BY <1>2 DEF BestIn
  <2>2. \A z \in S : (\A y \in S : z <= y) => z = x
    BY <2>1
  <2> QED BY <2>1, <2>2 DEF Min
<1> QED BY <1>1, <1>2

LEMMA BestOfTwo ==
  ASSUME NEW x \in Int, NEW y \in Int
  PROVE  /\ Best("long", x, y) \in {x, y} /\ x <= Best("long", x, y) /\ y <= Best("long", x, y)
         /\ Best("short", x, y) \in {x, y} /\ Best("short", x, y) <= x /\ Best("short", x, y) <= y
<1>1. ASSUME NEW a \in Int, NEW z \in Int, z <= a
      PROVE  Max({a, z}) = a /\ Max({z, a}) = a /\ Min({a, z}) = z /\ Min({z, a}) = z
  <2>1. BestIn("long", a, {a, z}) /\ BestIn("short", z, {a, z}) /\ {a, z} \in SUBSET Int
    BY <1>1 DEF BestIn
  <2>2. Max({a, z}) = a /\ Min({a, z}) = z
    BY <2>1, BestIsExtreme
  <2>3. {z, a} = {a, z}
    OBVIOUS
  <2> QED BY <2>2, <2>3
<1>2. CASE x <= y
  BY <1>1, <1>2 DEF Best
<1>3. CASE y <= x
  BY <1>1, <1>3 DEF Best
<1> QED BY <1>2, <1>3

LEMMA PathIs ==
  ASSUME NEW b \in Seq(BarShape), NEW t, t.direction \in Way, t.entry \in Nat, t.entryPrice \in Nat,
         NEW k \in 0..Len(b), NEW x, BestIn(t.direction, x, SeenIn(b, t, k))
  PROVE  PathIn(b, t, k) = [direction |-> t.direction, stop |-> t.stop, extreme |-> x]
<1>1. SeenIn(b, t, k) \in SUBSET Int
  <2>1. \A j \in t.entry + 1..k : b[j] \in BarShape
    OBVIOUS
  <2>2. SeenIn(b, t, k) \subseteq Nat
    BY <2>1 DEF SeenIn, BarShape
  <2> QED BY <2>2
<1>2. CASE t.direction = "long"
  <2>1. Max(SeenIn(b, t, k)) = x
    BY <1>1, <1>2, BestIsExtreme
  <2> QED BY <1>2, <2>1 DEF PathIn
<1>3. CASE t.direction = "short"
  <2>1. Min(SeenIn(b, t, k)) = x
    BY <1>1, <1>3, BestIsExtreme
  <2> QED BY <1>3, <2>1 DEF PathIn
<1> QED BY <1>2, <1>3 DEF Way

(* One more bar does not change what was seen before it.                   *)
LEMMA PastStands ==
  ASSUME NEW b \in Seq(BarShape), NEW bar \in BarShape, NEW t, t.entry \in Nat, NEW k \in 0..Len(b)
  PROVE  /\ SeenIn(Append(b, bar), t, k) = SeenIn(b, t, k)
         /\ PathIn(Append(b, bar), t, k) = PathIn(b, t, k)
         /\ k > 0 => /\ StoppedIn(Append(b, bar), t, k) <=> StoppedIn(b, t, k)
                     /\ ReachedIn(Append(b, bar), t, k) <=> ReachedIn(b, t, k)
                     /\ Untouched(Append(b, bar), t, k) <=> Untouched(b, t, k)
<1>1. \A j \in 1..Len(b) : Append(b, bar)[j] = b[j]
  OBVIOUS
<1>2. \A j \in t.entry + 1..k : j \in 1..Len(b)
  OBVIOUS
<1>3. SeenIn(Append(b, bar), t, k) = SeenIn(b, t, k)
  BY <1>1, <1>2 DEF SeenIn
<1>4. PathIn(Append(b, bar), t, k) = PathIn(b, t, k)
  BY <1>3 DEF PathIn
<1>5. k > 0 => Append(b, bar)[k] = b[k]
  BY <1>1
<1> QED BY <1>3, <1>4, <1>5 DEF StoppedIn, ReachedIn, Untouched

LEMMA EndStands ==
  ASSUME NEW b \in Seq(BarShape), NEW bar \in BarShape, NEW t \in Ended, t.exit \in 1..Len(b),
         EndsIn(b, FALSE, t)
  PROVE  EndsIn(Append(b, bar), FALSE, t)
<1>1. t.entry \in Nat /\ t.exit \in Nat
  BY DEF Ended
<1>2. \A k \in 1..Len(b) : /\ StoppedIn(Append(b, bar), t, k) <=> StoppedIn(b, t, k)
                           /\ ReachedIn(Append(b, bar), t, k) <=> ReachedIn(b, t, k)
                           /\ Untouched(Append(b, bar), t, k) <=> Untouched(b, t, k)
                           /\ PathIn(Append(b, bar), t, k) = PathIn(b, t, k)
  BY <1>1, PastStands
<1>3. \A k \in t.entry + 1..t.exit - 1 : k \in 1..Len(b)
  BY <1>1
<1> QED BY <1>2, <1>3 DEF EndsIn

(* The stop is that of the path as long as the extreme is.                 *)
LEMMA StopOfPath ==
  ASSUME NEW t \in Running, NEW r,
         r = [direction |-> t.direction, stop |-> t.stop, extreme |-> t.extreme]
  PROVE  EffectiveStop(r) = EffectiveStop(t)
<1>1. TrailingStop(r) = TrailingStop(t)
  BY DEF TrailingStop, Running
<1> QED BY <1>1 DEF EffectiveStop, Running

LEMMA OneStop == \A t : \A l \in EffectiveStop(t) : EffectiveStop(t) = {l}
  BY DEF EffectiveStop

(* An open trade has met no level of its own, and knows what it has seen.  *)
Alive(b, t) ==
  /\ t.entry \in 1..Len(b) /\ t.bars = Len(b) - t.entry
  /\ BestIn(t.direction, t.extreme, SeenIn(b, t, Len(b)))
  /\ \A k \in t.entry + 1..Len(b) : Untouched(b, t, k)
  /\ MaxBarsHeld = 0 \/ t.bars < MaxBarsHeld

(* observe() takes in the bar, and only it.                                *)
LEMMA Observing ==
  ASSUME NEW b \in Seq(BarShape), NEW bar \in BarShape, NEW t \in Running, Alive(b, t), NEW u,
         u = ObservedBar(t, bar)
  PROVE  /\ u \in Running /\ u.bars = Len(b) + 1 - t.entry
         /\ u.entry = t.entry /\ u.direction = t.direction /\ u.entryPrice = t.entryPrice
         /\ u.stop = t.stop /\ u.target = t.target
         /\ BestIn(t.direction, u.extreme, SeenIn(Append(b, bar), t, Len(b) + 1))
<1> DEFINE price == IF t.direction = "long" THEN bar.high ELSE bar.low
           n == Len(b) + 1
<1>1. /\ t.direction \in Way /\ t.entry \in Nat /\ t.entryPrice \in Nat /\ t.extreme \in Nat
      /\ t.bars \in Nat /\ price \in Nat /\ t.entry <= Len(b) /\ t.bars = Len(b) - t.entry
      /\ Len(b) \in Nat
  BY DEF Running, BarShape, Alive
<1>2. u.extreme = Best(t.direction, t.extreme, price)
  BY DEF ObservedBar, Running
<1>3. \A x, y \in Nat : /\ Best("long", x, y) \in {x, y} /\ x <= Best("long", x, y) /\ y <= Best("long", x, y)
                        /\ Best("short", x, y) \in {x, y} /\ Best("short", x, y) <= x /\ Best("short", x, y) <= y
  BY BestOfTwo
<1>4. /\ u \in Running /\ u.bars = n - t.entry
      /\ u.entry = t.entry /\ u.direction = t.direction /\ u.entryPrice = t.entryPrice
      /\ u.stop = t.stop /\ u.target = t.target
  <2>1. u.extreme \in Nat
    BY <1>1, <1>2, <1>3 DEF Way
  <2>2. u = [t EXCEPT !.bars = t.bars + 1, !.extreme = u.extreme]
    BY DEF ObservedBar, Running
  <2> HIDE DEF n
  <2>3. u \in Running /\ u.bars = t.bars + 1 
        /\ u.entry = t.entry /\ u.direction = t.direction /\ u.entryPrice = t.entryPrice
        /\ u.stop = t.stop /\ u.target = t.target
    <3>1. t = [direction |-> t.direction, entry |-> t.entry, entryPrice |-> t.entryPrice,
               stop |-> t.stop, target |-> t.target, extreme |-> t.extreme, bars |-> t.bars]
      BY DEF Running
    <3>2. u = [direction |-> t.direction, entry |-> t.entry, entryPrice |-> t.entryPrice,
               stop |-> t.stop, target |-> t.target, extreme |-> u.extreme, bars |-> t.bars + 1]
      BY <2>2, <3>1
    <3>3. t.stop \in Int /\ t.target \in Int /\ t.bars + 1 \in Nat
      BY <1>1 DEF Running
    <3> QED BY <1>1, <2>1, <3>2, <3>3 DEF Running
  <2> QED BY <1>1, <2>3 DEF n
<1>5. SeenIn(Append(b, bar), t, n) = SeenIn(b, t, Len(b)) \cup {price}
  <2>1. Append(b, bar)[n] = bar /\ \A j \in 1..Len(b) : Append(b, bar)[j] = b[j]
    OBVIOUS
  <2>2. t.entry + 1..n = (t.entry + 1..Len(b)) \cup {n} /\ \A j \in t.entry + 1..Len(b) : j \in 1..Len(b)
    BY <1>1
  <2>3. \A x : (x \in SeenIn(Append(b, bar), t, n)) <=> (x \in SeenIn(b, t, Len(b)) \/ x = price)
    <3> TAKE x
    <3> HIDE DEF n, price
    <3>1. x \in SeenIn(Append(b, bar), t, n)
          <=> (x = t.entryPrice \/ \E j \in t.entry + 1..n :
                 x = (IF t.direction = "long" THEN Append(b, bar)[j].high ELSE Append(b, bar)[j].low))
      BY DEF SeenIn
    <3>2. x \in SeenIn(b, t, Len(b))
          <=> (x = t.entryPrice \/ \E j \in t.entry + 1..Len(b) :
                 x = (IF t.direction = "long" THEN b[j].high ELSE b[j].low))
      BY DEF SeenIn
    <3>3. price = (IF t.direction = "long" THEN Append(b, bar)[n].high ELSE Append(b, bar)[n].low)
      BY <2>1 DEF price
    <3> QED BY <2>1, <2>2, <3>1, <3>2, <3>3
  <2> QED BY <2>3
<1>6. BestIn(t.direction, t.extreme, SeenIn(b, t, Len(b)))
  BY DEF Alive
<1>7. SeenIn(b, t, Len(b)) \subseteq Nat
  <2>1. \A j \in t.entry + 1..Len(b) : b[j] \in BarShape
    BY <1>1
  <2> QED BY <1>1, <2>1 DEF SeenIn, BarShape
<1>8. BestIn(t.direction, u.extreme, SeenIn(b, t, Len(b)) \cup {price})
  <2> DEFINE S == SeenIn(b, t, Len(b))
  <2>1. t.extreme \in S /\ \A y \in S : IF t.direction = "long" THEN y <= t.extreme ELSE t.extreme <= y
    BY <1>6 DEF BestIn
  <2> HIDE DEF S, price
  <2>2. CASE t.direction = "long"
    <3>1. u.extreme \in {t.extreme, price} /\ t.extreme <= u.extreme /\ price <= u.extreme /\ u.extreme \in Nat
      BY <1>1, <1>2, <1>3, <2>2
    <3>2. \A y \in S : y <= u.extreme
      BY <1>1, <1>7, <2>1, <2>2, <3>1 DEF S
    <3> QED BY <2>1, <2>2, <3>1, <3>2 DEF BestIn, S
  <2>3. CASE t.direction = "short"
    <3>1. u.extreme \in {t.extreme, price} /\ u.extreme <= t.extreme /\ u.extreme <= price /\ u.extreme \in Nat
      BY <1>1, <1>2, <1>3, <2>3
    <3>2. \A y \in S : u.extreme <= y
      BY <1>1, <1>7, <2>1, <2>3, <3>1 DEF S
    <3> QED BY <2>1, <2>3, <3>1, <3>2 DEF BestIn, S
  <2> QED BY <1>1, <2>2, <2>3 DEF Way
<1>9. BestIn(t.direction, u.extreme, SeenIn(Append(b, bar), t, n))
  <2> HIDE DEF price, n
  <2> QED BY <1>5, <1>8
<1>10. n = Len(b) + 1
  OBVIOUS
<1> HIDE DEF n, price
<1>11. u.bars = Len(b) + 1 - t.entry
  BY <1>1, <1>4, <1>10
<1>12. BestIn(t.direction, u.extreme, SeenIn(Append(b, bar), t, Len(b) + 1))
  BY <1>9, <1>10
<1> QED BY <1>4, <1>11, <1>12

(* What _exit_on() finds on a bar is a level the bar was at, the stop      *)
(* before the target.                                                      *)
LEMMA ExitIs ==
  ASSUME NEW b \in Seq(BarShape), NEW n \in 1..Len(b), NEW u \in Running,
         BestIn(u.direction, u.extreme, SeenIn(b, u, n))
  PROVE  /\ ExitOn(u, b[n]) = {} => Untouched(b, u, n)
         /\ \A e \in ExitOn(u, b[n]) :
              /\ ExitOn(u, b[n]) = {e} /\ e.price \in Int /\ e.reason \in Reason
              /\ IF StoppedIn(b, u, n) THEN {e.price} = EffectiveStop(PathIn(b, u, n))
                 ELSE ReachedIn(b, u, n) /\ e.price = u.target
<1>1. /\ u.direction \in Way /\ u.entry \in Nat /\ u.entryPrice \in Nat /\ n \in 0..Len(b)
      /\ u.stop \in Int /\ u.target \in Int /\ u.extreme \in Nat
  BY DEF Running
<1>2. PathIn(b, u, n) = [direction |-> u.direction, stop |-> u.stop, extreme |-> u.extreme]
  BY <1>1, PathIs
<1>3. EffectiveStop(PathIn(b, u, n)) = EffectiveStop(u)
  BY <1>2, StopOfPath
<1> DEFINE hit == {l \in EffectiveStop(u) : Fallen(u.direction, b[n], l)}
           why(l) == IF TrailingStop(u) = {l} /\ u.stop # l THEN "trailing_stop" ELSE "stop_loss"
           met == {h \in {u.target} : h # 0 /\ Risen(u.direction, b[n], h)}
<1>20. /\ StopExits(u, b[n]) = {[reason |-> why(l), price |-> l] : l \in hit}
       /\ TargetExits(u, b[n]) = {[reason |-> "take_profit", price |-> u.target] : h \in met}
  BY DEF StopExits, TargetExits
<1>21. (StoppedIn(b, u, n) <=> hit # {}) /\ (ReachedIn(b, u, n) <=> met # {})
  BY <1>3 DEF StoppedIn, ReachedIn
<1>22. \A l \in hit : hit = {l} /\ l \in EffectiveStop(u) /\ why(l) \in Reason
  <2> TAKE l \in hit
  <2>1. l \in EffectiveStop(u)
    OBVIOUS
  <2>2. EffectiveStop(u) = {l}
    BY <2>1, OneStop
  <2>3. hit \subseteq EffectiveStop(u)
    OBVIOUS
  <2>4. why(l) \in Reason
    BY DEF Reason
  <2> HIDE DEF hit, why
  <2> QED BY <2>1, <2>2, <2>3, <2>4
<1>23. \A h \in met : met = {h}
  OBVIOUS
<1> HIDE DEF hit, why, met
<1>4. StoppedIn(b, u, n) <=> StopExits(u, b[n]) # {}
  BY <1>20, <1>21
<1>5. ReachedIn(b, u, n) <=> TargetExits(u, b[n]) # {}
  BY <1>20, <1>21
<1>6. EffectiveStop(u) \subseteq Int
  <2>1. \A x \in Nat, y \in Int : x * y \in Int
    OBVIOUS
  <2>2. TrailingStop(u) \subseteq Int
    BY <1>1, <2>1, ReplayAssumption DEF TrailingStop, Hundred
  <2>3. EffectiveStop(u) \subseteq TrailingStop(u) \cup {u.stop}
    <3> DEFINE stops == TrailingStop(u) \cup (IF u.stop = 0 THEN {} ELSE {u.stop})
    <3>1. \E z : stops \subseteq {z, u.stop} /\ z \in Int
      BY <1>1, <2>2 DEF TrailingStop
    <3>2. PICK z \in Int : stops \subseteq {z, u.stop}
      BY <3>1
    <3>3. \A x, y \in Int : Best(u.direction, x, y) \in {x, y} /\ Best(u.direction, x, x) = x
      BY <1>1, BestOfTwo DEF Way
    <3>4. \A x, y \in Int : Best(u.direction, x, y) = Best(u.direction, y, x)
      <4>1. \A x, y : {x, y} = {y, x}
        OBVIOUS
      <4> QED BY <4>1 DEF Best
    <3>5. stops = {} \/ \E s \in stops : \A o \in stops : Best(u.direction, s, o) = s
      <4> HIDE DEF stops
      <4>1. CASE z \in stops /\ u.stop \in stops
        <5>1. PICK s \in {z, u.stop} : Best(u.direction, z, u.stop) = s
          BY <1>1, <3>2, <3>3
        <5>2. \A o \in {z, u.stop} : Best(u.direction, s, o) = s
          BY <1>1, <3>2, <3>3, <3>4, <5>1
        <5> QED BY <3>2, <4>1, <5>1, <5>2
      <4>2. CASE z \notin stops \/ u.stop \notin stops
        <5>1. \A s \in stops : \A o \in stops : s = o
          BY <3>2, <4>2
        <5>2. \A s \in stops : s \in Int /\ Best(u.direction, s, s) = s
          BY <1>1, <3>2, <3>3
        <5> QED BY <5>1, <5>2
      <4> QED BY <4>1, <4>2
    <3>6. stops = {} \/ (CHOOSE s \in stops : \A o \in stops : Best(u.direction, s, o) = s) \in stops
      <4> HIDE DEF stops
      <4> QED BY <3>5
    <3>7. EffectiveStop(u) = IF stops = {} THEN {}
                             ELSE {CHOOSE s \in stops : \A o \in stops : Best(u.direction, s, o) = s}
      BY DEF EffectiveStop
    <3>8. EffectiveStop(u) \subseteq stops
      <4> HIDE DEF stops
      <4> QED BY <3>6, <3>7
    <3> QED BY <3>8
  <2> QED BY <1>1, <2>2, <2>3
<1>7. \A e \in StopExits(u, b[n]) :
        /\ e.price \in EffectiveStop(u) /\ e.reason \in Reason /\ StopExits(u, b[n]) = {e}
  <2> TAKE e \in StopExits(u, b[n])
  <2>1. PICK l \in hit : e = [reason |-> why(l), price |-> l]
    BY <1>20
  <2>2. StopExits(u, b[n]) = {e}
    <3>1. hit = {l}
      BY <1>22
    <3> QED BY <1>20, <2>1, <3>1
  <2> QED BY <1>22, <2>1, <2>2
<1>8. \A e \in TargetExits(u, b[n]) :
        /\ e.price = u.target /\ e.reason \in Reason /\ TargetExits(u, b[n]) = {e}
  <2> TAKE e \in TargetExits(u, b[n])
  <2>1. met # {} /\ e = [reason |-> "take_profit", price |-> u.target]
    BY <1>20
  <2>2. TargetExits(u, b[n]) = {e}
    BY <1>20, <2>1
  <2> QED BY <2>1, <2>2 DEF Reason
<1>9. CASE StopExits(u, b[n]) # {}
  <2>1. ExitOn(u, b[n]) = StopExits(u, b[n])
    BY <1>9 DEF ExitOn
  <2>2. \A e \in StopExits(u, b[n]) : {e.price} = EffectiveStop(u)
    BY <1>7, OneStop
  <2> QED BY <1>3, <1>4, <1>6, <1>7, <1>9, <2>1, <2>2
<1>10. CASE StopExits(u, b[n]) = {}
  <2>1. ExitOn(u, b[n]) = TargetExits(u, b[n])
    BY <1>10 DEF ExitOn
  <2>2. ~StoppedIn(b, u, n)
    BY <1>4, <1>10
  <2> QED BY <1>1, <1>5, <1>8, <2>1, <2>2 DEF Untouched
<1> QED BY <1>9, <1>10

(* The sequence that SetToSeq() makes of at most one trade.                *)
LEMMA OneInSequence ==
  /\ SetToSeq({}) = << >>
  /\ \A x : SetToSeq({x}) = <<x>>
<1>1. SetToSeq({}) = << >>
  <2>1. Cardinality({}) = 0
    BY FS_EmptySet
  <2>2. \A f \in [1..0 -> {}] : f = << >>
    <3> TAKE f \in [1..0 -> {}]
    <3>1. f \in Seq({}) /\ Len(f) = 0
      OBVIOUS
    <3> QED BY <3>1
  <2>3. << >> \in [1..0 -> {}] /\ IsInjective(<< >>)
    BY DEF IsInjective
  <2> QED BY <2>1, <2>2, <2>3 DEF SetToSeq
<1>2. ASSUME NEW x PROVE SetToSeq({x}) = <<x>>
  <2>1. Cardinality({x}) = 1
    BY FS_Singleton
  <2>2. \A f : f \in [1..1 -> {x}] <=> f = <<x>>
    OBVIOUS
  <2>3. <<x>> \in [1..1 -> {x}] /\ IsInjective(<<x>>)
    BY DEF IsInjective
  <2> QED BY <2>1, <2>2, <2>3 DEF SetToSeq
<1> QED BY <1>1, <1>2

(* Managing a trade at bar n: it goes on, or it ends as it should.         *)
WellManaged(h, n, t, u, closes) ==
  /\ closes = {} => u \in Running /\ Alive(h, u)
  /\ \A c \in closes : /\ closes = {c} /\ c \in Ended /\ c.exit = n /\ c.entry = t.entry
                       /\ EndsIn(h, FALSE, c)

LEMMA Managing ==
  ASSUME NEW b \in Seq(BarShape), NEW bar \in BarShape, NEW t \in Running, Alive(b, t), NEW u,
         u = ObservedBar(t, bar), NEW n, n = Len(b) + 1
  PROVE  WellManaged(Append(b, bar), n, t, u, Closes(u, bar, n))
<1> DEFINE h == Append(b, bar)
<1>1. /\ u \in Running /\ u.bars = n - u.entry /\ u.entry = t.entry /\ u.direction = t.direction
      /\ u.entryPrice = t.entryPrice /\ u.stop = t.stop /\ u.target = t.target
      /\ BestIn(t.direction, u.extreme, SeenIn(h, t, n))
  <2>1. /\ u \in Running /\ u.bars = Len(b) + 1 - t.entry
        /\ u.entry = t.entry /\ u.direction = t.direction /\ u.entryPrice = t.entryPrice
        /\ u.stop = t.stop /\ u.target = t.target
        /\ BestIn(t.direction, u.extreme, SeenIn(Append(b, bar), t, Len(b) + 1))
    BY Observing
  <2>2. u.bars = n - u.entry
    <3>1. u.bars = Len(b) + 1 - t.entry /\ u.entry = t.entry
      BY <2>1
    <3>2. t.entry \in Nat /\ Len(b) \in Nat /\ n \in Nat
      BY DEF Alive
    <3> QED BY <3>1, <3>2
  <2>3. BestIn(t.direction, u.extreme, SeenIn(h, t, n))
    BY <2>1
  <2> HIDE DEF h
  <2> QED BY <2>1, <2>2, <2>3
<1>2. /\ h \in Seq(BarShape) /\ Len(h) = n /\ h[n] = bar /\ n \in Nat /\ n \in 1..Len(h)
      /\ Len(b) \in Nat
  OBVIOUS
<1>3. /\ t.entry \in 1..Len(b) /\ t.bars = Len(b) - t.entry
      /\ \A k \in t.entry + 1..Len(b) : Untouched(b, t, k)
      /\ MaxBarsHeld = 0 \/ t.bars < MaxBarsHeld
  BY DEF Alive
<1>4. \A k \in t.entry + 1..Len(b) : Untouched(h, t, k)
  <2> SUFFICES ASSUME NEW k \in t.entry + 1..Len(b) PROVE Untouched(h, t, k)
    OBVIOUS
  <2>1. k \in 0..Len(b) /\ k > 0 /\ t.entry \in Nat
    BY <1>2, <1>3
  <2> HIDE DEF h
  <2> QED BY <1>3, <2>1, PastStands DEF h
<1> HIDE DEF h
<1>5. ASSUME NEW v, v.direction = t.direction, v.entry = t.entry, v.entryPrice = t.entryPrice,
             v.stop = t.stop, v.target = t.target
      PROVE  \A k : /\ SeenIn(h, v, k) = SeenIn(h, t, k)
                    /\ PathIn(h, v, k) = PathIn(h, t, k)
                    /\ StoppedIn(h, v, k) <=> StoppedIn(h, t, k)
                    /\ ReachedIn(h, v, k) <=> ReachedIn(h, t, k)
                    /\ Untouched(h, v, k) <=> Untouched(h, t, k)
  <2> TAKE k
  <2>1. SeenIn(h, v, k) = SeenIn(h, t, k)
    BY <1>5 DEF SeenIn
  <2>2. PathIn(h, v, k) = PathIn(h, t, k)
    BY <1>5, <2>1 DEF PathIn
  <2> QED BY <1>5, <2>1, <2>2 DEF StoppedIn, ReachedIn, Untouched
<1>6. /\ ExitOn(u, bar) = {} => Untouched(h, t, n)
      /\ \A e \in ExitOn(u, bar) :
           /\ ExitOn(u, bar) = {e} /\ e.price \in Int /\ e.reason \in Reason
           /\ IF StoppedIn(h, t, n) THEN {e.price} = EffectiveStop(PathIn(h, t, n))
              ELSE ReachedIn(h, t, n) /\ e.price = t.target
  <2>1. BestIn(u.direction, u.extreme, SeenIn(h, u, n))
    BY <1>1, <1>5
  <2>2. /\ ExitOn(u, bar) = {} => Untouched(h, u, n)
        /\ \A e \in ExitOn(u, bar) :
             /\ ExitOn(u, bar) = {e} /\ e.price \in Int /\ e.reason \in Reason
             /\ IF StoppedIn(h, u, n) THEN {e.price} = EffectiveStop(PathIn(h, u, n))
                ELSE ReachedIn(h, u, n) /\ e.price = u.target
    <3>1. /\ ExitOn(u, h[n]) = {} => Untouched(h, u, n)
          /\ \A e \in ExitOn(u, h[n]) :
               /\ ExitOn(u, h[n]) = {e} /\ e.price \in Int /\ e.reason \in Reason
               /\ IF StoppedIn(h, u, n) THEN {e.price} = EffectiveStop(PathIn(h, u, n))
                  ELSE ReachedIn(h, u, n) /\ e.price = u.target
      BY <1>1, <1>2, <2>1, ExitIs
    <3> QED BY <1>2, <3>1
  <2> QED BY <1>1, <1>5, <2>2
<1>7. /\ t.entry \in Nat /\ u.entry \in Nat /\ u.bars \in Nat /\ u.bars = n - t.entry
      /\ u.entryPrice \in Nat /\ u.direction \in Way /\ u.stop \in Int /\ u.target \in Int
      /\ n > t.entry /\ u.bars = t.bars + 1
  BY <1>1, <1>2, <1>3 DEF Running
<1>8. ASSUME NEW e, NEW forced \in BOOLEAN, e.price \in Int, e.reason \in Reason
      PROVE  LET c == Closed(u, e, n, forced)
             IN  /\ c \in Ended /\ c.exit = n /\ c.entry = t.entry /\ c.held = n - t.entry
                 /\ c.forced = forced /\ c.price = e.price /\ c.target = t.target
                 /\ \A k : /\ PathIn(h, c, k) = PathIn(h, t, k)
                           /\ StoppedIn(h, c, k) <=> StoppedIn(h, t, k)
                           /\ ReachedIn(h, c, k) <=> ReachedIn(h, t, k)
                           /\ Untouched(h, c, k) <=> Untouched(h, t, k)
  <2> DEFINE c == Closed(u, e, n, forced)
  <2>1. /\ c.direction = t.direction /\ c.entry = t.entry /\ c.entryPrice = t.entryPrice
        /\ c.stop = t.stop /\ c.target = t.target /\ c.exit = n /\ c.held = n - t.entry
        /\ c.forced = forced /\ c.price = e.price
    BY <1>1, <1>7 DEF Closed
  <2>2. c \in Ended
    BY <1>2, <1>7, <1>8 DEF Closed, Ended
  <2> HIDE DEF c
  <2>3. \A k : /\ PathIn(h, c, k) = PathIn(h, t, k)
               /\ StoppedIn(h, c, k) <=> StoppedIn(h, t, k)
               /\ ReachedIn(h, c, k) <=> ReachedIn(h, t, k)
               /\ Untouched(h, c, k) <=> Untouched(h, t, k)
    BY <1>5, <2>1
  <2>4. /\ c \in Ended /\ c.exit = n /\ c.entry = t.entry /\ c.held = n - t.entry
        /\ c.forced = forced /\ c.price = e.price /\ c.target = t.target
        /\ \A k : /\ PathIn(h, c, k) = PathIn(h, t, k)
                  /\ StoppedIn(h, c, k) <=> StoppedIn(h, t, k)
                  /\ ReachedIn(h, c, k) <=> ReachedIn(h, t, k)
                  /\ Untouched(h, c, k) <=> Untouched(h, t, k)
    BY <2>1, <2>2, <2>3
  <2> QED BY <2>4 DEF c
<1>9. \A k \in t.entry + 1..n - 1 : Untouched(h, t, k)
  BY <1>2, <1>4, <1>7
<1>10. CASE ExitOn(u, bar) # {}
  <2>1. PICK e \in ExitOn(u, bar) : ExitOn(u, bar) = {e}
    BY <1>6, <1>10
  <2>2. Closes(u, bar, n) = {Closed(u, e, n, FALSE)}
    BY <1>10, <2>1 DEF Closes
  <2> DEFINE c == Closed(u, e, n, FALSE)
  <2>3. /\ c \in Ended /\ c.exit = n /\ c.entry = t.entry /\ c.held = n - t.entry
        /\ c.forced = FALSE /\ c.price = e.price /\ c.target = t.target
        /\ \A k : /\ PathIn(h, c, k) = PathIn(h, t, k)
                  /\ StoppedIn(h, c, k) <=> StoppedIn(h, t, k)
                  /\ ReachedIn(h, c, k) <=> ReachedIn(h, t, k)
                  /\ Untouched(h, c, k) <=> Untouched(h, t, k)
    BY <1>6, <1>8
  <2> HIDE DEF c
  <2>4. EndsIn(h, FALSE, c)
    BY <1>6, <1>9, <2>3 DEF EndsIn
  <2>5. Closes(u, bar, n) = {c}
    BY <2>2 DEF c
  <2> QED BY <2>3, <2>4, <2>5 DEF h, WellManaged
<1>11. CASE ExitOn(u, bar) = {} /\ MaxBarsHeld # 0 /\ u.bars >= MaxBarsHeld
  <2> DEFINE c == Closed(u, AtClose(bar), n, TRUE)
  <2>1. Closes(u, bar, n) = {c}
    BY <1>11 DEF Closes
  <2>2. AtClose(bar).price \in Int /\ AtClose(bar).reason \in Reason
    BY DEF AtClose, Hundred, BarShape, Reason
  <2>3. /\ c \in Ended /\ c.exit = n /\ c.entry = t.entry /\ c.held = n - t.entry
        /\ c.forced = TRUE
        /\ \A k : Untouched(h, c, k) <=> Untouched(h, t, k)
    BY <1>8, <2>2
  <2> HIDE DEF c
  <2>4. n - t.entry = MaxBarsHeld
    BY <1>2, <1>3, <1>7, <1>11, ReplayAssumption
  <2>5. Untouched(h, t, n)
    BY <1>6, <1>11
  <2>6. EndsIn(h, FALSE, c)
    BY <1>9, <2>3, <2>4, <2>5 DEF EndsIn
  <2> QED BY <2>1, <2>3, <2>6 DEF h, WellManaged
<1>12. CASE ExitOn(u, bar) = {} /\ ~(MaxBarsHeld # 0 /\ u.bars >= MaxBarsHeld)
  <2>1. Closes(u, bar, n) = {}
    BY <1>12 DEF Closes
  <2>2. Untouched(h, t, n)
    BY <1>6, <1>12
  <2>3. \A k \in t.entry + 1..n : Untouched(h, u, k)
    BY <1>1, <1>2, <1>4, <1>5, <1>7, <2>2
  <2>4. BestIn(u.direction, u.extreme, SeenIn(h, u, n))
    BY <1>1, <1>5
  <2>5. MaxBarsHeld = 0 \/ u.bars < MaxBarsHeld
    BY <1>7, <1>12, ReplayAssumption
  <2>6. u.entry \in 1..n /\ u.bars = n - u.entry
    BY <1>1, <1>2, <1>3
  <2>7. Alive(h, u)
    BY <1>1, <1>2, <2>3, <2>4, <2>5, <2>6 DEF Alive
  <2> QED BY <1>1, <2>1, <2>7 DEF h, WellManaged
<1> QED BY <1>10, <1>11, <1>12

(* A trade that is entered at a bar is open after it.                      *)
LEMMA Entering ==
  ASSUME NEW b \in Seq(BarShape), NEW bar \in BarShape, NEW s \in Signals, NEW n, n = Len(b) + 1, NEW t,
         t = Entered(s, bar, n)
  PROVE  t \in Running /\ t.entry = n /\ Alive(Append(b, bar), t)
<1>1. /\ bar.close \in Nat /\ s.direction \in Way /\ s.stop \in Nat /\ s.target \in Nat /\ n \in Nat
      /\ n > 0
  BY ReplayAssumption DEF BarShape, Way
<1>2. \A o \in Nat, sign \in {-1, 1} : Level(s.direction, bar.close, o, sign) \in Int
  BY <1>1 DEF Level, Hundred
<1>3. /\ t.direction = s.direction /\ t.entry = n /\ t.entryPrice = bar.close /\ t.extreme = bar.close
      /\ t.bars = 0 /\ t \in Running
  BY <1>1, <1>2 DEF Entered, Running
<1>4. SeenIn(Append(b, bar), t, n) = {bar.close}
  <2>1. n + 1..n = {}
    BY <1>1
  <2> QED BY <1>3, <2>1 DEF SeenIn
<1>5. Len(Append(b, bar)) = n
  OBVIOUS
<1>6. BestIn(t.direction, t.extreme, SeenIn(Append(b, bar), t, n))
  BY <1>1, <1>3, <1>4 DEF BestIn
<1>7. n + 1..n = {} /\ n \in 1..n /\ 0 = n - n
  BY <1>1
<1>8. MaxBarsHeld = 0 \/ 0 < MaxBarsHeld
  BY ReplayAssumption
<1>9. Alive(Append(b, bar), t)
  BY <1>3, <1>5, <1>6, <1>7, <1>8 DEF Alive
<1> QED BY <1>3, <1>9

(* The trades of a history, in order, each ended as it should.             *)
Told(b, ended, ts) ==
  /\ ts \in Seq(Ended)
  /\ \A k \in 1..Len(ts) : EndsIn(b, ended, ts[k]) /\ ts[k].exit \in 1..Len(b)
  /\ \A k \in 1..Len(ts) - 1 : ts[k].exit <= ts[k + 1].entry

ReplayInv ==
  /\ bars \in Seq(BarShape) /\ over \in BOOLEAN /\ Told(bars, over, trades)
  /\ openTrade # NoTrade =>
       /\ openTrade \in Running /\ Alive(bars, openTrade) /\ ~over /\ Len(bars) > WarmupBars
       /\ \A k \in 1..Len(trades) : trades[k].exit <= openTrade.entry

LEMMA OneMoreTrade ==
  ASSUME NEW b, NEW ended, NEW ts, Told(b, ended, ts), NEW c \in Ended, EndsIn(b, ended, c),
         c.exit \in 1..Len(b), \A k \in 1..Len(ts) : ts[k].exit <= c.entry
  PROVE  Told(b, ended, Append(ts, c))
<1> DEFINE us == Append(ts, c)
<1>1. /\ ts \in Seq(Ended) /\ us \in Seq(Ended) /\ Len(us) = Len(ts) + 1 /\ Len(ts) \in Nat
      /\ us[Len(ts) + 1] = c /\ \A k \in 1..Len(ts) : us[k] = ts[k]
  BY DEF Told
<1> HIDE DEF us
<1>2. ASSUME NEW k \in 1..Len(us) PROVE EndsIn(b, ended, us[k]) /\ us[k].exit \in 1..Len(b)
  <2>1. k \in 1..Len(ts) \/ k = Len(ts) + 1
    BY <1>1
  <2> QED BY <1>1, <2>1 DEF Told
<1>3. ASSUME NEW k \in 1..Len(us) - 1 PROVE us[k].exit <= us[k + 1].entry
  <2>1. k \in 1..Len(ts)
    BY <1>1
  <2>2. CASE k = Len(ts)
    BY <1>1, <2>1, <2>2
  <2>3. CASE k # Len(ts)
    <3>1. k \in 1..Len(ts) - 1 /\ k + 1 \in 1..Len(ts)
      BY <1>1, <2>1, <2>3
    <3> QED BY <1>1, <2>1, <3>1 DEF Told
  <2> QED BY <2>2, <2>3
<1>4. Told(b, ended, us)
  BY <1>1, <1>2, <1>3 DEF Told
<1> QED BY <1>4 DEF us

LEMMA OneMoreBar ==
  ASSUME NEW b \in Seq(BarShape), NEW bar \in BarShape, NEW ts, Told(b, FALSE, ts)
  PROVE  Told(Append(b, bar), FALSE, ts)
<1>1. ts \in Seq(Ended) /\ Len(Append(b, bar)) = Len(b) + 1 /\ Len(b) \in Nat
  BY DEF Told
<1>2. ASSUME NEW k \in 1..Len(ts)
      PROVE  EndsIn(Append(b, bar), FALSE, ts[k]) /\ ts[k].exit \in 1..Len(Append(b, bar))
  <2>1. ts[k] \in Ended
    BY <1>1
  <2>2. EndsIn(b, FALSE, ts[k]) /\ ts[k].exit \in 1..Len(b)
    BY Zenon DEF Told
  <2>3. EndsIn(Append(b, bar), FALSE, ts[k])
    BY <2>1, <2>2, EndStands
  <2>4. ts[k].exit \in 1..Len(b) + 1
    <3>1. ts[k].exit \in 1..Len(b)
      BY <2>2
    <3> QED BY <1>1, <3>1
  <2> QED BY <1>1, <2>3, <2>4, Zenon
<1> QED BY <1>1, <1>2 DEF Told

(* Step by step: a bar, and the end.                                       *)
LEMMA ReplayBarKeeps == ASSUME NEW bar \in BarShape, ReplayInv, ReplayBar(bar) PROVE ReplayInv'
<1> DEFINE n == Len(bars) + 1
           managed == IF openTrade = NoTrade THEN NoTrade ELSE ObservedBar(openTrade, bar)
           closed == IF openTrade = NoTrade THEN {} ELSE Closes(managed, bar, n)
<1>1. /\ bars \in Seq(BarShape) /\ over = FALSE /\ over' = over /\ bars' = Append(bars, bar)
      /\ Told(bars, FALSE, trades)
  BY DEF ReplayInv, ReplayBar
<1>2. /\ bars' \in Seq(BarShape) /\ Len(bars') = n /\ n \in Nat /\ Len(bars) \in Nat /\ n \in 1..Len(bars')
      /\ n > Len(bars) /\ WarmupBars \in Nat
  BY <1>1, ReplayAssumption
<1>3. Told(bars', FALSE, trades)
  BY <1>1, OneMoreBar
<1>4. /\ \/ n <= WarmupBars /\ openTrade' = openTrade /\ trades' = trades
         \/ /\ ~(n <= WarmupBars) /\ trades' = trades \o SetToSeq(closed)
            /\ IF managed # NoTrade /\ closed = {} THEN openTrade' = managed
               ELSE openTrade' = NoTrade \/ \E s \in Signals : openTrade' = Entered(s, bar, n)
  BY DEF ReplayBar
<1>5. \A t \in Running : t # NoTrade
  BY DEF Running, NoTrade
<1>6. openTrade # NoTrade =>
        /\ openTrade \in Running /\ Alive(bars, openTrade) /\ Len(bars) > WarmupBars
        /\ \A k \in 1..Len(trades) : trades[k].exit <= openTrade.entry
        /\ managed = ObservedBar(openTrade, bar) /\ closed = Closes(managed, bar, n)
  BY DEF ReplayInv
<1>7. openTrade = NoTrade => managed = NoTrade /\ closed = {}
  OBVIOUS
<1>8. openTrade # NoTrade =>
        /\ closed = {} => managed \in Running /\ Alive(bars', managed) /\ managed.entry = openTrade.entry
        /\ \A c \in closed : /\ closed = {c} /\ c \in Ended /\ c.exit = n /\ c.entry = openTrade.entry
                             /\ EndsIn(bars', FALSE, c)
  <2> HAVE openTrade # NoTrade
  <2>1. openTrade \in Running /\ Alive(bars, openTrade) /\ managed = ObservedBar(openTrade, bar)
        /\ closed = Closes(managed, bar, n)
    BY <1>6
  <2>2. n = Len(bars) + 1
    OBVIOUS
  <2> HIDE DEF managed, closed, n
  <2>3. managed.entry = openTrade.entry
    BY <1>1, <2>1, Observing
  <2>4. WellManaged(Append(bars, bar), n, openTrade, managed, Closes(managed, bar, n))
    BY <1>1, <2>1, <2>2, Managing
  <2> QED BY <1>1, <2>1, <2>3, <2>4 DEF WellManaged
<1>9. \A s \in Signals : /\ Entered(s, bar, n) \in Running /\ Entered(s, bar, n).entry = n
                         /\ Alive(bars', Entered(s, bar, n))
  <2> TAKE s \in Signals
  <2>1. n = Len(bars) + 1
    OBVIOUS
  <2> HIDE DEF n
  <2> QED BY <1>1, <2>1, Entering
<1> HIDE DEF managed, closed, n
<1>10. ASSUME Told(bars', FALSE, trades'),
              openTrade' = NoTrade \/ \E s \in Signals : openTrade' = Entered(s, bar, n),
              n > WarmupBars
       PROVE  ReplayInv'
  <2>1. CASE openTrade' = NoTrade
    BY <1>1, <1>2, <1>10, <2>1 DEF ReplayInv, NoTrade
  <2>2. ASSUME NEW s \in Signals, openTrade' = Entered(s, bar, n) PROVE ReplayInv'
    <3>1. openTrade' \in Running /\ openTrade'.entry = n /\ Alive(bars', openTrade')
      BY <1>9, <2>2
    <3>2. \A k \in 1..Len(trades') : trades'[k].exit <= openTrade'.entry
      <4>1. Len(bars') = n /\ n \in Nat
        BY <1>2
      <4>2. \A k \in 1..Len(trades') : trades'[k].exit \in 1..n
        BY <1>10, <4>1, Zenon DEF Told
      <4>3. \A x \in 1..n : x <= n
        BY <4>1
      <4> QED BY <3>1, <4>2, <4>3, Zenon
    <3>3. over' = FALSE
      BY <1>1
    <3> QED BY <1>2, <1>10, <3>1, <3>2, <3>3 DEF ReplayInv, Alive, Told, EndsIn
  <2> QED BY <1>10, <2>1, <2>2
<1>11. CASE n <= WarmupBars
  <2>1. openTrade = NoTrade /\ openTrade' = openTrade /\ trades' = trades
    BY <1>2, <1>4, <1>6, <1>11
  <2> QED BY <1>1, <1>2, <1>3, <2>1 DEF ReplayInv, NoTrade
<1>12. CASE n > WarmupBars /\ openTrade = NoTrade
  <2>1. trades' = trades
    <3>1. trades' = trades \o SetToSeq({})
      <4>1. ~(n <= WarmupBars)
        BY <1>2, <1>12
      <4> QED BY <1>4, <1>7, <1>12, <4>1, Zenon
    <3>2. trades' = trades \o << >>
      BY <3>1, OneInSequence
    <3> QED BY <1>1, <3>2 DEF Told
  <2> QED BY <1>2, <1>3, <1>4, <1>7, <1>10, <1>12, <2>1
<1>13. CASE n > WarmupBars /\ openTrade # NoTrade /\ closed = {}
  <2>1. managed \in Running /\ Alive(bars', managed) /\ managed.entry = openTrade.entry
    BY <1>8, <1>13
  <2>2. trades' = trades /\ openTrade' = managed
    <3>1. ~(n <= WarmupBars) /\ managed # NoTrade
      BY <1>2, <1>5, <1>13, <2>1
    <3>2. trades' = trades \o SetToSeq({}) /\ openTrade' = managed
      BY <1>4, <1>13, <3>1, Zenon
    <3>3. trades' = trades \o << >>
      BY <3>2, OneInSequence
    <3> QED BY <1>1, <3>2, <3>3 DEF Told
  <2>3. \A k \in 1..Len(trades') : trades'[k].exit <= openTrade'.entry
    BY <1>6, <1>13, <2>1, <2>2
  <2> QED BY <1>1, <1>2, <1>3, <1>13, <2>1, <2>2, <2>3 DEF ReplayInv
<1>14. CASE n > WarmupBars /\ openTrade # NoTrade /\ closed # {}
  <2>1. PICK c \in closed : /\ closed = {c} /\ c \in Ended /\ c.exit = n /\ c.entry = openTrade.entry
                            /\ EndsIn(bars', FALSE, c)
    BY <1>8, <1>14
  <2>2. trades' = Append(trades, c)
    <3>1. trades' = trades \o SetToSeq({c})
      <4>1. ~(n <= WarmupBars)
        BY <1>2, <1>14
      <4> QED BY <1>4, <1>14, <2>1, <4>1, Zenon
    <3>2. trades' = trades \o <<c>>
      BY <3>1, OneInSequence
    <3> QED BY <1>1, <2>1, <3>2 DEF Told
  <2>3. Told(bars', FALSE, trades')
    <3>1. c.exit \in 1..Len(bars') /\ \A k \in 1..Len(trades) : trades[k].exit <= c.entry
      BY <1>2, <1>6, <1>14, <2>1
    <3> QED BY <1>3, <2>1, <2>2, <3>1, OneMoreTrade
  <2> QED BY <1>2, <1>4, <1>10, <1>14, <2>3
<1> QED BY <1>2, <1>11, <1>12, <1>13, <1>14

LEMMA EndReplayKeeps == ASSUME ReplayInv, EndReplay PROVE ReplayInv'
<1>1. /\ bars \in Seq(BarShape) /\ over = FALSE /\ over' = TRUE /\ bars' = bars /\ openTrade' = NoTrade
      /\ Told(bars, FALSE, trades) /\ Len(bars) > WarmupBars
  BY DEF ReplayInv, EndReplay
<1>2. \A t : EndsIn(bars, FALSE, t) => EndsIn(bars, TRUE, t)
  BY DEF EndsIn
<1>3. Told(bars, TRUE, trades)
  BY <1>1, <1>2 DEF Told
<1>4. CASE openTrade = NoTrade
  <2>1. trades' = trades
    BY <1>4 DEF EndReplay
  <2> QED BY <1>1, <1>3, <2>1 DEF ReplayInv
<1>5. CASE openTrade # NoTrade
  <2> DEFINE c == Closed(openTrade, AtClose(Last(bars)), Len(bars), TRUE)
             n == Len(bars)
  <2>1. trades' = Append(trades, c)
    BY <1>5 DEF EndReplay
  <2>2. /\ openTrade \in Running /\ Alive(bars, openTrade) /\ n \in Nat /\ n > 0 /\ Last(bars) \in BarShape
        /\ \A k \in 1..Len(trades) : trades[k].exit <= openTrade.entry
    BY <1>1, <1>5, ReplayAssumption DEF ReplayInv, Last
  <2>3. /\ openTrade.entry \in 1..n /\ openTrade.bars = n - openTrade.entry
        /\ \A k \in openTrade.entry + 1..n : Untouched(bars, openTrade, k)
    BY <2>2 DEF Alive
  <2>4. /\ c.direction = openTrade.direction /\ c.entry = openTrade.entry
        /\ c.entryPrice = openTrade.entryPrice /\ c.stop = openTrade.stop
        /\ c.target = openTrade.target /\ c.exit = n /\ c.held = openTrade.bars /\ c.forced = TRUE
    BY DEF Closed
  <2>5. c \in Ended
    <3>1. AtClose(Last(bars)).price \in Int /\ AtClose(Last(bars)).reason \in Reason
      BY <2>2 DEF AtClose, Hundred, BarShape, Reason
    <3> QED BY <2>2, <3>1 DEF Closed, Ended, Running
  <2> HIDE DEF c, n
  <2>6. \A k : Untouched(bars, c, k) <=> Untouched(bars, openTrade, k)
    BY <2>4 DEF Untouched, StoppedIn, ReachedIn, PathIn, SeenIn
  <2>7. /\ \A k \in c.entry + 1..c.exit - 1 : Untouched(bars, c, k)
        /\ c.held = c.exit - c.entry /\ (c.held > 0 => Untouched(bars, c, c.exit))
    BY <2>2, <2>3, <2>4, <2>6
  <2>8. EndsIn(bars, TRUE, c)
    BY <2>4, <2>7 DEF EndsIn, n
  <2>9. c.exit \in 1..Len(bars) /\ \A k \in 1..Len(trades) : trades[k].exit <= c.entry
    BY <2>2, <2>4 DEF n
  <2>10. Told(bars, TRUE, trades')
    BY <1>3, <2>1, <2>5, <2>8, <2>9, OneMoreTrade
  <2> QED BY <1>1, <2>10 DEF ReplayInv
<1> QED BY <1>4, <1>5

(* A trade of the replay ends at the first bar that reaches one of its     *)
(* levels, at that level, the stop when the bar reaches both, and the next *)
(* one is entered no earlier: for any history, warm-up, signals, trailing  *)
(* stop and limit of bars.                                                 *)
THEOREM ReplayTakesFirstTouch == ReplaySpec => []ExitsAtFirstTouch
<1>1. ReplayInit => ReplayInv
  <2> SUFFICES ASSUME ReplayInit PROVE ReplayInv
    OBVIOUS
  <2>1. << >> \in Seq(BarShape) /\ << >> \in Seq(Ended) /\ Len(<< >>) = 0 /\ 1..0 = {} /\ 1..0 - 1 = {}
    OBVIOUS
  <2>2. bars = << >> /\ trades = << >> /\ over = FALSE /\ openTrade = NoTrade
    BY DEF ReplayInit
  <2>3. Told(bars, over, trades)
    BY <2>1, <2>2 DEF Told
  <2> QED BY <2>1, <2>2, <2>3 DEF ReplayInv
<1>2. ReplayInv /\ [ReplayNext]_replayVars => ReplayInv'
  <2> SUFFICES ASSUME ReplayInv, [ReplayNext]_replayVars PROVE ReplayInv'
    OBVIOUS
  <2>1. NextBars \subseteq BarShape
    BY ReplayAssumption DEF NextBars, BarShape
  <2>2. ASSUME NEW bar \in NextBars, ReplayBar(bar) PROVE ReplayInv'
    BY <2>1, <2>2, ReplayBarKeeps
  <2>3. ASSUME EndReplay PROVE ReplayInv'
    BY <2>3, EndReplayKeeps
  <2>4. ASSUME UNCHANGED replayVars PROVE ReplayInv'
    <3>1. bars' = bars /\ openTrade' = openTrade /\ trades' = trades /\ over' = over
      BY <2>4 DEF replayVars
    <3>2. Told(bars, over, trades)' <=> Told(bars, over, trades)
      BY <3>1 DEF Told
    <3>3. Alive(bars, openTrade)' <=> Alive(bars, openTrade)
      BY <3>1 DEF Alive
    <3> QED BY <3>1, <3>2, <3>3 DEF ReplayInv
  <2> QED BY <2>2, <2>3, <2>4 DEF ReplayNext
<1>3. ReplayInv => ExitsAtFirstTouch
  <2> SUFFICES ASSUME ReplayInv PROVE ExitsAtFirstTouch
    OBVIOUS
  <2>1. DOMAIN trades = 1..Len(trades)
    BY DEF ReplayInv, Told
  <2>2. \A k \in DOMAIN trades : EndsRight(trades[k])
    BY <2>1, EndsAsWritten DEF ReplayInv, Told
  <2> QED BY <2>2 DEF ReplayInv, Told, ExitsAtFirstTouch
<1> QED BY <1>1, <1>2, <1>3, PTL DEF ReplaySpec

-----------------------------------------------------------------------------
(* The windows of the replay: beside it, the live builder holds the last   *)
(* WindowBars numbers of either interval.                                  *)

LiveCandle == [interval : {"driving", "other"}, open : Nat, closed : {TRUE}]
Builders == [candles : [{"driving", "other"} -> Seq(LiveCandle)],
             book : {Nothing}, tape : {<< >>}]

(* What the live builder holds of interval i after its first m candles. *)
Kept(m) == IF m > WindowBars THEN WindowBars ELSE m
NewestOf(i, m) == [k \in 1..Kept(m) |-> Candle(i, m - Kept(m) + k)]

Held(builder, n, m) ==
  /\ builder \in Builders
  /\ builder.candles["driving"] = NewestOf("driving", n)
  /\ builder.candles["other"] = NewestOf("other", m)

LEMMA KeptIs ==
  ASSUME NEW i \in {"driving", "other"}, NEW m \in Nat
  PROVE  /\ WindowBars \in Nat /\ WindowBars > 0
         /\ Kept(m) \in Nat /\ Kept(m) <= m /\ Kept(m) <= WindowBars
         /\ m > 0 => Kept(m) > 0
         /\ NewestOf(i, m) \in Seq(LiveCandle)
         /\ Len(NewestOf(i, m)) = Kept(m) /\ DOMAIN NewestOf(i, m) = 1..Kept(m)
         /\ \A k \in 1..Kept(m) : NewestOf(i, m)[k] = Candle(i, m - Kept(m) + k)
<1>1. WindowBars \in Nat /\ WindowBars > 0
  BY ReplayAssumption
<1>2. PICK q : q = Kept(m)
  OBVIOUS
<1>3. q \in Nat /\ q <= m /\ q <= WindowBars /\ (m > 0 => q > 0)
  BY <1>1, <1>2 DEF Kept
<1>4. NewestOf(i, m) = [k \in 1..q |-> Candle(i, m - q + k)]
  BY <1>2 DEF NewestOf
<1>5. \A k \in 1..q : Candle(i, m - q + k) \in LiveCandle
  BY <1>3 DEF Candle, LiveCandle
<1>6. NewestOf(i, m) \in Seq(LiveCandle) /\ Len(NewestOf(i, m)) = q
  BY <1>3, <1>4, <1>5
<1> QED BY <1>1, <1>2, <1>3, <1>4, <1>6

(* The next candle is later than all that are kept, and follows them. *)
LEMMA NextIsKept ==
  ASSUME NEW i \in {"driving", "other"}, NEW m \in Nat, NEW x \in Nat, x = m + 1,
         NEW b \in Builders, b.candles[i] = NewestOf(i, m)
  PROVE  Live!AddCandle(b, Candle(i, x)) = [b EXCEPT !.candles[i] = NewestOf(i, x)]
<1>1. PICK c, w, q : c = Candle(i, x) /\ w = NewestOf(i, m) /\ q = Kept(m)
  OBVIOUS
<1>2. /\ WindowBars \in Nat /\ WindowBars > 0 /\ q \in Nat /\ q <= m /\ q <= WindowBars
      /\ w \in Seq(LiveCandle)
      /\ Len(w) = q /\ DOMAIN w = 1..q /\ \A k \in 1..q : w[k] = Candle(i, m - q + k)
  BY <1>1, KeptIs
<1>3. c.interval = i /\ c.open = x /\ c.closed
      /\ c \in LiveCandle
  BY <1>1 DEF Candle, LiveCandle
<1>4. ASSUME w # << >> PROVE Live!Newest(w).open = m
  <2>1. q > 0
    BY <1>2, <1>4
  <2>2. w[q] = Candle(i, m)
    <3>1. q \in 1..q /\ m - q + q = m
      BY <1>2, <2>1
    <3> QED BY <1>2, <3>1
  <2> QED BY <1>2, <2>2 DEF Live!Newest, Candle
<1>5. Live!Stores(b, c) /\ ~Live!Repeats(w, c)
  BY <1>1, <1>3, <1>4 DEF Live!Stores, Live!Repeats
<1>6. Live!KeepLast(WindowBars, Append(w, c)) = NewestOf(i, x)
  <2>1. PICK v : v = Append(w, c)
    OBVIOUS
  <2>2. /\ v \in Seq(LiveCandle)
        /\ Len(v) = q + 1 /\ v[q + 1] = c /\ \A k \in 1..q : v[k] = w[k]
    <3>1. /\ Append(w, c) \in Seq(LiveCandle) /\ Len(Append(w, c)) = Len(w) + 1
          /\ \A k \in 1..Len(w) : Append(w, c)[k] = w[k]
          /\ Append(w, c)[Len(w) + 1] = c
      BY <1>2, <1>3
    <3> QED BY <1>2, <2>1, <3>1
  <2>3. \A k \in 1..q + 1 : v[k] = Candle(i, m - q + k)
    <3>1. c = Candle(i, m - q + (q + 1))
      <4>1. m - q + (q + 1) = x
        BY <1>2
      <4> QED BY <1>1, <4>1
    <3>2. \A k \in 1..q + 1 : k \in 1..q \/ k = q + 1
      BY <1>2
    <3> QED BY <1>2, <2>2, <3>1, <3>2
  <2>4. PICK r : r = Kept(x)
    OBVIOUS
  <2>5. NewestOf(i, x) = [k \in 1..r |-> Candle(i, x - r + k)]
    BY <2>4 DEF NewestOf
  <2>6. CASE m < WindowBars
    <3>1. q = m /\ r = x
      BY <1>1, <1>2, <2>4, <2>6 DEF Kept
    <3>2. Live!KeepLast(WindowBars, v) = v
      BY <1>2, <2>2, <2>6, <3>1 DEF Live!KeepLast
    <3>3. v = [k \in 1..r |-> v[k]]
      BY <2>2, <3>1
    <3>4. \A k \in 1..r : v[k] = Candle(i, x - r + k)
      <4>1. \A k \in 1..r : k \in 1..q + 1 /\ x - r + k = m - q + k
        BY <1>2, <3>1
      <4> QED BY <2>3, <4>1
    <3> QED BY <2>1, <2>5, <3>2, <3>3, <3>4
  <2>7. CASE m >= WindowBars
    <3>1. q = WindowBars /\ r = WindowBars
      BY <1>1, <1>2, <2>4, <2>7 DEF Kept
    <3>2. Live!KeepLast(WindowBars, v) = SubSeq(v, 2, q + 1)
      <4>1. ~(Len(v) <= WindowBars) /\ Len(v) - WindowBars + 1 = 2 /\ Len(v) = q + 1
        BY <1>2, <2>2, <3>1
      <4> QED BY <4>1 DEF Live!KeepLast
    <3>3. SubSeq(v, 2, q + 1) = [k \in 1..q |-> v[k + 1]]
      BY <1>2, <2>2
    <3>4. \A k \in 1..q : v[k + 1] = Candle(i, x - q + k)
      <4>1. \A k \in 1..q : k + 1 \in 1..q + 1 /\ m - q + (k + 1) = x - q + k
        BY <1>2
      <4> QED BY <2>3, <4>1
    <3> QED BY <2>1, <2>5, <3>1, <3>2, <3>3, <3>4
  <2> QED BY <1>2, <2>6, <2>7
<1>7. Live!WithCandle(w, c) = NewestOf(i, x)
  BY <1>5, <1>6 DEF Live!WithCandle
<1> QED BY <1>1, <1>3, <1>5, <1>7 DEF Live!AddCandle

LEMMA NextHeld ==
  ASSUME NEW n \in Nat, NEW m \in Nat, NEW b, Held(b, n, m)
  PROVE  /\ Held(Live!AddCandle(b, Candle("driving", n + 1)), n + 1, m)
         /\ Held(Live!AddCandle(b, Candle("other", m + 1)), n, m + 1)
<1>1. /\ Live!AddCandle(b, Candle("driving", n + 1)) = [b EXCEPT !.candles["driving"] = NewestOf("driving", n + 1)]
      /\ Live!AddCandle(b, Candle("other", m + 1)) = [b EXCEPT !.candles["other"] = NewestOf("other", m + 1)]
  <2>1. /\ n + 1 \in Nat /\ m + 1 \in Nat /\ b \in Builders
        /\ b.candles["driving"] = NewestOf("driving", n) /\ b.candles["other"] = NewestOf("other", m)
    BY DEF Held
  <2> QED BY <2>1, NextIsKept
<1>2. /\ NewestOf("driving", n + 1) \in Seq(LiveCandle)
      /\ NewestOf("other", m + 1) \in Seq(LiveCandle)
  <2>1. n + 1 \in Nat /\ m + 1 \in Nat
    OBVIOUS
  <2> QED BY <2>1, KeptIs
<1>3. PICK x, y : x = NewestOf("driving", n + 1) /\ y = NewestOf("other", m + 1)
  OBVIOUS
<1>4. /\ x \in Seq(LiveCandle) /\ y \in Seq(LiveCandle) /\ b \in Builders
      /\ b.candles["driving"] = NewestOf("driving", n) /\ b.candles["other"] = NewestOf("other", m)
  BY <1>2, <1>3 DEF Held
<1>5. PICK u, v : u = [b EXCEPT !.candles["driving"] = x] /\ v = [b EXCEPT !.candles["other"] = y]
  OBVIOUS
<1>6. /\ u \in Builders /\ u.candles["driving"] = x /\ u.candles["other"] = NewestOf("other", m)
      /\ v \in Builders /\ v.candles["driving"] = NewestOf("driving", n) /\ v.candles["other"] = y
  BY <1>4, <1>5 DEF Builders
<1> QED BY <1>1, <1>3, <1>5, <1>6 DEF Held

LEMMA Division ==
  ASSUME NEW L \in Nat, L > 0, NEW x \in Nat
  PROVE  x \div L \in Int /\ x = L * (x \div L) + (x % L) /\ x % L \in 0..L - 1
  OBVIOUS

(* The slower interval closes a candle at every multiple of Slower. *)
LEMMA SlowerCloses ==
  ASSUME NEW n \in Nat
  PROVE  /\ n \div Slower \in Nat
         /\ (n + 1) \div Slower = IF (n + 1) % Slower = 0 THEN (n \div Slower) + 1 ELSE n \div Slower
<1>1. PICK L \in Nat : L = Slower /\ L > 0
  BY ReplayAssumption
<1>2. /\ n \div L \in Int /\ n = L * (n \div L) + (n % L) /\ n % L \in 0..L - 1
      /\ (n + 1) \div L \in Int /\ n + 1 = L * ((n + 1) \div L) + ((n + 1) % L) /\ (n + 1) % L \in 0..L - 1
  BY <1>1, Division
<1>3. PICK a \in Int, b \in Int, x \in 0..L - 1, y \in 0..L - 1 :
        /\ a = n \div L /\ b = (n + 1) \div L /\ x = n % L /\ y = (n + 1) % L
        /\ n = L * a + x /\ n + 1 = L * b + y
  BY <1>2
<1>4. L * (b - a) = 1 + x - y
  BY <1>3
<1>5. b - a < 2
  <2> SUFFICES ASSUME b - a >= 2 PROVE FALSE
    BY <1>3
  <2>1. L * (b - a) >= L * 2
    BY <1>1
  <2> QED BY <1>1, <1>3, <1>4, <2>1
<1>6. b - a > -1
  <2> SUFFICES ASSUME b - a <= -1 PROVE FALSE
    BY <1>3
  <2>1. L * (b - a) <= L * (-1)
    BY <1>1
  <2> QED BY <1>1, <1>3, <1>4, <2>1
<1>7. b = a \/ b = a + 1
  BY <1>3, <1>5, <1>6
<1>8. b = a => y # 0
  BY <1>3, <1>4
<1>9. b = a + 1 => y = 0
  BY <1>1, <1>3, <1>4
<1>10. a >= 0
  <2> SUFFICES ASSUME a <= -1 PROVE FALSE
    BY <1>3
  <2>1. L * a <= L * (-1)
    BY <1>1
  <2> QED BY <1>1, <1>3, <2>1
<1> QED BY <1>1, <1>3, <1>7, <1>8, <1>9, <1>10

LEMMA LiveFollows ==
  ASSUME NEW n \in Nat, NEW b, Held(b, n, n \div Slower)
  PROVE  Held(LiveReads(b, n + 1), n + 1, (n + 1) \div Slower)
<1>1. PICK m \in Nat : m = n \div Slower
  BY SlowerCloses
<1>2. CASE (n + 1) % Slower = 0
  <2>1. (n + 1) \div Slower = m + 1
    BY <1>1, <1>2, SlowerCloses
  <2>2. PICK c : c = Live!AddCandle(b, Candle("other", m + 1))
    OBVIOUS
  <2>3. Held(c, n, m + 1)
    BY <1>1, <2>2, NextHeld
  <2>4. Held(Live!AddCandle(c, Candle("driving", n + 1)), n + 1, m + 1)
    BY <2>3, NextHeld
  <2> QED BY <1>2, <2>1, <2>2, <2>4 DEF LiveReads
<1>3. CASE (n + 1) % Slower # 0
  <2>1. (n + 1) \div Slower = m
    BY <1>1, <1>3, SlowerCloses
  <2>2. Held(Live!AddCandle(b, Candle("driving", n + 1)), n + 1, m)
    BY <1>1, NextHeld
  <2> QED BY <1>3, <2>1, <2>2 DEF LiveReads
<1> QED BY <1>2, <1>3

LEMMA NumbersKept ==
  ASSUME NEW i \in {"driving", "other"}, NEW m \in Nat
  PROVE  Numbers(NewestOf(i, m)) = (IF m > WindowBars THEN m - WindowBars + 1 ELSE 1)..m
<1>1. PICK q : q = Kept(m)
  OBVIOUS
<1>2. /\ WindowBars \in Nat /\ q \in Nat /\ q <= m /\ DOMAIN NewestOf(i, m) = 1..q
      /\ \A k \in 1..q : NewestOf(i, m)[k].open = m - q + k
  <2>1. /\ WindowBars \in Nat /\ q \in Nat /\ q <= m /\ DOMAIN NewestOf(i, m) = 1..q
        /\ \A k \in 1..q : NewestOf(i, m)[k] = Candle(i, m - q + k)
    BY <1>1, KeptIs
  <2>2. \A k : Candle(i, m - q + k).open = m - q + k
    BY DEF Candle
  <2> QED BY <2>1, <2>2
<1>3. Numbers(NewestOf(i, m)) = {m - q + k : k \in 1..q}
  BY <1>2 DEF Numbers
<1>4. {m - q + k : k \in 1..q} = m - q + 1..m
  <2>1. ASSUME NEW x \in m - q + 1..m PROVE x \in {m - q + k : k \in 1..q}
    <3>1. x - (m - q) \in 1..q /\ x = m - q + (x - (m - q))
      BY <1>2
    <3> QED BY <3>1
  <2>2. \A k \in 1..q : m - q + k \in m - q + 1..m
    BY <1>2
  <2> QED BY <2>1, <2>2
<1>5. m - q + 1 = IF m > WindowBars THEN m - WindowBars + 1 ELSE 1
  BY <1>1, <1>2 DEF Kept
<1> QED BY <1>3, <1>4, <1>5

LEMMA ShownAlike ==
  ASSUME NEW n \in Nat, NEW b, Held(b, n, n \div Slower), NEW i \in {"driving", "other"}
  PROVE  Windows(n)[i] = Numbers(Live!CandlesFor(Live!Build(b), i))
<1>1. PICK m \in Nat : m = n \div Slower
  BY SlowerCloses
<1>2. PICK x \in Nat : x = (IF i = "driving" THEN n ELSE m)
  BY <1>1
<1>3. b \in Builders /\ b.candles[i] = NewestOf(i, x)
  BY <1>1, <1>2 DEF Held
<1>4. Windows(n)[i] = (IF x > WindowBars THEN x - WindowBars + 1 ELSE 1)..x
  BY <1>1, <1>2 DEF Windows
<1>5. Live!Build(b).candles = [j \in {k \in {"driving", "other"} : b.candles[k] # << >>} |-> b.candles[j]]
  BY <1>3 DEF Live!Build, Builders
<1>6. Live!CandlesFor(Live!Build(b), i) = b.candles[i]
  <2>1. CASE b.candles[i] = << >>
    BY <1>5, <2>1 DEF Live!CandlesFor
  <2>2. CASE b.candles[i] # << >>
    BY <1>5, <2>2 DEF Live!CandlesFor
  <2> QED BY <2>1, <2>2
<1> QED BY <1>3, <1>4, <1>6, NumbersKept

LiveInv ==
  /\ bars \in Seq(BarShapes)
  /\ Held(live, Len(bars), Len(bars) \div Slower)
  /\ ReplaySeesLiveWindow

(* "Over a context window bounded exactly as the live MarketContextBuilder *)
(* bounds it" (replay.py): whenever the replay asks its analyst, it shows  *)
(* the bars that a live agent shows, which keeps what it reads candle by   *)
(* candle: the slices of run() and the deque of the builder agree, for     *)
(* any history, window length and slower interval.                         *)
THEOREM ReplayShowsLiveWindow == ReplaySpec => []ReplaySeesLiveWindow
<1>1. ReplayInit => LiveInv
  <2> SUFFICES ASSUME ReplayInit PROVE LiveInv
    OBVIOUS
  <2>1. bars = << >> /\ live = Live!EmptyBuilder /\ shown = NoTrade /\ Len(bars) = 0
    BY DEF ReplayInit
  <2>2. 0 \div Slower = 0
    BY ReplayAssumption
  <2>3. Kept(0) = 0
    BY KeptIs
  <2>4. Live!EmptyBuilder \in Builders /\ NewestOf("driving", 0) = << >> /\ NewestOf("other", 0) = << >>
    BY <2>3 DEF Live!EmptyBuilder, Live!Nothing, Nothing, Builders, NewestOf
  <2>5. Held(live, 0, 0)
    BY <2>1, <2>4 DEF Held, Live!EmptyBuilder
  <2> QED BY <2>1, <2>2, <2>5 DEF LiveInv, ReplaySeesLiveWindow
<1>2. LiveInv /\ [ReplayNext]_replayVars => LiveInv'
  <2> SUFFICES ASSUME LiveInv, [ReplayNext]_replayVars PROVE LiveInv'
    OBVIOUS
  <2>1. CASE UNCHANGED <<bars, live, shown>>
    BY <2>1 DEF LiveInv, ReplaySeesLiveWindow
  <2>2. ASSUME NEW bar \in NextBars, ReplayBar(bar) PROVE LiveInv'
    <3>1. PICK n \in Nat : n = Len(bars)
      BY DEF LiveInv
    <3>2. bar \in BarShapes
      BY <2>2, ReplayAssumption DEF NextBars
    <3>3. bars' = Append(bars, bar) /\ live' = LiveReads(live, n + 1)
          /\ (shown' = shown \/ shown' = [windows |-> Windows(n + 1), context |-> Live!Build(live')])
      BY <2>2, <3>1 DEF ReplayBar
    <3>4. bars' \in Seq(BarShapes) /\ Len(bars') = n + 1
      BY <3>1, <3>2, <3>3 DEF LiveInv
    <3>5. Held(live, n, n \div Slower)
      BY <3>1 DEF LiveInv
    <3>6. Held(live', n + 1, (n + 1) \div Slower)
      BY <3>3, <3>5, LiveFollows
    <3>7. ReplaySeesLiveWindow'
      <4>1. CASE shown' = shown
        BY <4>1 DEF LiveInv, ReplaySeesLiveWindow
      <4>2. CASE shown' = [windows |-> Windows(n + 1), context |-> Live!Build(live')]
        <5>1. PICK b : b = live'
          OBVIOUS
        <5>2. \A i \in {"driving", "other"} : Windows(n + 1)[i] = Numbers(Live!CandlesFor(Live!Build(b), i))
          BY <3>6, <5>1, ShownAlike
        <5> QED BY <4>2, <5>1, <5>2 DEF ReplaySeesLiveWindow
      <4> QED BY <3>3, <4>1, <4>2
    <3> QED BY <3>4, <3>6, <3>7 DEF LiveInv, Held
  <2>3. CASE EndReplay
    BY <2>1, <2>3 DEF EndReplay
  <2>4. CASE UNCHANGED replayVars
    BY <2>1, <2>4 DEF replayVars
  <2> QED BY <2>2, <2>3, <2>4 DEF ReplayNext
<1>3. LiveInv => ReplaySeesLiveWindow
  BY DEF LiveInv
<1> QED BY <1>1, <1>2, <1>3, PTL DEF ReplaySpec

-----------------------------------------------------------------------------
(* The analyst's confidence, for any composites of any of its timeframes.  *)

Thousandths == -1000..1000
AnyComposites == UNION {[S -> Thousandths] : S \in (SUBSET TrackedIntervals) \ {{}}}

ViewSpec ==
  /\ job = "composites" /\ input = Nothing
  /\ [][job' = job /\ input' \in AnyComposites]_<<job, input>>

LEMMA ThousandthsAre == \A x \in Thousandths : x \in Int /\ -1000 <= x /\ x <= 1000
  BY DEF Thousandths

LEMMA MaxOfTwo == \A a, b \in Int : Max({a, b}) = IF a >= b THEN a ELSE b
<1> TAKE a, b \in Int
<1>1. CASE a >= b
  BY <1>1 DEF Max
<1>2. CASE ~(a >= b)
  BY <1>2 DEF Max
<1> QED BY <1>1, <1>2

LEMMA MinOfTwo == \A a, b \in Int : Min({a, b}) = IF a <= b THEN a ELSE b
<1> TAKE a, b \in Int
<1>1. CASE a <= b
  BY <1>1 DEF Min
<1>2. CASE ~(a <= b)
  BY <1>2 DEF Min
<1> QED BY <1>1, <1>2

LEMMA ClampIs == \A x \in Int : Clamp(x) = IF x > 1000 THEN 1000 ELSE IF x < -1000 THEN -1000 ELSE x
<1> TAKE x \in Int
<1>1. Min({1000, x}) = IF 1000 <= x THEN 1000 ELSE x
  BY MinOfTwo
<1>2. PICK m \in Int : m = Min({1000, x})
  BY <1>1
<1>3. Max({-1000, m}) = IF -1000 >= m THEN -1000 ELSE m
  BY MaxOfTwo
<1> QED BY <1>1, <1>2, <1>3 DEF Clamp

(* A quotient of a that is dropped towards zero lies between 0 and what it *)
(* is the quotient of.                                                     *)
Bounds(q, a, b, k) == (-(k * b) <= a => -k <= q) /\ (a <= k * b => q <= k)

LEMMA QuotIs ==
  ASSUME NEW a \in Int, NEW b \in Nat \ {0}
  PROVE  Quot(a, b) \in Int /\ \A k \in Nat : Bounds(Quot(a, b), a, b, k)
<1> USE DEF Bounds
<1>1. \A x \in Nat : x \div b \in Nat /\ \A k \in Nat : x <= k * b => x \div b <= k
  <2> SUFFICES ASSUME NEW x \in Nat
               PROVE  x \div b \in Nat /\ \A k \in Nat : x <= k * b => x \div b <= k
    OBVIOUS
  <2>1. PICK q \in Int : q = x \div b /\ q * b <= x /\ x < (q + 1) * b
    <3>1. x \div b \in Int /\ (x \div b) * b <= x /\ x < ((x \div b) + 1) * b
      OBVIOUS
    <3> QED BY <3>1
  <2>2. q >= 0
    <3> SUFFICES ASSUME q + 1 <= 0 PROVE FALSE
      OBVIOUS
    <3>1. (q + 1) * b <= 0
      OBVIOUS
    <3> QED BY <2>1, <3>1
  <2>3. ASSUME NEW k \in Nat, x <= k * b PROVE q <= k
    <3> SUFFICES ASSUME k + 1 <= q PROVE FALSE
      OBVIOUS
    <3>1. (k + 1) * b <= q * b /\ (k + 1) * b = k * b + b
      OBVIOUS
    <3>2. PICK u \in Int, v \in Int : u = k * b /\ v = q * b
      OBVIOUS
    <3>3. x <= u /\ v <= x /\ u + b <= v
      BY <2>1, <2>3, <3>1, <3>2
    <3> QED BY <3>3
  <2> QED BY <2>1, <2>2, <2>3
<1>2. CASE a < 0
  <2>1. -a \in Nat
    BY <1>2
  <2>2. Quot(a, b) = -((-a) \div b)
    BY <1>2 DEF Quot
  <2>3. PICK q \in Nat : q = (-a) \div b /\ \A k \in Nat : -a <= k * b => q <= k
    BY <1>1, <2>1
  <2>4. \A k \in Nat : -(k * b) <= a => -a <= k * b
    <3> TAKE k \in Nat
    <3>1. PICK u \in Int : u = k * b
      OBVIOUS
    <3> QED BY <3>1
  <2>5. \A k \in Nat : -q <= k
    OBVIOUS
  <2> QED BY <2>2, <2>3, <2>4, <2>5
<1>3. CASE a >= 0
  <2>1. a \in Nat /\ Quot(a, b) = a \div b
    BY <1>3 DEF Quot
  <2>2. PICK q \in Nat : q = a \div b /\ \A k \in Nat : a <= k * b => q <= k
    BY <1>1, <2>1
  <2> QED BY <2>1, <2>2
<1> QED BY <1>2, <1>3

LEMMA TimeframesFinite == \A S \in SUBSET TrackedIntervals : IsFiniteSet(S)
<1>1. PICK n \in Nat : DOMAIN Intervals = 1..n
  BY AnalystAssumption
<1>2. IsFiniteSet(1..n)
  BY FS_Interval
<1>3. Intervals \in Surjection(1..n, TrackedIntervals)
  <2>1. Intervals \in [1..n -> TrackedIntervals]
    BY <1>1, AnalystAssumption
  <2>2. {Intervals[k] : k \in 1..n} = TrackedIntervals
    BY <1>1, AnalystAssumption DEF Range
  <2> QED BY <2>1, <2>2 DEF Surjection
<1>4. IsFiniteSet(TrackedIntervals)
  BY <1>2, <1>3, FS_Surjection
<1> QED BY <1>4, FS_Subset

(* The score lies where all composites do. *)
Within(s, S, c, k) ==
  /\ (\A i \in S : -k <= c[i]) => -k <= s
  /\ (\A i \in S : c[i] <= k) => s <= k

LEMMA ScoreWithin ==
  ASSUME NEW S \in SUBSET TrackedIntervals, S # {}, NEW c \in [S -> Thousandths], NEW k \in 0..1000
  PROVE  Score(c) \in Int /\ Within(Score(c), S, c, k)
<1> USE DEF Within
<1> DEFINE w == [i \in S |-> Weight[i]]
           p == [i \in S |-> Weight[i] * c[i]]
<1>1. IsFiniteSet(S)
  BY TimeframesFinite
<1>2. w \in [S -> Nat] /\ \A i \in S : w[i] \in Nat \ {0} /\ w[i] = Weight[i]
  BY AnalystAssumption
<1>3. p \in [S -> Int] /\ \A i \in S : p[i] = w[i] * c[i] /\ c[i] \in Int
  <2>1. \A i \in S : Weight[i] \in Int /\ c[i] \in Int
    <3>1. \A i \in S : i \in TrackedIntervals
      OBVIOUS
    <3>2. \A i \in S : Weight[i] \in Int
      BY <3>1, AnalystAssumption
    <3>3. \A i \in S : c[i] \in Int
      BY ThousandthsAre
    <3> QED BY <3>2, <3>3
  <2> QED BY <2>1, Product
<1>4. Score(c) = Clamp(Quot(SumOf(p), SumOf(w)))
  BY DEF Score
<1> HIDE DEF w, p
<1>5. w \in [S -> Int]
  BY <1>2
<1>6. PICK W \in Nat \ {0} : W = SumOf(w)
  <2>1. SumOf(w) \in Nat /\ \A i \in S : w[i] <= SumOf(w)
    BY <1>1, <1>2, SumNat
  <2>2. PICK i \in S : TRUE
    OBVIOUS
  <2> QED BY <1>2, <2>1, <2>2
<1>7. PICK P \in Int : P = SumOf(p)
  BY <1>1, <1>3, SumInt
<1>8. ASSUME \A i \in S : -k <= c[i] PROVE -(k * W) <= P
  <2> DEFINE l == [i \in S |-> (-k) * w[i]]
  <2>1. SumOf(l) = (-k) * SumOf(w)
    <3>1. -k \in Int
      OBVIOUS
    <3> QED BY <1>1, <1>5, <3>1, SumTimes
  <2>2. l \in [S -> Int] /\ \A i \in S : l[i] <= p[i]
    <3>1. \A x \in Int, y \in Nat, z \in Int : x <= z => x * y <= y * z
      OBVIOUS
    <3>2. -k \in Int /\ \A i \in S : (-k) * w[i] \in Int
      BY <1>2, Product
    <3>3. \A i \in S : (-k) * w[i] <= w[i] * c[i]
      BY <1>2, <1>3, <1>8, <3>1, <3>2
    <3> QED BY <1>3, <3>2, <3>3
  <2>3. SumOf(l) <= SumOf(p)
    <3> HIDE DEF l
    <3> QED BY <1>1, <1>3, <2>2, SumMonotone
  <2>4. (-k) * W = -(k * W)
    OBVIOUS
  <2> QED BY <1>6, <1>7, <2>1, <2>3, <2>4
<1>9. ASSUME \A i \in S : c[i] <= k PROVE P <= k * W
  <2> DEFINE l == [i \in S |-> k * w[i]]
  <2>1. SumOf(l) = k * SumOf(w)
    BY <1>1, <1>5, SumTimes
  <2>2. l \in [S -> Int] /\ \A i \in S : p[i] <= l[i]
    <3>1. \A x \in Int, y \in Nat, z \in Int : z <= x => y * z <= x * y
      OBVIOUS
    <3>2. \A i \in S : k * w[i] \in Int
      BY <1>2, Product
    <3>3. \A i \in S : w[i] * c[i] <= k * w[i]
      BY <1>2, <1>3, <1>9, <3>1
    <3> QED BY <1>3, <3>2, <3>3
  <2>3. SumOf(p) <= SumOf(l)
    <3> HIDE DEF l
    <3> QED BY <1>1, <1>3, <2>2, SumMonotone
  <2> QED BY <1>6, <1>7, <2>1, <2>3
<1>10. PICK q \in Int : q = Quot(P, W) /\ (-(k * W) <= P => -k <= q) /\ (P <= k * W => q <= k)
  <2>1. k \in Nat
    OBVIOUS
  <2>2. Quot(P, W) \in Int /\ Bounds(Quot(P, W), P, W, k)
    BY <2>1, QuotIs
  <2> QED BY <2>2 DEF Bounds
<1>11. Score(c) = IF q > 1000 THEN 1000 ELSE IF q < -1000 THEN -1000 ELSE q
  BY <1>4, <1>6, <1>7, <1>10, ClampIs
<1> QED BY <1>8, <1>9, <1>10, <1>11

OneWay(c) == (\A i \in Viewing(c) : c[i] > 0) \/ (\A i \in Viewing(c) : ~(c[i] > 0))

LEMMA AgreementIs ==
  ASSUME NEW S \in SUBSET TrackedIntervals, NEW c \in [S -> Thousandths]
  PROVE  /\ Agreement(c) \in Int /\ Agreement(c) <= 1000
         /\ Agreement(c) = 1000 => OneWay(c)
<1> USE DEF OneWay
<1> DEFINE V == Viewing(c)
           U == {i \in V : c[i] > 0}
           v == Cardinality(V)
           u == Cardinality(U)
<1>1. IsFiniteSet(V) /\ IsFiniteSet(U) /\ U \subseteq V
  <2>1. V \subseteq S
    BY DEF Viewing
  <2> QED BY <2>1, TimeframesFinite, FS_Subset
<1>2. v \in Nat /\ u \in Nat /\ u <= v
  BY <1>1, FS_CardinalityType, FS_Subset
<1>3. u = v => U = V
  BY <1>1, FS_Subset
<1>4. u = 0 => U = {}
  BY <1>1, FS_EmptySet
<1>5. Agreement(c) = IF v = 0 THEN 0 ELSE (1000 * (2 * Max({u, v - u}) - v)) \div v
  BY DEF Agreement
<1> HIDE DEF V, U, v, u
<1>6. CASE v = 0
  BY <1>5, <1>6
<1>7. CASE v # 0
  <2>1. v - u \in Int /\ Max({u, v - u}) = IF u >= v - u THEN u ELSE v - u
    BY <1>2, MaxOfTwo
  <2>2. PICK m \in Nat : m = Max({u, v - u}) /\ m <= v /\ (m = v => u = v \/ u = 0)
    BY <1>2, <2>1
  <2>3. PICK q \in Int : q = (1000 * (2 * m - v)) \div v /\ q * v <= 1000 * (2 * m - v)
    <3>1. 1000 * (2 * m - v) \in Int /\ v \in Nat \ {0}
      BY <1>2, <1>7
    <3> QED BY <3>1, Quotient
  <2>4. q <= 1000
    <3> SUFFICES ASSUME 1001 <= q PROVE FALSE
      OBVIOUS
    <3>1. 1001 * v <= q * v
      BY <1>2
    <3>2. 1000 * (2 * m - v) <= 1000 * v
      BY <1>2, <2>2
    <3>3. PICK x \in Int : x = q * v
      BY <1>2, Product
    <3> QED BY <1>2, <1>7, <2>3, <3>1, <3>2, <3>3
  <2>5. q = 1000 => m = v
    BY <1>2, <2>2, <2>3
  <2>6. Agreement(c) = q
    BY <1>5, <1>7, <2>2, <2>3
  <2>7. q = 1000 => U = V \/ U = {}
    BY <1>3, <1>4, <2>2, <2>5
  <2>8. U = V \/ U = {} => (\A i \in V : c[i] > 0) \/ (\A i \in V : ~(c[i] > 0))
    BY DEF U
  <2> QED BY <2>4, <2>6, <2>7, <2>8 DEF V
<1> QED BY <1>6, <1>7

(* How full the conviction is, and the confidence that it makes.           *)
Fullness(s) == Min({1000, (1000 * Abs(s)) \div FullConviction})
Confident(m, a) == (m * (6000 + 4 * a)) \div 10000

LEMMA FullnessIs ==
  ASSUME NEW s \in Int
  PROVE  /\ Fullness(s) \in Nat /\ Fullness(s) <= 1000
         /\ Fullness(s) = 1000 => Abs(s) >= FullConviction
<1>1. PICK n \in Nat : n = Abs(s)
  BY DEF Abs
<1>2. PICK F \in Nat \ {0} : F = FullConviction
  <2>1. {MinAbsScore, FullConviction} \subseteq 1..1000
    BY AnalystAssumption
  <2>2. FullConviction \in 1..1000
    BY <2>1
  <2> QED BY <2>2
<1>3. PICK q \in Nat : q = (1000 * n) \div F /\ q * F <= 1000 * n
  <2>1. 1000 * n \in Nat
    OBVIOUS
  <2>2. \A x \in Nat : x \div F \in Nat
    OBVIOUS
  <2> QED BY <2>1, <2>2, Quotient
<1>4. Fullness(s) = Min({1000, q})
  BY <1>1, <1>2, <1>3 DEF Fullness
<1>5. Fullness(s) = IF 1000 <= q THEN 1000 ELSE q
  BY <1>4, MinOfTwo
<1>6. ASSUME 1000 <= q PROVE F <= n
  <2>1. 1000 * F <= q * F
    BY <1>6
  <2>2. PICK x \in Int : x = q * F
    BY Product
  <2> QED BY <1>3, <2>1, <2>2
<1> QED BY <1>1, <1>2, <1>5, <1>6

LEMMA ConfidenceOf == \A s, a : Confidence(s, a) = Confident(Fullness(s), a)
  BY DEF Confidence, Fullness, Confident

LEMMA ConfidentIs ==
  ASSUME NEW m \in Nat, m <= 1000, NEW a \in Int, a <= 1000
  PROVE  Confident(m, a) \in Int /\ (Confident(m, a) = 1000 => m = 1000 /\ a = 1000)
<1>1. PICK b \in Int : b = 6000 + 4 * a
  OBVIOUS
<1>2. PICK p \in Int : p = m * b
  BY Product
<1>3. Confident(m, a) = p \div 10000
  BY <1>1, <1>2 DEF Confident
<1>4. p \div 10000 \in Int
  OBVIOUS
<1>5. ASSUME p \div 10000 = 1000 PROVE m = 1000 /\ b = 10000
  <2>1. 10000000 <= p
    BY <1>5
  <2>2. b <= 10000
    BY <1>1
  <2>3. 1 <= m
    <3> SUFFICES ASSUME m = 0 PROVE FALSE
      OBVIOUS
    <3>1. p = 0
      BY <1>2
    <3> QED BY <2>1, <3>1
  <2>4. ASSUME NEW x \in Int, NEW y \in Int, x <= 1000, y <= 10000, 10000000 <= x * y, 1 <= x
        PROVE  x = 1000 /\ y = 10000
    <3>1. x * y <= x * 10000
      BY <2>4
    <3>2. x >= 1000
      BY <2>4, <3>1
    <3>3. 10000000 <= 1000 * y
      BY <2>4, <3>2
    <3> QED BY <2>4, <3>2, <3>3
  <2> QED BY <1>2, <2>1, <2>2, <2>3, <2>4
<1>6. b = 10000 => a = 1000
  BY <1>1
<1> QED BY <1>3, <1>4, <1>5, <1>6

LEMMA UnanimousView ==
  ASSUME MinAbsScore < 1000, 50 <= FullConviction, NEW S \in SUBSET TrackedIntervals, S # {},
         NEW c \in [S -> Thousandths]
  PROVE  Unanimous(c)
<1> SUFFICES ASSUME View(c).confidence = 1000
             PROVE  /\ View(c).direction # "flat"
                    /\ \A i \in S : Abs(c[i]) >= 50 => (c[i] > 0 <=> View(c).direction = "long")
  BY DEF Unanimous
<1>1. PICK s \in Int : s = Score(c) /\ ((\A i \in S : -49 <= c[i]) => -49 <= s)
                                   /\ ((\A i \in S : c[i] <= 49) => s <= 49)
  <2>1. PICK k \in 0..1000 : k = 49
    OBVIOUS
  <2>2. Score(c) \in Int /\ Within(Score(c), S, c, k)
    BY ScoreWithin
  <2> QED BY <2>1, <2>2 DEF Within
<1>2. PICK a \in Int : a = Agreement(c) /\ a <= 1000
  BY AgreementIs
<1>3. MinAbsScore \in 1..999 /\ FullConviction \in 50..1000
  <2>1. MinAbsScore \in 1..1000 /\ FullConviction \in 1..1000
    BY AnalystAssumption
  <2> QED BY <2>1
<1>4. /\ View(c).direction = FromScore(s)
      /\ View(c).confidence = IF FromScore(s) = "flat" THEN Min({Confidence(s, a), MinAbsScore}) ELSE Confidence(s, a)
  BY <1>1, <1>2 DEF View
<1>5. PICK m \in Nat : m = Fullness(s) /\ m <= 1000 /\ (m = 1000 => Abs(s) >= FullConviction)
  BY FullnessIs
<1>6. Confidence(s, a) = Confident(m, a) /\ Confident(m, a) \in Int
  BY <1>2, <1>5, ConfidenceOf, ConfidentIs
<1>7. FromScore(s) # "flat"
  <2> SUFFICES ASSUME FromScore(s) = "flat" PROVE FALSE
    OBVIOUS
  <2>1. Min({Confidence(s, a), MinAbsScore}) = 1000
    BY <1>4
  <2> QED BY <1>3, <1>6, <2>1, MinOfTwo
<1>8. a = 1000 /\ Abs(s) >= FullConviction
  BY <1>2, <1>4, <1>5, <1>7, <1>6, ConfidentIs
<1>9. (FromScore(s) = "long" /\ s >= 50) \/ (FromScore(s) = "short" /\ s <= -50)
  BY <1>3, <1>7, <1>8 DEF FromScore, Abs
<1>10. \A i \in S : c[i] \in Int /\ (i \in Viewing(c) <=> Abs(c[i]) >= 50)
  BY ThousandthsAre DEF Viewing
<1>11. \/ \A i \in Viewing(c) : c[i] > 0
       \/ \A i \in Viewing(c) : ~(c[i] > 0)
  <2>1. Agreement(c) = 1000 => OneWay(c)
    BY AgreementIs
  <2> QED BY <1>2, <1>8, <2>1 DEF OneWay
<1>12. CASE \A i \in Viewing(c) : c[i] > 0
  <2>1. \A i \in S : -49 <= c[i]
    BY <1>10, <1>12 DEF Abs
  <2>2. FromScore(s) = "long"
    BY <1>1, <1>9, <2>1
  <2> QED BY <1>4, <1>10, <1>12, <2>2
<1>13. CASE \A i \in Viewing(c) : ~(c[i] > 0)
  <2>1. \A i \in S : c[i] <= 49
    BY <1>10, <1>13 DEF Abs
  <2>2. FromScore(s) = "short"
    BY <1>1, <1>9, <2>1
  <2> QED BY <1>4, <1>10, <1>13, <2>2
<1> QED BY <1>11, <1>12, <1>13

(* "A view the timeframes disagree about can never reach full confidence"  *)
(* (MarketAnalystAgent._confidence): at full confidence the direction is   *)
(* taken, and no timeframe with a score of 0.05 or more points the other   *)
(* way, whatever the timeframes, their weights and their composites.  The  *)
(* hypotheses: min_abs_score is below 1, and full_conviction_score not     *)
(* below the 0.05 from which a timeframe has a view.                       *)
THEOREM ConvictionNeedsAgreement ==
  ASSUME MinAbsScore < 1000, 50 <= FullConviction
  PROVE  ViewSpec => []ConvictionIsUnanimous
<1> DEFINE Valued == job = "composites" /\ (input = Nothing \/ input \in AnyComposites)
<1>1. job = "composites" /\ input = Nothing => Valued
  OBVIOUS
<1>2. Valued /\ [job' = job /\ input' \in AnyComposites]_<<job, input>> => Valued'
  OBVIOUS
<1>3. Valued => ConvictionIsUnanimous
  <2> SUFFICES ASSUME input \in AnyComposites PROVE Unanimous(input)
    BY DEF ConvictionIsUnanimous, Of
  <2>1. PICK S \in SUBSET TrackedIntervals : S # {} /\ input \in [S -> Thousandths]
    <3>1. PICK X \in {[S -> Thousandths] : S \in (SUBSET TrackedIntervals) \ {{}}} : input \in X
      BY DEF AnyComposites
    <3>2. PICK S \in (SUBSET TrackedIntervals) \ {{}} : X = [S -> Thousandths]
      BY <3>1
    <3> QED BY <3>1, <3>2
  <2> QED BY <2>1, UnanimousView
<1> QED BY <1>1, <1>2, <1>3, PTL DEF ViewSpec

-----------------------------------------------------------------------------
(* A timeframe's scores, for any closes and volumes.                       *)

(* A computation that goes on from its last value takes one value per step. *)
Goes(h, base, step, i) == h[0] = base /\ \A n \in 1..i : h[n] = step[<<n, h[n - 1]>>]

LEMMA Recursion ==
  ASSUME NEW S, NEW base \in S, NEW m \in Nat, NEW step \in [(1..m) \X S -> S]
  PROVE  \E h \in [0..m -> S] : Goes(h, base, step, m)
<1> USE DEF Goes
<1> DEFINE X == {i \in 0..m : \E h \in [0..i -> S] : Goes(h, base, step, i)}
<1>1. 0 \in X
  <2>1. PICK h : h = [n \in 0..0 |-> base]
    OBVIOUS
  <2>2. h \in [0..0 -> S] /\ h[0] = base /\ 1..0 = {} /\ 0 \in 0..m
    BY <2>1
  <2>3. Goes(h, base, step, 0)
    BY <2>2
  <2> QED BY <2>2, <2>3
<1>2. ASSUME NEW i \in 0..(m - 1), i \in X PROVE i + 1 \in X
  <2>1. PICK h \in [0..i -> S] : Goes(h, base, step, i)
    BY <1>2
  <2>2. PICK x \in S : x = step[<<i + 1, h[i]>>]
    <3>1. i + 1 \in 1..m /\ h[i] \in S
      BY <2>1
    <3> QED BY <3>1
  <2>3. PICK g : g = [n \in 0..i + 1 |-> IF n = i + 1 THEN x ELSE h[n]]
    OBVIOUS
  <2>4. g \in [0..i + 1 -> S]
    BY <2>1, <2>2, <2>3
  <2>5. g[0] = base
    BY <2>1, <2>3
  <2>6. ASSUME NEW n \in 1..i + 1 PROVE g[n] = step[<<n, g[n - 1]>>]
    <3>1. CASE n = i + 1
      <4>1. g[n] = x /\ n - 1 = i /\ g[i] = h[i]
        BY <2>3, <3>1
      <4> QED BY <2>2, <3>1, <4>1
    <3>2. CASE n # i + 1
      <4>1. n \in 1..i /\ g[n] = h[n] /\ g[n - 1] = h[n - 1]
        BY <2>3, <3>2
      <4> QED BY <2>1, <4>1
    <3> QED BY <3>1, <3>2
  <2> QED BY <2>4, <2>5, <2>6
<1> HIDE DEF X
<1>3. 0..m \subseteq X
  BY <1>1, <1>2, Upwards
<1> QED BY <1>3 DEF X

-----------------------------------------------------------------------------
(* Sequences of numbers. *)

LEMMA SequenceSum ==
  /\ \A s \in Seq(Int) : Added(s) \in Int
  /\ \A s \in Seq(Nat) : Added(s) \in Nat
<1>1. ASSUME NEW s \in Seq(Int) PROVE Added(s) \in Int
  <2>1. PICK n \in Nat : s \in [1..n -> Int]
    OBVIOUS
  <2>2. IsFiniteSet(1..n)
    BY FS_Interval
  <2> QED BY <2>1, <2>2, SumInt DEF Added
<1>2. ASSUME NEW s \in Seq(Nat) PROVE Added(s) \in Nat
  <2>1. PICK n \in Nat : s \in [1..n -> Nat]
    OBVIOUS
  <2>2. IsFiniteSet(1..n)
    BY FS_Interval
  <2> QED BY <2>1, <2>2, SumNat DEF Added
<1> QED BY <1>1, <1>2

LEMMA PartOf ==
  ASSUME NEW S, NEW s \in Seq(S), NEW a \in Nat, NEW b \in Nat, 1 <= a, a <= b, b <= Len(s)
  PROVE  /\ SubSeq(s, a, b) \in Seq(S) /\ Len(SubSeq(s, a, b)) = b - a + 1
         /\ \A k \in 1..b - a + 1 : SubSeq(s, a, b)[k] = s[a + k - 1]
<1>1. /\ SubSeq(s, a, b) \in Seq(S) /\ Len(SubSeq(s, a, b)) = IF a <= b THEN b - a + 1 ELSE 0
      /\ \A k \in 1..b - a + 1 : SubSeq(s, a, b)[k] = s[a + k - 1]
  <2>1. \A k \in a..b : s[k] \in S
    OBVIOUS
  <2> QED BY <2>1, SubSeqProperties
<1> QED BY <1>1

LEMMA NewerIs ==
  ASSUME NEW S, NEW s \in Seq(S), NEW n \in Nat, 1 <= n, n <= Len(s)
  PROVE  Newer(n, s) \in Seq(S) /\ Len(Newer(n, s)) = n
<1>1. PICK a \in Nat, b \in Nat : a = Len(s) - n + 1 /\ b = Len(s)
  <2>1. Len(s) \in Nat /\ Len(s) - n + 1 \in Nat
    OBVIOUS
  <2> QED BY <2>1
<1>2. 1 <= a /\ a <= b /\ b <= Len(s) /\ b - a + 1 = n
  BY <1>1
<1> QED BY <1>1, <1>2, PartOf DEF Newer

LEMMA LastIs == ASSUME NEW S, NEW s \in Seq(S), Len(s) > 0 PROVE Last(s) \in S
  BY DEF Last

-----------------------------------------------------------------------------
(* Quotients and clamps. *)

LEMMA QuotInt == \A a \in Int, b \in Nat \ {0} : Quot(a, b) \in Int
  BY QuotIs

LEMMA QuotSign ==
  ASSUME NEW a \in Int, NEW b \in Nat \ {0}
  PROVE  /\ Quot(a, b) \in Int
         /\ (a >= 0 => Quot(a, b) >= 0) /\ (a <= 0 => Quot(a, b) <= 0)
<1>1. Quot(a, b) \in Int /\ Bounds(Quot(a, b), a, b, 0)
  BY QuotIs
<1> QED BY <1>1 DEF Bounds

LEMMA ClampWithin ==
  ASSUME NEW x \in Int
  PROVE  Clamp(x) \in Thousandths /\ (x >= 0 => Clamp(x) >= 0) /\ (x <= 0 => Clamp(x) <= 0)
<1>1. Clamp(x) = IF x > 1000 THEN 1000 ELSE IF x < -1000 THEN -1000 ELSE x
  BY ClampIs
<1> QED BY <1>1 DEF Thousandths

LEMMA ClampedQuotIs ==
  ASSUME NEW a \in Int, NEW b \in Nat \ {0}
  PROVE  ClampedQuot(a, b) \in Thousandths
<1>1. CASE Abs(a) >= b
  BY <1>1 DEF ClampedQuot, Sign, Thousandths
<1>2. CASE ~(Abs(a) >= b)
  <2>1. ClampedQuot(a, b) = Quot(1000 * a, b)
    BY <1>2 DEF ClampedQuot
  <2>2. -b < a /\ a < b
    BY <1>2 DEF Abs
  <2>3. PICK x \in Int : x = 1000 * a /\ -(1000 * b) <= x /\ x <= 1000 * b
    BY <2>2
  <2>4. PICK q \in Int : q = Quot(x, b) /\ Bounds(q, x, b, 1000)
    BY QuotIs
  <2>5. -1000 <= q /\ q <= 1000
    BY <2>3, <2>4 DEF Bounds
  <2> QED BY <2>1, <2>3, <2>4, <2>5 DEF Thousandths
<1> QED BY <1>1, <1>2

(* An average goes part of the way to a value and not beyond it. *)
LEMMA PartOfTheWay ==
  ASSUME NEW x \in Nat, NEW v \in Nat, NEW part \in Nat, NEW whole \in Nat \ {0}, part <= whole
  PROVE  x + Quot(part * (v - x), whole) \in Nat
<1>1. PICK d \in Int, y \in Int : d = v - x /\ y = part * d
  OBVIOUS
<1>2. Quot(y, whole) \in Int /\ \A k \in Nat : Bounds(Quot(y, whole), y, whole, k)
  BY QuotIs
<1>3. PICK q \in Int : q = Quot(y, whole)
  BY <1>2
<1>4. CASE d >= 0
  <2>1. y >= 0
    BY <1>1, <1>4
  <2>2. q >= 0
    BY <1>3, <2>1, QuotSign
  <2> QED BY <1>1, <1>3, <2>2
<1>5. CASE d < 0
  <2>1. PICK k \in Nat : k = -d
    BY <1>5
  <2>2. -(k * whole) <= y
    <3>1. k * part <= k * whole
      OBVIOUS
    <3>2. y = -(k * part)
      BY <1>1, <2>1
    <3>3. k * part \in Int /\ k * whole \in Int
      OBVIOUS
    <3> QED BY <3>1, <3>2, <3>3
  <2>3. -k <= q
    BY <1>2, <1>3, <2>2 DEF Bounds
  <2> QED BY <1>1, <1>3, <2>1, <2>3
<1> QED BY <1>4, <1>5

-----------------------------------------------------------------------------
(* Averages and other indicators. *)

Steps(v, s, p, part, whole) ==
  v = [n \in 0..Len(s) - p |->
         IF n = 0 THEN Quot(Added(SubSeq(s, 1, p)), p)
         ELSE v[n - 1] + Quot(part * (s[p + n] - v[n - 1]), whole)]
Stepping(s, p, part, whole) == CHOOSE v : Steps(v, s, p, part, whole)

LEMMA SmoothedSteps ==
  ASSUME NEW s, NEW p, NEW part, NEW whole
  PROVE  Smoothed(s, p, part, whole) =
           IF Len(s) < p THEN << >>
           ELSE [k \in 1..Len(s) - p + 1 |-> Stepping(s, p, part, whole)[k - 1]]
  BY DEF Smoothed, Stepping, Steps

LEMMA StepsExist ==
  ASSUME NEW S \in {Int, Nat}, NEW s \in Seq(S), NEW p \in Nat \ {0}, p <= Len(s),
         NEW part \in Nat, NEW whole \in Nat \ {0}, part <= whole
  PROVE  \E v \in [0..Len(s) - p -> S] : Steps(v, s, p, part, whole)
<1>0. PICK m \in Nat : m = Len(s) - p
  OBVIOUS
<1>1. PICK base : m = Len(s) - p /\ base = Quot(Added(SubSeq(s, 1, p)), p)
  BY <1>0
<1>2. base \in S
  <2>1. SubSeq(s, 1, p) \in Seq(S)
    BY PartOf
  <2>2. CASE S = Int
    BY <1>1, <2>1, <2>2, SequenceSum, QuotSign
  <2>3. CASE S = Nat
    <3>1. PICK a \in Nat : a = Added(SubSeq(s, 1, p))
      BY <2>1, <2>3, SequenceSum
    <3>2. Quot(a, p) \in Int /\ Quot(a, p) >= 0
      <4>1. a \in Int /\ a >= 0
        OBVIOUS
      <4> QED BY <4>1, QuotSign
    <3> QED BY <1>1, <2>3, <3>1, <3>2
  <2> QED BY <2>2, <2>3
<1> DEFINE to(n, x) == x + Quot(part * (s[p + n] - x), whole)
<1>3. \A n \in 1..m : \A x \in S : to(n, x) \in S
  <2> SUFFICES ASSUME NEW n \in 1..m, NEW x \in S PROVE to(n, x) \in S
    OBVIOUS
  <2>1. PICK y \in S : y = s[p + n]
    <3>1. p + n \in 1..Len(s)
      BY <1>1
    <3> QED BY <3>1
  <2>2. CASE S = Int
    <3>1. part * (y - x) \in Int
      BY <2>2
    <3>2. Quot(part * (y - x), whole) \in Int
      BY <3>1, QuotInt
    <3> QED BY <2>1, <2>2, <3>2
  <2>3. CASE S = Nat
    BY <2>1, <2>3, PartOfTheWay
  <2> QED BY <2>2, <2>3
<1>4. PICK step : step = [z \in (1..m) \X S |-> to(z[1], z[2])]
  OBVIOUS
<1>5. /\ step \in [(1..m) \X S -> S]
      /\ \A n \in 1..m : \A x \in S : step[<<n, x>>] = to(n, x)
  BY <1>3, <1>4
<1>6. PICK v \in [0..m -> S] : Goes(v, base, step, m)
  BY <1>2, <1>5, Recursion
<1>7. v[0] = base /\ \A n \in 1..m : v[n] = to(n, v[n - 1])
  <2>1. \A n \in 1..m : v[n - 1] \in S
    <3>1. \A n \in 1..m : n - 1 \in 0..m
      OBVIOUS
    <3> QED BY <1>6, <3>1
  <2> QED BY <1>5, <1>6, <2>1 DEF Goes
<1>8. v = [n \in 0..m |-> IF n = 0 THEN base ELSE to(n, v[n - 1])]
  <2>1. \A n \in 0..m : v[n] = IF n = 0 THEN base ELSE to(n, v[n - 1])
    BY <1>7
  <2> QED BY <1>6, <2>1
<1>9. Steps(v, s, p, part, whole)
  BY <1>1, <1>8 DEF Steps
<1> QED BY <1>1, <1>6, <1>9

(* Any that steps so has the same values. *)
LEMMA StepsAgree ==
  ASSUME NEW s, NEW p, NEW part, NEW whole, NEW m \in Nat, m = Len(s) - p,
         NEW v, NEW w, Steps(v, s, p, part, whole), Steps(w, s, p, part, whole)
  PROVE  v = w
<1> DEFINE X == {n \in 0..m : v[n] = w[n]}
<1>1. /\ v = [n \in 0..m |-> IF n = 0 THEN Quot(Added(SubSeq(s, 1, p)), p)
                             ELSE v[n - 1] + Quot(part * (s[p + n] - v[n - 1]), whole)]
      /\ w = [n \in 0..m |-> IF n = 0 THEN Quot(Added(SubSeq(s, 1, p)), p)
                             ELSE w[n - 1] + Quot(part * (s[p + n] - w[n - 1]), whole)]
  BY DEF Steps
<1>2. 0 \in X
  BY <1>1
<1>3. ASSUME NEW i \in 0..(m - 1), i \in X PROVE i + 1 \in X
  <2>1. i + 1 \in 0..m /\ i + 1 # 0 /\ i + 1 - 1 = i
    OBVIOUS
  <2>2. /\ v[i + 1] = v[i] + Quot(part * (s[p + (i + 1)] - v[i]), whole)
        /\ w[i + 1] = w[i] + Quot(part * (s[p + (i + 1)] - w[i]), whole)
    BY <1>1, <2>1
  <2> QED BY <1>3, <2>1, <2>2
<1> HIDE DEF X
<1>4. 0..m \subseteq X
  BY <1>2, <1>3, Upwards
<1>5. \A n \in 0..m : v[n] = w[n]
  BY <1>4 DEF X
<1> QED BY <1>1, <1>5

Remaining(n, p) == IF n < p THEN 0 ELSE n - p + 1
Averaging(x, S, n, p) == x \in Seq(S) /\ Len(x) = Remaining(n, p)

LEMMA SmoothedIs ==
  ASSUME NEW S \in {Int, Nat}, NEW s \in Seq(S), NEW p \in Nat \ {0},
         NEW part \in Nat, NEW whole \in Nat \ {0}, part <= whole
  PROVE  Averaging(Smoothed(s, p, part, whole), S, Len(s), p)
<1> USE DEF Averaging, Remaining
<1>1. CASE Len(s) < p
  <2>1. Smoothed(s, p, part, whole) = << >>
    BY <1>1, SmoothedSteps
  <2> QED BY <1>1, <2>1
<1>2. CASE ~(Len(s) < p)
  <2>1. PICK m \in Nat : m = Len(s) - p
    BY <1>2
  <2>2. PICK v \in [0..m -> S] : Steps(v, s, p, part, whole)
    <3>1. p <= Len(s) /\ p \in Nat
      BY <1>2
    <3>2. \E v \in [0..Len(s) - p -> S] : Steps(v, s, p, part, whole)
      BY <3>1, StepsExist
    <3> QED BY <2>1, <3>2
  <2>3. Stepping(s, p, part, whole) = v
    <3>1. Steps(Stepping(s, p, part, whole), s, p, part, whole)
      BY <2>2 DEF Stepping
    <3> QED BY <2>1, <2>2, <3>1, StepsAgree
  <2>4. Smoothed(s, p, part, whole) = [k \in 1..m + 1 |-> v[k - 1]]
    BY <1>2, <2>1, <2>3, SmoothedSteps
  <2>5. \A k \in 1..m + 1 : v[k - 1] \in S
    BY <2>2
  <2> QED BY <1>2, <2>1, <2>4, <2>5
<1> QED BY <1>1, <1>2

LEMMA AverageIs ==
  ASSUME NEW S \in {Int, Nat}, NEW s \in Seq(S), NEW p \in Nat \ {0}
  PROVE  Averaging(Ema(s, p), S, Len(s), p) /\ Averaging(Wilder(s, p), S, Len(s), p)
<1>1. PICK whole \in Nat \ {0} : whole = p + 1 /\ 2 <= whole
  <2>1. p + 1 \in Nat \ {0} /\ 2 <= p + 1
    OBVIOUS
  <2> QED BY <2>1
<1>2. Averaging(Smoothed(s, p, 2, whole), S, Len(s), p)
  <2>1. 2 \in Nat
    OBVIOUS
  <2> QED BY <1>1, <2>1, SmoothedIs
<1>3. Averaging(Smoothed(s, p, 1, p), S, Len(s), p)
  <2>1. 1 \in Nat /\ 1 <= p
    OBVIOUS
  <2> QED BY <2>1, SmoothedIs
<1> QED BY <1>1, <1>2, <1>3 DEF Ema, Wilder

LEMMA MinusIs ==
  ASSUME NEW a \in Seq(Int), NEW b \in Seq(Int), Len(b) <= Len(a)
  PROVE  Minus(a, b) \in Seq(Int) /\ Len(Minus(a, b)) = Len(b)
<1>1. PICK m \in Nat, n \in Nat : m = Len(b) /\ n = Len(a) - Len(b)
  <2>1. Len(b) \in Nat /\ Len(a) - Len(b) \in Nat
    OBVIOUS
  <2> QED BY <2>1
<1>2. \A k \in 1..m : /\ k + n \in 1..Len(a) /\ k + n = k + Len(a) - Len(b)
                      /\ a[k + Len(a) - Len(b)] - b[k] \in Int
  <2> SUFFICES ASSUME NEW k \in 1..m
               PROVE  /\ k + n \in 1..Len(a) /\ k + n = k + Len(a) - Len(b)
                      /\ a[k + Len(a) - Len(b)] - b[k] \in Int
    OBVIOUS
  <2>1. k + n \in 1..Len(a) /\ k + n = k + Len(a) - Len(b)
    BY <1>1
  <2>2. PICK x \in Int, y \in Int : x = a[k + n] /\ y = b[k]
    <3>1. a[k + n] \in Int /\ b[k] \in Int
      BY <1>1, <2>1
    <3> QED BY <3>1
  <2>3. a[k + Len(a) - Len(b)] = x
    BY <2>1, <2>2
  <2>4. x - y \in Int
    OBVIOUS
  <2> QED BY <2>1, <2>2, <2>3, <2>4
<1>3. Minus(a, b) = [k \in 1..m |-> a[k + Len(a) - Len(b)] - b[k]]
  <2>1. DOMAIN b = 1..m
    BY <1>1
  <2> QED BY <2>1 DEF Minus
<1> QED BY <1>1, <1>2, <1>3

Ratio(r) == \E gain, loss \in Nat : gain + loss > 0 /\ r = <<[gain |-> gain, loss |-> loss]>>

LEMMA RsiIs ==
  ASSUME NEW s \in Seq(Int), NEW p \in Nat \ {0}, Len(s) > p
  PROVE  Ratio(RsiParts(s, p))
<1> USE DEF Ratio
<1>1. PICK m \in Nat : m = Len(s) - 1 /\ m >= p
  <2>1. Len(s) - 1 \in Nat /\ Len(s) - 1 >= p
    OBVIOUS
  <2> QED BY <2>1
<1>2. Changes(s) \in [1..m -> Int]
  <2>1. \A k \in 1..m : s[k + 1] - s[k] \in Int
    <3> SUFFICES ASSUME NEW k \in 1..m PROVE s[k + 1] - s[k] \in Int
      OBVIOUS
    <3>1. k \in 1..Len(s) /\ k + 1 \in 1..Len(s)
      BY <1>1
    <3> QED BY <3>1
  <2> QED BY <1>1, <2>1 DEF Changes
<1>3. /\ Ups(Changes(s)) \in Seq(Nat) /\ Len(Ups(Changes(s))) = m
      /\ Downs(Changes(s)) \in Seq(Nat) /\ Len(Downs(Changes(s))) = m
  <2>1. PICK d \in [1..m -> Int] : d = Changes(s)
    BY <1>2
  <2>2. \A x \in Int : Max({x, 0}) \in Nat
    <3> TAKE x \in Int
    <3>1. Max({x, 0}) = IF x >= 0 THEN x ELSE 0
      <4>1. 0 \in Int
        OBVIOUS
      <4> QED BY <4>1, MaxOfTwo
    <3> QED BY <3>1
  <2>3. ASSUME NEW k \in 1..m PROVE Max({d[k], 0}) \in Nat /\ Max({-d[k], 0}) \in Nat
    <3>1. PICK x \in Int, y \in Int : x = d[k] /\ y = -d[k]
      <4>1. d[k] \in Int /\ -d[k] \in Int
        OBVIOUS
      <4> QED BY <4>1
    <3> QED BY <2>2, <3>1
  <2>4. Ups(d) \in [1..m -> Nat] /\ Downs(d) \in [1..m -> Nat]
    BY <2>3 DEF Ups, Downs
  <2>5. \A x \in [1..m -> Nat] : x \in Seq(Nat) /\ Len(x) = m
    OBVIOUS
  <2> QED BY <2>1, <2>4, <2>5
<1>4. ASSUME NEW x \in Seq(Nat), Len(x) = m PROVE Last(Wilder(x, p)) \in Nat
  <2>1. Wilder(x, p) \in Seq(Nat) /\ Len(Wilder(x, p)) = Remaining(m, p)
    BY <1>4, AverageIs DEF Averaging
  <2>2. Len(Wilder(x, p)) > 0
    BY <1>1, <2>1 DEF Remaining
  <2> QED BY <2>1, <2>2, LastIs
<1>5. PICK g \in Nat, l \in Nat : g = Last(Wilder(Ups(Changes(s)), p)) /\ l = Last(Wilder(Downs(Changes(s)), p))
  BY <1>3, <1>4
<1>6. RsiParts(s, p) = <<RsiOf(g, l)>>
  BY <1>5 DEF RsiParts
<1>7. CASE g + l = 0
  BY <1>6, <1>7 DEF RsiOf
<1>8. CASE g + l # 0
  <2>1. RsiOf(g, l) = [gain |-> g, loss |-> l] /\ g + l > 0
    BY <1>8 DEF RsiOf
  <2> QED BY <1>6, <2>1
<1> QED BY <1>7, <1>8

-----------------------------------------------------------------------------
(* The volume that has moved with the price and against it. *)

Balances(v, closes, volumes) ==
  v = [n \in 0..Len(closes) |->
         IF n <= 1 THEN 0 ELSE v[n - 1] + Sign(closes[n] - closes[n - 1]) * volumes[n]]
Balance(closes, volumes) == CHOOSE v : Balances(v, closes, volumes)

LEMMA BalanceOf ==
  ASSUME NEW closes, NEW volumes
  PROVE  OnBalanceVolume(closes, volumes) = [k \in DOMAIN closes |-> Balance(closes, volumes)[k]]
  BY DEF OnBalanceVolume, Balance, Balances

LEMMA SignIs == \A x \in Int : Sign(x) \in Int /\ Sign(x) \in {-1, 0, 1}
  BY DEF Sign

LEMMA BalanceIs ==
  ASSUME NEW closes \in Seq(Nat), NEW volumes \in Seq(Nat), Len(closes) = Len(volumes)
  PROVE  /\ OnBalanceVolume(closes, volumes) \in Seq(Int)
         /\ Len(OnBalanceVolume(closes, volumes)) = Len(closes)
<1>1. PICK m \in Nat : m = Len(closes) /\ m = Len(volumes)
  OBVIOUS
<1> DEFINE to(n, x) == IF n <= 1 THEN 0 ELSE x + Sign(closes[n] - closes[n - 1]) * volumes[n]
<1>2. \A n \in 1..m : \A x \in Int : to(n, x) \in Int
  <2> SUFFICES ASSUME NEW n \in 1..m, NEW x \in Int, n > 1
               PROVE  x + Sign(closes[n] - closes[n - 1]) * volumes[n] \in Int
    OBVIOUS
  <2>1. n \in 1..m /\ n - 1 \in 1..m
    OBVIOUS
  <2>2. closes[n] - closes[n - 1] \in Int /\ volumes[n] \in Int
    BY <1>1, <2>1
  <2>3. PICK g \in Int : g = Sign(closes[n] - closes[n - 1])
    BY <2>2, SignIs
  <2>4. g * volumes[n] \in Int
    BY <2>2
  <2> QED BY <2>3, <2>4
<1>3. PICK step : step = [z \in (1..m) \X Int |-> to(z[1], z[2])]
  OBVIOUS
<1>4. /\ step \in [(1..m) \X Int -> Int]
      /\ \A n \in 1..m : \A x \in Int : step[<<n, x>>] = to(n, x)
  BY <1>2, <1>3
<1>5. PICK v \in [0..m -> Int] : Goes(v, 0, step, m)
  <2>1. 0 \in Int
    OBVIOUS
  <2> QED BY <2>1, <1>4, Recursion
<1>6. v[0] = 0 /\ \A n \in 1..m : v[n] = to(n, v[n - 1])
  <2>1. \A n \in 1..m : v[n - 1] \in Int
    <3>1. \A n \in 1..m : n - 1 \in 0..m
      OBVIOUS
    <3> QED BY <1>5, <3>1
  <2> QED BY <1>4, <1>5, <2>1 DEF Goes
<1>7. Balances(v, closes, volumes)
  <2>1. \A n \in 0..m : v[n] = IF n <= 1 THEN 0 ELSE v[n - 1] + Sign(closes[n] - closes[n - 1]) * volumes[n]
    BY <1>6
  <2> QED BY <1>1, <1>5, <2>1 DEF Balances
<1>8. PICK w : w = Balance(closes, volumes) /\ Balances(w, closes, volumes)
  BY <1>7 DEF Balance
<1>9. \A n \in 0..m : w[n] \in Int
  <2> DEFINE X == {n \in 0..m : w[n] \in Int}
  <2>1. \A n \in 0..m : w[n] = IF n <= 1 THEN 0 ELSE w[n - 1] + Sign(closes[n] - closes[n - 1]) * volumes[n]
    BY <1>1, <1>8 DEF Balances
  <2>2. 0 \in X
    BY <2>1
  <2>3. ASSUME NEW i \in 0..(m - 1), i \in X PROVE i + 1 \in X
    <3>1. i + 1 \in 0..m /\ i + 1 \in 1..m /\ i + 1 - 1 = i /\ w[i] \in Int
      BY <2>3
    <3>2. w[i + 1] = to(i + 1, w[i])
      BY <2>1, <3>1
    <3>3. to(i + 1, w[i]) \in Int
      <4> HIDE DEF to
      <4> QED BY <1>2, <3>1
    <3> QED BY <3>1, <3>2, <3>3
  <2> HIDE DEF X
  <2>4. 0..m \subseteq X
    BY <2>2, <2>3, Upwards
  <2> QED BY <2>4 DEF X
<1>10. OnBalanceVolume(closes, volumes) = [k \in 1..m |-> w[k]]
  BY <1>1, <1>8, BalanceOf
<1>11. \A k \in 1..m : w[k] \in Int
  BY <1>9
<1> QED BY <1>1, <1>10, <1>11

LEMMA NonNegative ==
  /\ \A a \in Int : a * a \in Nat
  /\ \A a, b \in Nat : a * b \in Nat
<1>1. ASSUME NEW a \in Int PROVE a * a \in Nat
  <2>1. CASE a >= 0
    BY <2>1
  <2>2. CASE a < 0
    <3>1. PICK b \in Nat : b = -a
      BY <2>2
    <3>2. b * b \in Nat /\ a * a = b * b
      BY <3>1
    <3> QED BY <3>2
  <2> QED BY <2>1, <2>2
<1>2. \A a, b \in Nat : a * b \in Nat
  OBVIOUS
<1> QED BY <1>1, <1>2

LEMMA AbsIs == \A x \in Int : Abs(x) \in Nat /\ Abs(x) = IF x < 0 THEN -x ELSE x
  BY DEF Abs

(* normalized_slope() divides by nothing that is nought. *)
LEMMA SlopeIs ==
  ASSUME NEW s \in Seq(Int), Len(s) > 0, NEW n \in Nat \ {0}
  PROVE  NormalizedSlope(s, n).num \in Int /\ NormalizedSlope(s, n).den \in Nat \ {0}
<1>1. PICK c \in Nat : c = Min({n, Len(s)}) /\ 1 <= c /\ c <= Len(s)
  <2>1. PICK l \in Nat : l = Len(s) /\ l > 0
    OBVIOUS
  <2>2. Min({n, l}) = IF n <= l THEN n ELSE l
    BY MinOfTwo
  <2> QED BY <2>1, <2>2
<1>2. PICK w \in Seq(Int) : w = Newer(c, s) /\ Len(w) = c
  BY <1>1, NewerIs
<1>3. PICK x : x = [k \in DOMAIN w |-> 2 * k - Len(w) - 1]
  OBVIOUS
<1>4. DOMAIN w = 1..c /\ \A k \in 1..c : w[k] \in Int /\ x[k] \in Int
  BY <1>2, <1>3
<1>5. PICK sq, ab, cr :
        /\ sq = [k \in DOMAIN w |-> x[k] * x[k]]
        /\ ab = [k \in DOMAIN w |-> Abs(w[k])]
        /\ cr = [k \in DOMAIN w |-> x[k] * w[k]]
  OBVIOUS
<1>6. \A k \in 1..c : x[k] * x[k] \in Nat /\ Abs(w[k]) \in Nat /\ x[k] * w[k] \in Int
  BY <1>4, NonNegative, AbsIs, Product
<1>7. sq \in Seq(Nat) /\ ab \in Seq(Nat) /\ cr \in Seq(Int)
  BY <1>4, <1>5, <1>6
<1>8. Added(sq) \in Nat /\ Added(ab) \in Nat /\ Added(cr) \in Int
  BY <1>7, SequenceSum
<1>9. PICK ratio \in Nat : ratio = Added(sq) * Added(ab)
  BY <1>8, NonNegative
<1>10. NormalizedSlope(s, n) = IF ratio = 0 THEN [num |-> 0, den |-> 1]
                               ELSE [num |-> 2 * Len(w) * Added(cr), den |-> ratio]
  BY <1>1, <1>2, <1>3, <1>5, <1>9 DEF NormalizedSlope
<1>11. 2 * Len(w) * Added(cr) \in Int
  BY <1>2, <1>8, Product
<1> QED BY <1>9, <1>10, <1>11

-----------------------------------------------------------------------------
(* The scores of a timeframe.                                              *)

LEMMA HistogramScoreIs ==
  ASSUME NEW h \in Seq(Int), NEW price \in Nat
  PROVE  HistogramScore(h, price) \in Thousandths
<1>1. CASE h = << >> \/ price <= 0
  BY <1>1 DEF HistogramScore, Thousandths
<1>2. CASE ~(h = << >> \/ price <= 0)
  <2>1. Last(h) \in Int
    BY <1>2, LastIs
  <2>2. PICK a \in Int : a = 200 * Last(h)
    BY <2>1
  <2>3. HistogramScore(h, price) = ClampedQuot(a, price) /\ price \in Nat \ {0}
    BY <1>2, <2>2 DEF HistogramScore
  <2> QED BY <2>3, ClampedQuotIs
<1> QED BY <1>1, <1>2

LEMMA PositionIs ==
  ASSUME NEW price \in Int, NEW fast \in Int, NEW slow \in Int
  PROVE  Position(price, fast, slow) \in Thousandths
<1>1. PICK d \in Int : d = price - slow
  OBVIOUS
<1> QED BY <1>1, SignIs DEF Position, Thousandths

LEMMA TrendScoreIs ==
  ASSUME NEW price \in Nat, NEW fast \in Seq(Nat), NEW slow \in Seq(Nat), NEW h \in Seq(Int)
  PROVE  TrendScore(price, fast, slow, h) \in Thousandths
<1>1. CASE fast = << >> \/ slow = << >> \/ Last(slow) = 0
  BY <1>1 DEF TrendScore, Thousandths
<1>2. CASE ~(fast = << >> \/ slow = << >> \/ Last(slow) = 0)
  <2>1. PICK f \in Nat, l \in Nat \ {0} : f = Last(fast) /\ l = Last(slow)
    <3>1. Len(fast) > 0 /\ Len(slow) > 0
      BY <1>2
    <3>2. Last(fast) \in Nat /\ Last(slow) \in Nat
      BY <3>1, LastIs
    <3> QED BY <1>2, <3>2
  <2>2. PICK a \in Int : a = 100 * (f - l)
    OBVIOUS
  <2>3. PICK x \in Int : x = Separation(f, l)
    BY <2>2, ClampedQuotIs, ThousandthsAre DEF Separation
  <2>4. PICK y \in Int : y = Position(price, f, l)
    <3>1. price \in Int /\ f \in Int /\ l \in Int
      OBVIOUS
    <3>2. Position(price, f, l) \in Thousandths
      BY <3>1, PositionIs
    <3> QED BY <3>2, ThousandthsAre
  <2>5. PICK z \in Int : z = HistogramScore(h, price)
    BY HistogramScoreIs, ThousandthsAre
  <2>6. PICK n \in Int : n = 45 * x + 35 * y + 20 * z
    OBVIOUS
  <2>7. TrendScore(price, fast, slow, h) = Clamp(Quot(n, 100))
    BY <1>2, <2>1, <2>3, <2>4, <2>5, <2>6 DEF TrendScore
  <2>8. Quot(n, 100) \in Int
    BY QuotInt
  <2> QED BY <2>7, <2>8, ClampWithin
<1> QED BY <1>1, <1>2

LEMMA MomentumScoreIs ==
  ASSUME NEW rsi, Ratio(rsi),
         NEW line, NEW signal, NEW h \in Seq(Int), NEW price \in Nat
  PROVE  MomentumScore(rsi, line, signal, h, price) \in Int
<1>1. PICK x \in Int : x = IF rsi = << >> THEN 0 ELSE RsiScore(rsi[1])
  <2>1. CASE rsi = << >>
    BY <2>1
  <2>2. CASE rsi # << >>
    <3>1. PICK g \in Nat, l \in Nat : g + l > 0 /\ rsi = <<[gain |-> g, loss |-> l]>>
      BY DEF Ratio
    <3>2. PICK a \in Int, b \in Nat \ {0} : a = 1000 * (g - l) /\ b = g + l
      BY <3>1
    <3>3. Centred(rsi[1]) = Quot(a, b)
      BY <3>1, <3>2 DEF Centred
    <3>4. PICK c \in Int : c = Centred(rsi[1])
      BY <3>3, QuotInt
    <3>5. RsiScore(rsi[1]) \in {Quot(4 * c, 5), c}
      BY <3>4 DEF RsiScore
    <3>6. 4 * c \in Int /\ 5 \in Nat \ {0}
      OBVIOUS
    <3>7. Quot(4 * c, 5) \in Int
      BY <3>6, QuotInt
    <3> QED BY <2>2, <3>5, <3>7
  <2> QED BY <2>1, <2>2
<1>2. PICK y \in Int : y = HistogramScore(h, price)
  BY HistogramScoreIs, ThousandthsAre
<1>3. PICK z \in Int : z = CrossScore(line, signal)
  BY DEF CrossScore
<1>4. PICK n \in Int : n = 45 * x + 35 * y + 20 * z
  OBVIOUS
<1>5. MomentumScore(rsi, line, signal, h, price) = Clamp(Quot(n, 100))
  BY <1>1, <1>2, <1>3, <1>4 DEF MomentumScore
<1>6. Quot(n, 100) \in Int
  BY QuotInt
<1> QED BY <1>5, <1>6, ClampWithin, ThousandthsAre

LEMMA VolumeScoreIs ==
  ASSUME NEW closes \in Seq(Nat), NEW volumes \in Seq(Nat), Len(closes) = Len(volumes),
         VolumeBars \in Nat \ {0}, VolumeBars <= Len(closes), NEW hint
  PROVE  VolumeScore(closes, volumes, hint) \in Thousandths
<1>1. PICK v \in Nat \ {0} : v = VolumeBars /\ v <= Len(volumes) /\ v <= Len(closes)
  OBVIOUS
<1>2. PICK recent \in Nat : recent = Added(Newer(VolumeBars, volumes))
  <2>1. Newer(v, volumes) \in Seq(Nat)
    BY <1>1, NewerIs
  <2> QED BY <1>1, <2>1, SequenceSum
<1>3. PICK ratio \in Thousandths : ratio = IF recent = 0 \/ Last(volumes) = 0 THEN 0
                                         ELSE ClampedQuot(Last(volumes) * VolumeBars - recent, recent)
  <2>1. CASE recent = 0 \/ Last(volumes) = 0
    BY <2>1 DEF Thousandths
  <2>2. CASE ~(recent = 0 \/ Last(volumes) = 0)
    <3>1. Last(volumes) \in Nat
      BY <1>1, LastIs
    <3>2. PICK a \in Int : a = Last(volumes) * VolumeBars - recent
      BY <3>1, <1>1, Product
    <3>3. ClampedQuot(a, recent) \in Thousandths
      BY <2>2, ClampedQuotIs
    <3> QED BY <2>2, <3>2, <3>3
  <2> QED BY <2>1, <2>2
<1>4. PICK slope : slope = NormalizedSlope(OnBalanceVolume(closes, volumes), VolumeBars)
  OBVIOUS
<1>5. slope.num \in Int /\ slope.den \in Nat \ {0}
  <2>1. PICK o \in Seq(Int) : o = OnBalanceVolume(closes, volumes) /\ Len(o) = Len(closes)
    BY BalanceIs
  <2>2. Len(o) > 0
    BY <1>1, <2>1
  <2> QED BY <1>1, <1>4, <2>1, <2>2, SlopeIs
<1>6. PICK a \in Int : a = 5 * slope.num
  BY <1>5
<1>7. PICK y \in Thousandths : y = ClampedQuot(5 * slope.num, slope.den)
  BY <1>5, <1>6, ClampedQuotIs
<1>8. PICK n \in Int : /\ n = (IF hint >= 0 THEN ratio ELSE -ratio) + y
                       /\ -2000 <= n /\ n <= 2000
  <2>1. ratio \in Int /\ -1000 <= ratio /\ ratio <= 1000 /\ y \in Int /\ -1000 <= y /\ y <= 1000
    BY ThousandthsAre
  <2>2. PICK x \in Int : x = (IF hint >= 0 THEN ratio ELSE -ratio) /\ -1000 <= x /\ x <= 1000
    BY <2>1
  <2> QED BY <2>1, <2>2
<1>9. VolumeScore(closes, volumes, hint) = Quot(n, 2)
  BY <1>2, <1>3, <1>4, <1>7, <1>8 DEF VolumeScore
<1>10. PICK q \in Int : q = Quot(n, 2) /\ Bounds(q, n, 2, 1000)
  <2>1. PICK b \in Nat \ {0}, k \in Nat : b = 2 /\ k = 1000
    OBVIOUS
  <2>2. Quot(n, b) \in Int /\ Bounds(Quot(n, b), n, b, k)
    BY QuotIs
  <2> QED BY <2>1, <2>2
<1>11. -(1000 * 2) <= n /\ n <= 1000 * 2
  BY <1>8
<1>12. -1000 <= q /\ q <= 1000
  BY <1>10, <1>11 DEF Bounds
<1>13. q \in Thousandths
  BY <1>12 DEF Thousandths
<1> QED BY <1>9, <1>10, <1>13

Rooted(n, q) == n * n <= q /\ q < (n + 1) * (n + 1)

(* Root() of what is under a million is under a thousand. *)
Million == 1000 * 1000
LEMMA Grid == \E grid : grid = 0..1000
OBVIOUS

LEMMA RootIs ==
  ASSUME NEW q \in Nat, q < Million
  PROVE  Root(q) \in 0..1000
<1> DEFINE X == {n \in Nat : n * n > q}
<1>1. 1000 \in X /\ 0 \notin X
  BY DEF Million
<1>2. PICK m \in X : \A k \in X : m <= k
  <2>0. X \in SUBSET Nat
    OBVIOUS
  <2> HIDE DEF X
  <2>1. X \in SUBSET Nat /\ X # {}
    BY <1>1, <2>0
  <2> QED BY <2>1, LeastNat
<1>3. m \in Nat /\ m # 0 /\ m <= 1000 /\ m * m > q
  BY <1>1, <1>2
<1>4. PICK n \in Nat : n + 1 = m
  BY <1>3
<1>5. n \notin X /\ n \in 0..1000
  BY <1>2, <1>3, <1>4
<1>6. n * n <= q /\ q < (n + 1) * (n + 1)
  <2>1. n * n \in Int
    OBVIOUS
  <2> QED BY <1>3, <1>4, <1>5, <2>1
<1>7. PICK grid : grid = 0..1000
  BY Grid
<1>8. \E k \in grid : Rooted(k, q)
  BY <1>5, <1>6, <1>7 DEF Rooted
<1>9. Root(q) = CHOOSE k \in grid : Rooted(k, q)
  BY <1>7 DEF Root, Rooted
<1>10. Root(q) \in grid
  BY <1>8, <1>9
<1> QED BY <1>7, <1>10

LEMMA Within1000 ==
  \A r \in Int, n \in Nat : -1000 <= r /\ r <= 1000 => /\ r * n \in Int
                                                       /\ -(1000 * n) <= r * n /\ r * n <= 1000 * n
<1> SUFFICES ASSUME NEW r \in Int, NEW n \in Nat, -1000 <= r, r <= 1000
             PROVE  r * n \in Int /\ -(1000 * n) <= r * n /\ r * n <= 1000 * n
  OBVIOUS
<1>1. (-1000) * n <= r * n /\ r * n <= 1000 * n
  BY Wider
<1> QED BY <1>1

(* A squeeze goes with the trend; reversion has the room a trend leaves.   *)
Gated(v, trend) ==
  v = Quot(trend, 2) \/ (-(1000 - Abs(trend)) <= v /\ v <= 1000 - Abs(trend))

LEMMA VolatilityScoreIs ==
  ASSUME NEW closes \in Seq(Nat), NEW trend \in Thousandths, Len(closes) > 0,
         Bands \in Nat \ {0}, Deviations \in Nat \ {0}
  PROVE  /\ VolatilityScore(closes, trend) \in Int
         /\ Gated(VolatilityScore(closes, trend), trend)
<1> USE DEF Gated
<1>1. PICK t \in Nat, left \in Nat : t = Abs(trend) /\ left = 1000 - t
  <2>1. Abs(trend) \in Nat /\ 1000 - Abs(trend) \in Nat
    BY ThousandthsAre, AbsIs
  <2> QED BY <2>1
<1>2. CASE Len(closes) < Bands
  <2>1. VolatilityScore(closes, trend) = 0
    BY <1>2 DEF VolatilityScore
  <2> QED BY <1>1, <2>1
<1>3. CASE ~(Len(closes) < Bands) /\ Squeezed(closes)
  <2>1. VolatilityScore(closes, trend) = Quot(trend, 2)
    BY <1>3 DEF VolatilityScore
  <2>2. trend \in Int /\ 2 \in Nat \ {0}
    BY ThousandthsAre
  <2> QED BY <2>1, <2>2, QuotInt
<1>4. CASE ~(Len(closes) < Bands) /\ ~Squeezed(closes)
  <2>1. PICK r \in Thousandths : r = Reversion(closes)
    <3>0. PICK million \in Nat : million = 1000000 /\ million = 1000 * 1000
      BY SMT
    <3>a. million = Million
      BY <3>0 DEF Million
    <3>1. PICK bands : bands = BandsAt(closes, Len(closes))
      OBVIOUS
    <3>2. bands.sum \in Int /\ bands.squares \in Nat
      <4>1. PICK w \in Seq(Nat) : w = SubSeq(closes, Len(closes) - Bands + 1, Len(closes))
        <5>1. PICK a \in Nat, b \in Nat : a = Len(closes) - Bands + 1 /\ b = Len(closes)
          <6>1. Len(closes) - Bands + 1 \in Nat /\ Len(closes) \in Nat
            BY <1>4
          <6> QED BY <6>1
        <5>2. 1 <= a /\ a <= b /\ b <= Len(closes)
          BY <1>4, <5>1
        <5> QED BY <5>1, <5>2, PartOf
      <4>2. PICK sum \in Int : sum = Added(w)
        BY SequenceSum
      <4>3. PICK sq : sq = [k \in DOMAIN w |-> (Bands * w[k] - sum) * (Bands * w[k] - sum)]
        OBVIOUS
      <4>4. \A k \in DOMAIN w : (Bands * w[k] - sum) * (Bands * w[k] - sum) \in Nat
        <5> SUFFICES ASSUME NEW k \in DOMAIN w PROVE (Bands * w[k] - sum) * (Bands * w[k] - sum) \in Nat
          OBVIOUS
        <5>1. PICK x \in Int : x = Bands * w[k] - sum
          <6>1. w[k] \in Int
            OBVIOUS
          <6>2. Bands * w[k] \in Int
            BY <6>1, Product
          <6> QED BY <6>2
        <5> QED BY <5>1, NonNegative
      <4>5. sq \in Seq(Nat)
        <5>1. DOMAIN w = 1..Len(w) /\ Len(w) \in Nat
          OBVIOUS
        <5> QED BY <4>3, <4>4, <5>1
      <4>6. bands = [sum |-> sum, squares |-> Added(sq)]
        BY <3>1, <4>1, <4>2, <4>3 DEF BandsAt
      <4> QED BY <4>5, <4>6, SequenceSum
    <3>3. PICK off \in Int : off = Bands * Last(closes) - bands.sum
      <4>1. Last(closes) \in Int
        BY LastIs
      <4>2. Bands * Last(closes) \in Int
        BY <4>1, Product
      <4> QED BY <3>2, <4>2
    <3>4. PICK width \in Nat : width = Deviations * Deviations * bands.squares
      BY <3>2, NonNegative
    <3>5. PICK far \in Nat : far = Bands * off * off
      <4>1. off * off \in Nat /\ Bands * off * off = Bands * (off * off)
        BY NonNegative
      <4> QED BY <4>1, NonNegative
    <3>6. Reversion(closes) = IF bands.squares = 0 THEN 0
                              ELSE IF far >= width THEN -1000 * Sign(off)
                              ELSE -Sign(off) * Root((million * Bands * off * off) \div width)
      BY <3>0, <3>1, <3>3, <3>4, <3>5, SMT DEF Reversion
    <3>7. CASE bands.squares = 0 \/ far >= width
      <4>1. PICK g \in Int : g = Sign(off) /\ g \in {-1, 0, 1}
        BY SignIs
      <4>2. -1000 * g \in Thousandths /\ 0 \in Thousandths
        <5>1. -1000 * g \in {-1000, 0, 1000}
          BY <4>1
        <5> QED BY <5>1 DEF Thousandths
      <4> QED BY <3>6, <3>7, <4>1, <4>2
    <3>8. CASE ~(bands.squares = 0 \/ far >= width)
      <4>1. million * Bands * off * off = million * far
        <5>1. Bands * off * off = far /\ Bands \in Int
          BY <3>5
        <5>2. PICK y \in Int : y = off * off
          BY NonNegative
        <5>3. million * Bands * off * off = (million * Bands) * y /\ far = Bands * y
          BY <3>5, <5>2
        <5> QED BY <5>3
      <4>2. PICK q \in Nat : q = (million * far) \div width /\ q < million
        <5>1. far \in Nat /\ width \in Nat \ {0} /\ far < width
          BY <3>8
        <5>2. (million * far) \div width \in Int /\ (million * far) \div width >= 0
          BY <5>1
        <5>3. ((million * far) \div width) * width <= million * far
          BY <5>1
        <5>4. PICK q \in Nat : q = (million * far) \div width
          BY <5>2
        <5>5. q < million
          <6> SUFFICES ASSUME q >= million PROVE FALSE
            OBVIOUS
          <6>1. q * width >= million * width
            OBVIOUS
          <6>2. q * width <= million * far
            BY <5>3, <5>4
          <6>3. million * far < million * width
            <7>1. PICK d \in Nat \ {0} : width = far + d
              <8>1. width - far \in Nat \ {0} /\ width = far + (width - far)
                BY <5>1
              <8> QED BY <8>1
            <7>2. million * width = million * far + million * d /\ million * d > 0
              BY <3>0, <7>1
            <7>3. million * far \in Int /\ million * d \in Int
              OBVIOUS
            <7> QED BY <7>2, <7>3
          <6>4. PICK a \in Int, b \in Int, c \in Int : a = q * width /\ b = million * far /\ c = million * width
            BY <5>1
          <6>5. c <= a /\ a <= b /\ b < c
            BY <6>1, <6>2, <6>3, <6>4
          <6> QED BY <6>5
        <5> QED BY <5>4, <5>5
      <4>3. PICK o \in Int : o = Root(q) /\ 0 <= o /\ o <= 1000
        <5>1. q < Million
          BY <3>a, <4>2
        <5>2. Root(q) \in 0..1000
          BY <5>1, RootIs
        <5> QED BY <5>2
      <4>4. Reversion(closes) = -Sign(off) * o
        BY <3>6, <3>8, <4>1, <4>2, <4>3
      <4>5. PICK g \in Int : g = Sign(off) /\ g \in {-1, 0, 1}
        BY SignIs
      <4>6. -g * o \in Thousandths
        <5>1. \A h \in Int : -1000 <= h /\ h <= 1000 => h \in Thousandths
          BY DEF Thousandths
        <5>2. CASE g = 1
          <6>1. -g * o = -o /\ -o \in Int /\ -1000 <= -o /\ -o <= 1000
            BY <4>3, <5>2
          <6> QED BY <5>1, <6>1
        <5>3. CASE g = 0
          <6>1. -g * o = 0
            BY <4>3, <5>3
          <6> QED BY <5>1, <6>1
        <5>4. CASE g = -1
          <6>1. -g * o = o
            BY <4>3, <5>4
          <6> QED BY <4>3, <5>1, <6>1
        <5> QED BY <4>5, <5>2, <5>3, <5>4
      <4> QED BY <4>4, <4>5, <4>6
    <3> QED BY <3>7, <3>8
  <2>2. VolatilityScore(closes, trend) = Quot(r * left, 1000)
    BY <1>1, <1>4, <2>1 DEF VolatilityScore
  <2>3. PICK a \in Int : a = r * left /\ -(left * 1000) <= a /\ a <= left * 1000
    <3>1. r \in Int /\ -1000 <= r /\ r <= 1000
      BY ThousandthsAre
    <3>2. r * left \in Int /\ -(1000 * left) <= r * left /\ r * left <= 1000 * left
      BY <3>1, Within1000
    <3> QED BY <3>2
  <2>4. PICK v \in Int : v = Quot(a, 1000) /\ Bounds(v, a, 1000, left)
    <3>1. PICK b \in Nat \ {0} : b = 1000
      OBVIOUS
    <3>2. Quot(a, b) \in Int /\ Bounds(Quot(a, b), a, b, left)
      BY QuotIs
    <3> QED BY <3>1, <3>2
  <2>5. -left <= v /\ v <= left
    BY <2>3, <2>4 DEF Bounds
  <2> QED BY <1>1, <2>2, <2>3, <2>4, <2>5
<1> QED BY <1>2, <1>3, <1>4

-----------------------------------------------------------------------------
(* A timeframe as a whole.                                                 *)

LEMMA MostOfSix ==
  ASSUME NEW a \in Int, NEW b \in Int, NEW c \in Int, NEW d \in Int, NEW e \in Int, NEW f \in Int
  PROVE  LET m == Max({a, b, c, d, e, f})
         IN  m \in Int /\ a <= m /\ b <= m /\ c <= m /\ d <= m /\ e <= m /\ f <= m
<1>1. PICK S : S = {a, b, c, d, e, f}
  OBVIOUS
<1>2. \E m \in S : \A x \in S : m >= x
  <2>1. PICK p \in {a, b} : p >= a /\ p >= b
    OBVIOUS
  <2>2. PICK q \in {c, d} : q >= c /\ q >= d
    OBVIOUS
  <2>3. PICK r \in {e, f} : r >= e /\ r >= f
    OBVIOUS
  <2>4. PICK s \in {p, q} : s >= p /\ s >= q
    BY <2>1, <2>2
  <2>5. PICK m \in {s, r} : m >= s /\ m >= r
    BY <2>1, <2>2, <2>3, <2>4
  <2>6. m \in S
    BY <1>1, <2>1, <2>2, <2>3, <2>4, <2>5
  <2>7. \A x \in S : m >= x
    BY <1>1, <2>1, <2>2, <2>3, <2>4, <2>5
  <2> QED BY <2>6, <2>7
<1>3. Max(S) \in S /\ \A x \in S : Max(S) >= x
  BY <1>2 DEF Max
<1>4. PICK m : m = Max(S)
  OBVIOUS
<1>5. m \in Int /\ a <= m /\ b <= m /\ c <= m /\ d <= m /\ e <= m /\ f <= m
  BY <1>1, <1>3, <1>4
<1> QED BY <1>1, <1>4, <1>5

LEMMA BarsRequired ==
  /\ RequiredBars \in Int /\ Rsi + 1 < RequiredBars /\ Slow + Signalling < RequiredBars
  /\ EmaLong < RequiredBars /\ Bands < RequiredBars /\ VolumeBars < RequiredBars
  /\ AtrBars + 1 < RequiredBars
<1>1. /\ Rsi + 1 \in Int /\ Slow + Signalling \in Int /\ EmaLong \in Int /\ Bands \in Int
      /\ AtrBars + 1 \in Int /\ VolumeBars \in Int
  BY AnalystAssumption
<1>2. PICK m : m = Max({Rsi + 1, Slow + Signalling, EmaLong, Bands, AtrBars + 1, VolumeBars})
  OBVIOUS
<1>3. /\ m \in Int /\ Rsi + 1 <= m /\ Slow + Signalling <= m /\ EmaLong <= m /\ Bands <= m
      /\ VolumeBars <= m /\ AtrBars + 1 <= m
  BY <1>1, <1>2, MostOfSix
<1>4. RequiredBars = m + 2
  BY <1>2 DEF RequiredBars
<1> QED BY <1>1, <1>3, <1>4

Composed(t, m, v, u) ==
  WithComposite([trend |-> t, momentum |-> m, volatility |-> v, volume |-> u, composite |-> 0])

(* The weights of the components: whatever reversion and volume say, they  *)
(* cannot outweigh an established trend.                                   *)
LEMMA TrendOutweighs ==
  ASSUME NEW t \in Int, NEW m \in Int, NEW v \in Int, NEW u \in Int,
         -1000 <= t, t <= 1000, -1000 <= u, u <= 1000,
         Gated(v, t), NEW r, r = Composed(t, m, v, u)
  PROVE  NotFaded(r)
<1> USE DEF Gated, Composed
<1>1. PICK n \in Int : n = 40 * t + 30 * m + 20 * v + 10 * u
  OBVIOUS
<1>2. PICK q \in Int : q = Quot(n, 100) /\ (n >= 0 => q >= 0) /\ (n <= 0 => q <= 0)
  <2>1. PICK b \in Nat \ {0} : b = 100
    OBVIOUS
  <2>2. Quot(n, b) \in Int /\ (n >= 0 => Quot(n, b) >= 0) /\ (n <= 0 => Quot(n, b) <= 0)
    BY QuotSign
  <2> QED BY <2>1, <2>2
<1>3. PICK c \in Int : c = Clamp(q) /\ (q >= 0 => c >= 0) /\ (q <= 0 => c <= 0)
  <2>1. Clamp(q) \in Thousandths /\ (q >= 0 => Clamp(q) >= 0) /\ (q <= 0 => Clamp(q) <= 0)
    BY ClampWithin
  <2> QED BY <2>1, ThousandthsAre
<1>4. r.trend = t /\ r.momentum = m /\ r.volatility = v /\ r.composite = c
  BY <1>1, <1>2, <1>3 DEF WithComposite
<1> SUFFICES ASSUME Abs(t) > 500
             PROVE  /\ 2 * 20 * Sign(t) * v > -(40 * Sign(t) * t)
                    /\ Sign(t) * m >= 0 => Sign(t) * c >= 0
  BY <1>4 DEF NotFaded
<1>5. CASE t > 0
  <2>1. Sign(t) = 1 /\ Abs(t) = t /\ t > 500
    BY <1>5 DEF Sign, Abs
  <2>2. v > -t /\ v >= -(1000 - t)
    <3>1. CASE v = Quot(t, 2)
      <4>1. PICK b \in Nat \ {0} : b = 2
        OBVIOUS
      <4>2. t >= 0 => Quot(t, b) >= 0
        BY QuotSign
      <4> QED BY <2>1, <3>1, <4>1, <4>2
    <3>2. CASE -(1000 - Abs(t)) <= v
      BY <2>1, <3>2
    <3> QED BY <3>1, <3>2
  <2>3. m >= 0 => n >= 0
    BY <1>1, <2>1, <2>2
  <2> QED BY <1>2, <1>3, <2>1, <2>2, <2>3
<1>6. CASE t < 0
  <2>1. Sign(t) = -1 /\ Abs(t) = -t /\ t < -500
    BY <1>6 DEF Sign, Abs
  <2>2. v < -t /\ v <= 1000 + t
    <3>1. CASE v = Quot(t, 2)
      <4>1. PICK b \in Nat \ {0} : b = 2
        OBVIOUS
      <4>2. t <= 0 => Quot(t, b) <= 0
        BY QuotSign
      <4> QED BY <2>1, <3>1, <4>1, <4>2
    <3>2. CASE v <= 1000 - Abs(t)
      BY <2>1, <3>2
    <3> QED BY <3>1, <3>2
  <2>3. m <= 0 => n <= 0
    BY <1>1, <2>1, <2>2
  <2>4. /\ Sign(t) * m = -m /\ Sign(t) * c = -c
        /\ 2 * 20 * Sign(t) * v = -(40 * v) /\ 40 * Sign(t) * t = -(40 * t)
    BY <2>1
  <2> QED BY <1>2, <1>3, <2>1, <2>2, <2>3, <2>4
<1>7. CASE t = 0
  BY <1>7 DEF Abs
<1> QED BY <1>5, <1>6, <1>7

LEMMA SeriesOf ==
  ASSUME NEW closes \in Seq(Nat), NEW volumes \in Seq(Nat), Len(closes) = Len(volumes),
         NEW candles, candles = BarsOf(closes, volumes)
  PROVE  /\ [k \in DOMAIN candles |-> candles[k].close] = closes
         /\ [k \in DOMAIN candles |-> candles[k].volume] = volumes
<1>1. PICK n \in Nat : n = Len(closes) /\ DOMAIN closes = 1..n /\ DOMAIN volumes = 1..n
  OBVIOUS
<1>2. DOMAIN candles = 1..n /\ \A k \in 1..n : candles[k].close = closes[k] /\ candles[k].volume = volumes[k]
  BY <1>1 DEF BarsOf
<1>3. closes = [k \in 1..n |-> closes[k]] /\ volumes = [k \in 1..n |-> volumes[k]]
  BY <1>1
<1> QED BY <1>2, <1>3

LEMMA TimeframeNotFaded ==
  ASSUME NEW closes \in Seq(Nat), NEW volumes \in Seq(Nat), Len(closes) = Len(volumes),
         RequiredBars <= Len(closes)
  PROVE  NotFaded(AnalyzeTimeframe(BarsOf(closes, volumes)))
<1>1. PICK n \in Nat : /\ n = Len(closes) /\ Rsi < n /\ Slow + Signalling < n /\ EmaLong < n
                       /\ Bands < n /\ VolumeBars < n
  <2>1. PICK l \in Nat, r \in Int : l = Len(closes) /\ r = RequiredBars /\ r <= l
    <3>1. Len(closes) \in Nat /\ RequiredBars \in Int
      BY BarsRequired
    <3> QED BY <3>1
  <2>2. /\ Rsi \in Int /\ Slow + Signalling \in Int /\ EmaLong \in Int /\ Bands \in Int
        /\ VolumeBars \in Int
    BY AnalystAssumption
  <2>3. /\ Rsi + 1 < r /\ Slow + Signalling < r /\ EmaLong < r /\ Bands < r /\ VolumeBars < r
    BY <2>1, BarsRequired
  <2> QED BY <2>1, <2>2, <2>3
<1>2. /\ Rsi \in Nat \ {0} /\ Fast \in Nat \ {0} /\ Slow \in Nat \ {0} /\ Signalling \in Nat \ {0}
      /\ EmaShort \in Nat \ {0} /\ EmaLong \in Nat \ {0} /\ Bands \in Nat \ {0}
      /\ Deviations \in Nat \ {0} /\ VolumeBars \in Nat \ {0} /\ Fast < Slow
  BY AnalystAssumption
<1>3. PICK candles : candles = BarsOf(closes, volumes)
  OBVIOUS
<1>4. PICK prices \in Seq(Nat) : prices = Scaled(closes) /\ Len(prices) = n
  <2>1. DOMAIN closes = 1..n /\ \A k \in 1..n : closes[k] \in Nat
    BY <1>1
  <2>2. \A k \in 1..n : closes[k] * Fixed \in Nat
    BY <2>1, NonNegative, FixedAssumption
  <2>3. Scaled(closes) \in [1..n -> Nat]
    BY <2>1, <2>2 DEF Scaled
  <2> QED BY <2>3
<1>5. \A s \in Seq(Nat) : s \in Seq(Int)
  OBVIOUS
<1>6. PICK price \in Nat : price = Last(prices)
  <2>1. Len(prices) > 0
    BY <1>1, <1>2, <1>4
  <2> QED BY <2>1, LastIs
<1>7. PICK line \in Seq(Int) : line = MacdLine(prices, Fast, Slow) /\ Len(line) = n - Slow + 1
  <2>1. PICK a \in Seq(Nat) : a = Ema(prices, Fast) /\ Len(a) = n - Fast + 1
    <3>1. Averaging(Ema(prices, Fast), Nat, n, Fast)
      BY <1>2, <1>4, AverageIs
    <3>2. ~(n < Fast)
      BY <1>1, <1>2
    <3> QED BY <3>1, <3>2 DEF Averaging, Remaining
  <2>2. PICK b \in Seq(Nat) : b = Ema(prices, Slow) /\ Len(b) = n - Slow + 1
    <3>1. Averaging(Ema(prices, Slow), Nat, n, Slow)
      BY <1>2, <1>4, AverageIs
    <3>2. ~(n < Slow)
      BY <1>1, <1>2
    <3> QED BY <3>1, <3>2 DEF Averaging, Remaining
  <2>3. Len(b) <= Len(a)
    BY <1>1, <1>2, <2>1, <2>2
  <2>4. Minus(a, b) \in Seq(Int) /\ Len(Minus(a, b)) = Len(b)
    BY <1>5, <2>3, MinusIs
  <2> QED BY <2>1, <2>2, <2>4 DEF MacdLine
<1>8. PICK h \in Seq(Int) : h = MacdHistogram(line, Signalling)
  <2>1. PICK a \in Seq(Int) : a = MacdSignalLine(line, Signalling) /\ Len(a) = Remaining(Len(line), Signalling)
    BY <1>2, AverageIs DEF Averaging, MacdSignalLine
  <2>2. Len(a) <= Len(line)
    BY <1>1, <1>2, <1>7, <2>1 DEF Remaining
  <2>3. Minus(line, a) \in Seq(Int)
    BY <2>2, MinusIs
  <2> QED BY <2>1, <2>3 DEF MacdHistogram
<1>9. PICK t \in Thousandths : t = TrendScore(price, Ema(prices, EmaShort), Ema(prices, EmaLong), h)
  <2>1. Ema(prices, EmaShort) \in Seq(Nat) /\ Ema(prices, EmaLong) \in Seq(Nat)
    BY <1>2, AverageIs DEF Averaging
  <2> QED BY <2>1, TrendScoreIs
<1>10. PICK m \in Int : m = MomentumScore(RsiParts(prices, Rsi), line, MacdSignalLine(line, Signalling), h, price)
  <2>1. PICK r : r = RsiParts(prices, Rsi)
    OBVIOUS
  <2>2. Ratio(r)
    <3>1. prices \in Seq(Int) /\ Len(prices) > Rsi
      BY <1>1, <1>4, <1>5
    <3> QED BY <1>2, <2>1, <3>1, RsiIs
  <2>3. PICK sl : sl = MacdSignalLine(line, Signalling)
    OBVIOUS
  <2>4. MomentumScore(r, line, sl, h, price) \in Int
    BY <2>2, MomentumScoreIs
  <2> QED BY <2>1, <2>3, <2>4
<1>11. PICK v \in Int : v = VolatilityScore(closes, t) /\ Gated(v, t)
  <2>1. Len(closes) > 0
    BY <1>1, <1>2
  <2> QED BY <1>2, <2>1, VolatilityScoreIs
<1>12. PICK u \in Thousandths : u = VolumeScore(closes, volumes, t)
  <2>1. VolumeBars <= Len(closes)
    BY <1>1, <1>2
  <2> QED BY <1>2, <2>1, VolumeScoreIs
<1>13. AnalyzeTimeframe(candles) = Composed(t, m, v, u)
  <2>1. /\ [k \in DOMAIN candles |-> candles[k].close] = closes
        /\ [k \in DOMAIN candles |-> candles[k].volume] = volumes
    BY <1>3, SeriesOf
  <2>2. PricesOf(candles) = prices
    BY <1>4, <2>1 DEF PricesOf
  <2>3. AnalyzeTimeframe(candles) = ScoresOf(prices, closes, volumes, line, h)
    BY <1>7, <1>8, <2>1, <2>2 DEF AnalyzeTimeframe
  <2>4. ScoresOf(prices, closes, volumes, line, h) = Scores(closes, volumes, t, m)
    BY <1>6, <1>9, <1>10 DEF ScoresOf
  <2> QED BY <1>11, <1>12, <2>3, <2>4 DEF Scores, Composed
<1>14. t \in Int /\ -1000 <= t /\ t <= 1000 /\ u \in Int /\ -1000 <= u /\ u <= 1000
  BY ThousandthsAre
<1> HIDE DEF Thousandths
<1>15. NotFaded(AnalyzeTimeframe(candles))
  <2>1. PICK r : r = Composed(t, m, v, u)
    OBVIOUS
  <2>2. NotFaded(r)
    BY <1>11, <1>14, <2>1, TrendOutweighs
  <2> QED BY <1>13, <2>1, <2>2
<1> QED BY <1>3, <1>15

AnySeries ==
  {x \in [closes : Seq(Nat), volumes : Seq(Nat)] :
     Len(x.closes) = Len(x.volumes) /\ RequiredBars <= Len(x.closes)}

SeriesSpec ==
  /\ job = "timeframe" /\ input = Nothing
  /\ [][job' = job /\ input' \in AnySeries]_<<job, input>>

(* "Reading %B as reversion pressure would fight the trend"                *)
(* (_volatility_score): for any closes and volumes that are enough to be   *)
(* scored, any periods and any scale of the prices, the bands take off     *)
(* less than half of what an established trend adds, and where momentum    *)
(* does not oppose it the composite does not point against it.             *)
THEOREM TrendHolds == SeriesSpec => []TrendIsNotFaded
<1> DEFINE Valued == job = "timeframe" /\ (input = Nothing \/ input \in AnySeries)
<1>1. job = "timeframe" /\ input = Nothing => Valued
  OBVIOUS
<1>2. Valued /\ [job' = job /\ input' \in AnySeries]_<<job, input>> => Valued'
  OBVIOUS
<1>3. Valued => TrendIsNotFaded
  <2> SUFFICES ASSUME input \in AnySeries
               PROVE  NotFaded(AnalyzeTimeframe(BarsOf(input.closes, input.volumes)))
    BY DEF TrendIsNotFaded, Of
  <2>1. /\ input.closes \in Seq(Nat) /\ input.volumes \in Seq(Nat)
        /\ Len(input.closes) = Len(input.volumes) /\ RequiredBars <= Len(input.closes)
    BY DEF AnySeries
  <2> QED BY <2>1, TimeframeNotFaded
<1> QED BY <1>1, <1>2, <1>3, PTL DEF SeriesSpec

-----------------------------------------------------------------------------
(* Ranks: places by value, then by key.                                    *)

Keyed(D, p) == D \in SUBSET Int /\ IsFiniteSet(D) /\ p \in [D -> Int]

LEMMA GreatestNat ==
  ASSUME NEW S \in SUBSET Nat, S # {}, NEW n \in Nat, \A x \in S : x <= n
  PROVE  \E x \in S : \A y \in S : y <= x
<1> DEFINE T == {z \in Nat : n - z \in S}
<1>1. T \in SUBSET Nat /\ T # {}
  <2>1. PICK x \in S : TRUE
    OBVIOUS
  <2>2. n - x \in Nat /\ n - (n - x) = x
    OBVIOUS
  <2> QED BY <2>1, <2>2
<1> HIDE DEF T
<1>2. PICK z \in T : \A y \in T : z <= y
  BY <1>1, LeastNat
<1>3. z \in Nat /\ n - z \in S
  BY <1>2 DEF T
<1>4. ASSUME NEW y \in S PROVE y <= n - z
  <2>1. n - y \in Nat /\ n - (n - y) = y /\ y \in Nat
    OBVIOUS
  <2>2. n - y \in T
    BY <2>1 DEF T
  <2>3. z <= n - y
    BY <1>2, <2>2
  <2> QED BY <1>3, <2>1, <2>3
<1> QED BY <1>3, <1>4

LEMMA RankIs ==
  ASSUME NEW D, NEW p, Keyed(D, p), NEW i \in D
  PROVE  /\ Cardinality(D) \in Nat /\ Rank(p, i) \in Nat
         /\ 1 <= Rank(p, i) /\ Rank(p, i) <= Cardinality(D)
         /\ UpTo(p, i) \in SUBSET D
<1>1. UpTo(p, i) \in SUBSET D /\ i \in UpTo(p, i)
  BY DEF UpTo, Keyed
<1>2. IsFiniteSet(UpTo(p, i)) /\ Cardinality(UpTo(p, i)) <= Cardinality(D)
  BY <1>1, FS_Subset DEF Keyed
<1>3. Cardinality(UpTo(p, i)) \in Nat /\ Cardinality(D) \in Nat
  BY <1>2, FS_CardinalityType DEF Keyed
<1>4. Cardinality(UpTo(p, i)) # 0
  BY <1>1, <1>2, FS_EmptySet
<1>5. Rank(p, i) = Cardinality(UpTo(p, i))
  BY DEF Rank
<1> QED BY <1>1, <1>2, <1>3, <1>4, <1>5

Sooner(p, x, y) == p[x] < p[y] \/ (p[x] = p[y] /\ x <= y)

LEMMA RankOrders ==
  ASSUME NEW D, NEW p, Keyed(D, p), NEW i \in D, NEW j \in D
  PROVE  Rank(p, j) <= Rank(p, i) <=> j \in UpTo(p, i)
<1>0. /\ UpTo(p, i) \in SUBSET D /\ UpTo(p, j) \in SUBSET D
      /\ Rank(p, i) \in Nat /\ Rank(p, j) \in Nat
  BY RankIs
<1>1. IsFiniteSet(UpTo(p, i)) /\ IsFiniteSet(UpTo(p, j))
  BY <1>0, FS_Subset DEF Keyed
<1>A. \A x, y \in D : x \in UpTo(p, y) <=> Sooner(p, x, y)
  BY DEF UpTo, Sooner, Keyed
<1>B. \A x \in D : x \in Int /\ p[x] \in Int
  BY DEF Keyed
<1>2. ASSUME j \in UpTo(p, i) PROVE Rank(p, j) <= Rank(p, i)
  <2>1. \A x \in D : Sooner(p, x, j) => Sooner(p, x, i)
    BY <1>A, <1>B, <1>2 DEF Sooner
  <2>2. UpTo(p, j) \in SUBSET UpTo(p, i)
    BY <1>0, <1>A, <2>1
  <2>3. Cardinality(UpTo(p, j)) <= Cardinality(UpTo(p, i))
    BY <1>1, <2>2, FS_Subset
  <2> QED BY <2>3 DEF Rank
<1>3. ASSUME j \notin UpTo(p, i) PROVE ~(Rank(p, j) <= Rank(p, i))
  <2>0. ~Sooner(p, j, i) /\ Sooner(p, j, j)
    BY <1>A, <1>B, <1>3 DEF Sooner
  <2>a. \A x \in D : Sooner(p, x, i) => Sooner(p, x, j)
    BY <1>B, <2>0 DEF Sooner
  <2>1. UpTo(p, i) \in SUBSET UpTo(p, j) /\ j \in UpTo(p, j)
    BY <1>0, <1>A, <2>0, <2>a
  <2>2. UpTo(p, i) # UpTo(p, j)
    BY <1>3, <2>1
  <2>3. Rank(p, i) <= Rank(p, j) /\ Rank(p, i) # Rank(p, j)
    BY <1>1, <2>1, <2>2, FS_Subset DEF Rank
  <2> QED BY <1>0, <2>3
<1> QED BY <1>2, <1>3

(* There is one at every place.                                            *)
LEMMA NthIs ==
  ASSUME NEW D, NEW p, Keyed(D, p), NEW k \in 1..Cardinality(D)
  PROVE  Nth(p, k) \in D /\ Rank(p, Nth(p, k)) = k
<1>1. PICK n \in Nat : n = Cardinality(D)
  BY FS_CardinalityType DEF Keyed
<1>2. PICK f : f = [i \in D |-> Rank(p, i)]
  OBVIOUS
<1>3. f \in [D -> 1..n]
  <2>1. \A i \in D : Rank(p, i) \in 1..n
    BY <1>1, RankIs
  <2> QED BY <1>2, <2>1
<1>4. ASSUME NEW i \in D, NEW j \in D, f[i] = f[j] PROVE i = j
  <2>1. Rank(p, i) = Rank(p, j) /\ Rank(p, i) \in Nat
    BY <1>2, <1>4, RankIs
  <2>2. Rank(p, i) <= Rank(p, j) /\ Rank(p, j) <= Rank(p, i)
    BY <2>1
  <2>3. j \in UpTo(p, i) /\ i \in UpTo(p, j)
    BY <2>2, RankOrders
  <2>4. Sooner(p, i, j) /\ Sooner(p, j, i)
    BY <2>3 DEF UpTo, Sooner
  <2>5. i \in Int /\ j \in Int /\ p[i] \in Int /\ p[j] \in Int
    BY DEF Keyed
  <2> QED BY <2>4, <2>5 DEF Sooner
<1>5. f \in Injection(D, 1..n)
  BY <1>3, <1>4 DEF Injection, IsInjective
<1>6. IsFiniteSet(1..n) /\ Cardinality(1..n) = n
  <2>1. IsFiniteSet(1..n) /\ Cardinality(1..n) = IF 1 > n THEN 0 ELSE n - 1 + 1
    BY FS_Interval
  <2> QED BY <2>1
<1>7. f \in Surjection(D, 1..n)
  BY <1>1, <1>5, <1>6, FS_Injection
<1>8. \E i \in D : Rank(p, i) = k
  BY <1>1, <1>2, <1>7 DEF Surjection
<1>9. DOMAIN p = D
  BY DEF Keyed
<1> QED BY <1>8, <1>9 DEF Nth

-----------------------------------------------------------------------------
(* Which tests are discoveries, for any family of p-values.                *)

Family(D, p) == D \in SUBSET Int /\ IsFiniteSet(D) /\ p \in [D -> Nat]

LEMMA FamilyKeyed == ASSUME NEW D, NEW p, Family(D, p) PROVE Keyed(D, p) /\ Tests(p) = Cardinality(D)
  BY DEF Family, Keyed, Tests

LEMMA PlaceIs ==
  ASSUME NEW D, NEW p, Family(D, p), NEW i \in D
  PROVE  /\ Tests(p) \in Nat /\ Rank(p, i) \in Nat /\ 1 <= Rank(p, i) /\ Rank(p, i) <= Tests(p)
         /\ UpTo(p, i) \in SUBSET D
  BY FamilyKeyed, RankIs

Hit(p, i) == p[i] * Tests(p) <= Alpha * Rank(p, i)

LEMMA LargestHitIs ==
  ASSUME NEW D, NEW p, Family(D, p)
  PROVE  /\ LargestHit(p) \in Nat
         /\ LargestHit(p) = 0 \/ \E k \in D : Hit(p, k) /\ Rank(p, k) = LargestHit(p)
         /\ \A k \in D : Hit(p, k) => Rank(p, k) <= LargestHit(p)
<1>1. PICK S : S = {0} \cup Hits(p)
  OBVIOUS
<1>2. \A x : x \in S <=> x = 0 \/ \E k \in D : Hit(p, k) /\ x = Rank(p, k)
  BY <1>1 DEF Hits, Hit, Family
<1>3. PICK n \in Nat : n = Cardinality(D)
  BY FS_CardinalityType DEF Family
<1>4. Tests(p) = n
  BY <1>3 DEF Tests, Family
<1>5. S \in SUBSET Nat /\ S # {} /\ \A x \in S : x <= n
  <2>1. \A k \in D : Rank(p, k) \in Nat /\ Rank(p, k) <= n
    BY <1>4, PlaceIs
  <2> QED BY <1>2, <2>1
<1>6. \E x \in S : \A y \in S : y <= x
  BY <1>5, GreatestNat
<1>7. \E x \in S : \A y \in S : x >= y
  BY <1>5, <1>6
<1>8. Max(S) \in S /\ \A y \in S : Max(S) >= y
  BY <1>7 DEF Max
<1>9. LargestHit(p) = Max(S)
  BY <1>1 DEF LargestHit
<1>10. \A k \in D : Hit(p, k) => Rank(p, k) \in S
  BY <1>2
<1>11. Max(S) \in Nat /\ \A y \in S : y <= Max(S)
  BY <1>5, <1>8
<1> QED BY <1>2, <1>8, <1>9, <1>10, <1>11

LEMMA CoherentIs ==
  ASSUME NEW D, NEW p, Family(D, p)
  PROVE  Coherent(p)
<1>1. PICK R \in Nat : R = LargestHit(p)
  BY LargestHitIs
<1>2. PICK found : found = BenjaminiHochberg(p)
  OBVIOUS
<1>3. found \in SUBSET D /\ \A i \in D : i \in found <=> Rank(p, i) <= R
  BY <1>1, <1>2 DEF BenjaminiHochberg, Family
<1>4. PICK m \in Nat : m = Tests(p)
  <2>1. Cardinality(D) \in Nat
    BY FS_CardinalityType DEF Family
  <2> QED BY <2>1 DEF Tests, Family
<1>5. PICK a \in Nat : a = Alpha
  BY DiscoveriesAssumption
<1>6. \A i \in D : p[i] \in Nat /\ Rank(p, i) \in Nat /\ 1 <= Rank(p, i) /\ UpTo(p, i) \in SUBSET D
  BY PlaceIs DEF Family
<1>7. \A i \in D : p[i] * m <= a * Rank(p, i) => Rank(p, i) <= R
  BY <1>1, <1>4, <1>5, LargestHitIs DEF Hit
<1>8. R = 0 \/ \E k \in D : p[k] * m <= a * R /\ Rank(p, k) = R
  BY <1>1, <1>4, <1>5, LargestHitIs DEF Hit
(* The discoveries are the tests up to the largest hit.                    *)
<1>9. ASSUME NEW k \in D, Rank(p, k) = R
      PROVE  found = UpTo(p, k) /\ Cardinality(found) = R
  <2>1. \A i \in D : Rank(p, i) <= Rank(p, k) <=> i \in UpTo(p, k)
    BY FamilyKeyed, RankOrders
  <2>2. found = UpTo(p, k)
    BY <1>3, <1>6, <1>9, <2>1
  <2> QED BY <1>9, <2>2 DEF Rank
<1>10. Bonferroni(p) \subseteq found
  <2> SUFFICES ASSUME NEW i \in D, p[i] * m <= a PROVE i \in found
    BY <1>4, <1>5 DEF Bonferroni, Family
  <2>1. PICK r \in Nat : r = Rank(p, i) /\ 1 <= r
    BY <1>6
  <2>2. a <= a * r
    BY <2>1
  <2>3. p[i] * m \in Int /\ a * r \in Int
    BY <1>6
  <2>4. p[i] * m <= a * Rank(p, i)
    BY <2>1, <2>2, <2>3
  <2> QED BY <1>3, <1>7, <2>4
<1>11. ASSUME NEW i \in D, NEW j \in found, p[i] <= p[j] PROVE i \in found
  <2>0. j \in D /\ Rank(p, j) <= R
    BY <1>3
  <2>1. R # 0
    BY <1>6, <2>0
  <2>2. PICK k \in D : p[k] * m <= a * R /\ Rank(p, k) = R
    BY <1>8, <2>1
  <2>3. j \in UpTo(p, k)
    BY <1>9, <2>2
  <2>4. p[j] <= p[k]
    BY <1>6, <2>2, <2>3 DEF UpTo
  <2> SUFFICES ASSUME i \notin found PROVE FALSE
    OBVIOUS
  <2>5. ~(Rank(p, i) <= R)
    BY <1>3
  <2>6. i \notin UpTo(p, k)
    BY <1>9, <2>2
  <2>7. p[i] = p[k]
    <3>1. ~(p[i] < p[k])
      BY <2>6 DEF UpTo, Family
    <3> QED BY <1>6, <1>11, <2>0, <2>2, <2>4, <3>1
  <2>8. a * R <= a * Rank(p, i)
    <3>1. PICK r \in Nat : r = Rank(p, i) /\ R <= r
      BY <1>6, <2>5
    <3>2. R * a <= r * a
      BY <3>1
    <3> QED BY <3>1, <3>2
  <2>9. p[i] * m <= a * Rank(p, i)
    <3>1. p[k] * m \in Int /\ a * R \in Int /\ a * Rank(p, i) \in Int
      BY <1>6, <2>2
    <3> QED BY <2>2, <2>7, <2>8, <3>1
  <2> QED BY <1>7, <2>5, <2>9
<1>12. Supported(p, found)
  <2> SUFFICES ASSUME NEW i \in found PROVE p[i] * m <= a * Cardinality(found)
    BY <1>4, <1>5 DEF Supported
  <2>0. i \in D /\ Rank(p, i) <= R
    BY <1>3
  <2>1. R # 0
    BY <1>6, <2>0
  <2>2. PICK k \in D : p[k] * m <= a * R /\ Rank(p, k) = R
    BY <1>8, <2>1
  <2>3. i \in UpTo(p, k) /\ Cardinality(found) = R
    BY <1>9, <2>2
  <2>4. PICK x \in Nat, y \in Nat : x = p[i] /\ y = p[k] /\ x <= y
    BY <1>6, <2>0, <2>2, <2>3 DEF UpTo
  <2>5. x * m <= y * m
    BY <2>4
  <2>6. x * m \in Int /\ y * m \in Int /\ a * R \in Int
    OBVIOUS
  <2> QED BY <2>2, <2>3, <2>4, <2>5, <2>6
<1>13. ASSUME NEW S \in SUBSET D, Supported(p, S) PROVE S \subseteq found
  <2> SUFFICES ASSUME NEW s \in S PROVE s \in found
    OBVIOUS
  <2>1. PICK ranks : ranks = {Rank(p, i) : i \in S}
    OBVIOUS
  <2>2. PICK i \in S : \A j \in S : Rank(p, j) <= Rank(p, i)
    <3>1. ranks \in SUBSET Nat /\ ranks # {} /\ \A x \in ranks : x <= m
      <4>1. \A j \in D : Rank(p, j) \in Nat /\ Rank(p, j) <= m
        BY <1>4, PlaceIs
      <4> QED BY <2>1, <4>1
    <3>2. PICK x \in ranks : \A y \in ranks : y <= x
      BY <3>1, GreatestNat
    <3>3. PICK i \in S : x = Rank(p, i)
      BY <2>1, <3>2
    <3> QED BY <2>1, <3>2, <3>3
  <2>3. S \in SUBSET UpTo(p, i)
    <3>1. \A j \in S : j \in UpTo(p, i)
      BY <2>2, FamilyKeyed, RankOrders
    <3> QED BY <3>1
  <2>4. Cardinality(S) \in Nat /\ Cardinality(S) <= Rank(p, i)
    <3>1. IsFiniteSet(UpTo(p, i))
      BY <1>6, FS_Subset DEF Family
    <3>2. IsFiniteSet(S) /\ Cardinality(S) <= Cardinality(UpTo(p, i))
      BY <2>3, <3>1, FS_Subset
    <3> QED BY <3>2, FS_CardinalityType DEF Rank
  <2>5. p[i] * m <= a * Cardinality(S)
    BY <1>4, <1>5, <1>13 DEF Supported
  <2>6. p[i] * m <= a * Rank(p, i)
    <3>1. PICK c \in Nat, r \in Nat : c = Cardinality(S) /\ r = Rank(p, i) /\ c <= r
      BY <1>6, <2>4
    <3>2. c * a <= r * a
      BY <3>1
    <3>3. p[i] * m \in Int /\ a * c \in Int /\ a * r \in Int /\ a * c = c * a /\ a * r = r * a
      BY <1>6
    <3> QED BY <2>5, <3>1, <3>2, <3>3
  <2>7. Rank(p, i) <= R /\ Rank(p, s) <= Rank(p, i)
    BY <1>7, <2>2, <2>6
  <2>8. Rank(p, s) <= R
    BY <1>6, <2>7
  <2> QED BY <1>3, <2>8
<1>14. DOMAIN p = D
  BY DEF Family
<1> QED BY <1>2, <1>3, <1>10, <1>11, <1>12, <1>13, <1>14 DEF Coherent

LEMMA FoundWithinAlpha ==
  ASSUME NEW D, NEW p, Family(D, p), NEW k \in BenjaminiHochberg(p)
  PROVE  k \in D /\ p[k] <= Alpha
<1>1. k \in D /\ p[k] \in Nat
  BY DEF BenjaminiHochberg, Family
<1>2. Supported(p, BenjaminiHochberg(p)) /\ BenjaminiHochberg(p) \in SUBSET D
  BY CoherentIs DEF Coherent, BenjaminiHochberg, Family
<1>3. PICK found \in SUBSET D : found = BenjaminiHochberg(p)
  BY <1>2
<1>4. PICK c \in Nat, m \in Nat : c = Cardinality(found) /\ m = Cardinality(D) /\ c <= m /\ m # 0
  <2>1. IsFiniteSet(found) /\ Cardinality(found) <= Cardinality(D)
    BY FS_Subset DEF Family
  <2>2. Cardinality(found) \in Nat /\ Cardinality(D) \in Nat
    BY <2>1, FS_CardinalityType DEF Family
  <2>3. Cardinality(D) # 0
    BY <1>1, FS_EmptySet DEF Family
  <2> QED BY <2>1, <2>2, <2>3
<1>5. PICK a \in Nat : a = Alpha
  BY DiscoveriesAssumption
<1>6. p[k] * m <= a * c
  <2>1. p[k] * Tests(p) <= Alpha * Cardinality(found)
    BY <1>2, <1>3 DEF Supported
  <2> QED BY <1>4, <1>5, <2>1 DEF Tests, Family
<1>7. PICK x \in Nat : x = p[k]
  BY <1>1
<1>8. x <= a
  <2> SUFFICES ASSUME a + 1 <= x PROVE FALSE
    OBVIOUS
  <2>1. a * c <= a * m /\ (a + 1) * m <= x * m
    BY <1>4
  <2>2. (a + 1) * m = a * m + m
    OBVIOUS
  <2>3. a * c \in Int /\ a * m \in Int /\ x * m \in Int
    OBVIOUS
  <2>4. x * m <= a * c
    BY <1>6, <1>7
  <2> QED BY <1>4, <2>1, <2>2, <2>3, <2>4
<1> QED BY <1>1, <1>5, <1>7, <1>8

Cell == [n : Nat, effective : Nat, hit : Nat, gross : Nat, net : Int]

LEMMA SoberIs ==
  ASSUME NEW m \in Nat, NEW cells \in [1..m -> Cell]
  PROVE  Sober(cells)
<1>1. PICK T : T = Testable(cells)
  OBVIOUS
<1>2. PICK alone : alone = [k \in T |-> cells[k]]
  OBVIOUS
<1>3. /\ T \in SUBSET (1..m) /\ DOMAIN alone = T /\ \A k \in T : alone[k] = cells[k]
      /\ \A k \in T : cells[k] \in Cell
  BY <1>1, <1>2 DEF Testable
<1>4. Testable(alone) = T
  BY <1>1, <1>3 DEF Testable
<1>5. PICK hits, grosses : hits = [k \in T |-> cells[k].hit] /\ grosses = [k \in T |-> cells[k].gross]
  OBVIOUS
<1>6. Family(T, hits) /\ Family(T, grosses)
  <2>1. 1..m \in SUBSET Int
    OBVIOUS
  <2>2. IsFiniteSet(1..m)
    BY FS_Interval
  <2>3. IsFiniteSet(T)
    BY <1>3, <2>2, FS_Subset
  <2>4. \A k \in T : cells[k].hit \in Nat /\ cells[k].gross \in Nat
    BY <1>3 DEF Cell
  <2>5. hits \in [T -> Nat] /\ grosses \in [T -> Nat]
    BY <1>5, <2>4
  <2> QED BY <1>3, <2>1, <2>3, <2>5 DEF Family
<1>7. /\ HitFlags(cells) = BenjaminiHochberg(hits) /\ GrossFlags(cells) = BenjaminiHochberg(grosses)
  <2>1. hits = [k \in T |-> cells[k]["hit"]] /\ grosses = [k \in T |-> cells[k]["gross"]]
    BY <1>5
  <2> QED BY <1>1, <2>1 DEF HitFlags, GrossFlags, Flagged
<1>8. HitFlags(alone) = BenjaminiHochberg(hits) /\ GrossFlags(alone) = BenjaminiHochberg(grosses)
  <2>1. /\ hits = [k \in T |-> alone[k]["hit"]] 
        /\ grosses = [k \in T |-> alone[k]["gross"]]
    BY <1>3, <1>5
  <2> QED BY <1>4, <2>1 DEF HitFlags, GrossFlags, Flagged
<1>9. Edge(cells) = Edge(alone)
  BY <1>7, <1>8 DEF Edge
<1>10. \A k \in Edge(cells) : k \in T /\ (cells[k].hit <= Alpha \/ cells[k].gross <= Alpha)
  <2> SUFFICES ASSUME NEW k \in Edge(cells)
               PROVE  k \in T /\ (cells[k].hit <= Alpha \/ cells[k].gross <= Alpha)
    OBVIOUS
  <2>1. CASE k \in BenjaminiHochberg(hits)
    <3>1. k \in T /\ hits[k] <= Alpha
      BY <1>6, <2>1, FoundWithinAlpha
    <3> QED BY <1>5, <3>1
  <2>2. CASE k \in BenjaminiHochberg(grosses)
    <3>1. k \in T /\ grosses[k] <= Alpha
      BY <1>6, <2>2, FoundWithinAlpha
    <3> QED BY <1>5, <3>1
  <2> QED BY <1>7, <2>1, <2>2 DEF Edge
<1>11. Tradeable(cells) = Tradeable(alone)
  BY <1>3, <1>9, <1>10 DEF Tradeable
<1>12. ASSUME NEW k \in RawOnly(cells) PROVE cells[k].hit <= Alpha \/ cells[k].gross <= Alpha
  <2>1. k \in T /\ (cells[k].hit < Alpha \/ cells[k].gross < Alpha)
    BY <1>1 DEF RawOnly
  <2>2. cells[k].hit \in Nat /\ cells[k].gross \in Nat
    BY <1>3, <2>1 DEF Cell
  <2>3. Alpha \in Nat
    BY DiscoveriesAssumption
  <2> QED BY <2>1, <2>2, <2>3
<1>13. ASSUME NEW k \in T, cells[k].hit < Alpha \/ cells[k].gross < Alpha
       PROVE  k \in Edge(cells) \cup RawOnly(cells)
  BY <1>1, <1>13 DEF RawOnly
<1> QED BY <1>1, <1>2, <1>9, <1>10, <1>11, <1>12, <1>13 DEF Sober

AnyGrid == UNION {[1..m -> Cell] : m \in Nat}

GridSpec ==
  /\ job = "grid" /\ input = Nothing
  /\ [][job' = job /\ input' \in AnyGrid]_<<job, input>>

(* "The cells that survive" (_apply_corrections, benjamini_hochberg): for  *)
(* a grid of any number of cells, any p-values and any alpha, a family's   *)
(* discoveries are the largest set its own size justifies, whatever the    *)
(* order of the cells, and a cell that cannot be tested changes nothing.   *)
THEOREM DiscoveriesHold == GridSpec => []DiscoveriesAreCoherent
<1> DEFINE Valued == job = "grid" /\ (input = Nothing \/ input \in AnyGrid)
<1>1. job = "grid" /\ input = Nothing => Valued
  OBVIOUS
<1>2. Valued /\ [job' = job /\ input' \in AnyGrid]_<<job, input>> => Valued'
  OBVIOUS
<1>3. Valued => DiscoveriesAreCoherent
  <2> SUFFICES ASSUME input \in AnyGrid
               PROVE  Coherent([k \in DOMAIN input |-> input[k].hit]) /\ Sober(input)
    BY DEF DiscoveriesAreCoherent, Of
  <2>1. PICK m \in Nat : input \in [1..m -> Cell]
    BY DEF AnyGrid
  <2>2. Sober(input)
    BY <2>1, SoberIs
  <2>3. PICK p : p = [k \in 1..m |-> input[k].hit]
    OBVIOUS
  <2>4. Family(1..m, p)
    <3>1. IsFiniteSet(1..m)
      BY FS_Interval
    <3>2. p \in [1..m -> Nat]
      BY <2>1, <2>3 DEF Cell
    <3>3. (1..m) \in SUBSET Int
      OBVIOUS
    <3> QED BY <3>1, <3>2, <3>3 DEF Family
  <2>5. Coherent(p)
    BY <2>4, CoherentIs
  <2>6. [k \in DOMAIN input |-> input[k].hit] = p
    BY <2>1, <2>3
  <2> QED BY <2>2, <2>5, <2>6
<1> QED BY <1>1, <1>2, <1>3, PTL DEF GridSpec

-----------------------------------------------------------------------------
(* Levels: what is nearest, on either side of any price.                   *)

Apiece(off) == \A x, y \in DOMAIN off : off[x] = off[y] => x = y

(* s has keys of D, the least value first. *)
Nearer(s, off, D) ==
  \E m \in Nat : DOMAIN s = 1..m /\ \A k \in 1..m :
    /\ s[k] \in D /\ off[s[1]] <= off[s[k]]
    /\ k > 1 => off[s[k - 1]] < off[s[k]]

LEMMA NearestOfIs ==
  ASSUME NEW D, NEW off, Keyed(D, off), Apiece(off)
  PROVE  Nearer(NearestOf(off), off, D)
<1>1. PICK n \in Nat : n = Cardinality(D)
  BY FS_CardinalityType DEF Keyed
<1>2. PICK b \in Nat : b = PerSide
  BY LevelsAssumption
<1>3. PICK m \in Nat : m = Min({b, n}) /\ m <= n
  <2>1. Min({b, n}) = IF b <= n THEN b ELSE n
    BY MinOfTwo
  <2> QED BY <2>1
<1>4. PICK s : s = [k \in 1..m |-> Nth(off, k)]
  OBVIOUS
<1>5. NearestOf(off) = s
  BY <1>1, <1>2, <1>3, <1>4 DEF NearestOf, Keyed
<1>6. \A k \in 1..m : s[k] \in D /\ Rank(off, s[k]) = k
  <2>1. \A k \in 1..m : k \in 1..Cardinality(D)
    BY <1>1, <1>3
  <2> QED BY <1>4, <2>1, NthIs
<1>7. \A x \in D : x \in Int /\ off[x] \in Int
  BY DEF Keyed
<1>8. ASSUME NEW j \in 1..m, NEW k \in 1..m, j <= k PROVE off[s[j]] <= off[s[k]]
  <2>1. Rank(off, s[j]) <= Rank(off, s[k]) /\ s[j] \in D /\ s[k] \in D
    BY <1>6, <1>8
  <2>2. s[j] \in UpTo(off, s[k])
    BY <2>1, RankOrders
  <2>3. off[s[j]] < off[s[k]] \/ off[s[j]] = off[s[k]]
    BY <2>2 DEF UpTo
  <2> QED BY <1>7, <2>1, <2>3
<1>9. ASSUME NEW k \in 1..m, k > 1 PROVE off[s[k - 1]] < off[s[k]]
  <2>1. k - 1 \in 1..m /\ k - 1 <= k /\ k - 1 # k
    BY <1>9
  <2>2. off[s[k - 1]] <= off[s[k]]
    BY <1>8, <2>1
  <2>3. s[k - 1] # s[k] /\ s[k - 1] \in D /\ s[k] \in D
    BY <1>6, <2>1
  <2>4. off[s[k - 1]] # off[s[k]]
    BY <2>3 DEF Apiece, Keyed
  <2> QED BY <1>7, <2>2, <2>3, <2>4
<1>10. ASSUME NEW k \in 1..m PROVE off[s[1]] <= off[s[k]]
  <2>1. 1 \in 1..m /\ 1 <= k
    OBVIOUS
  <2> QED BY <1>8, <2>1
<1>11. DOMAIN s = 1..m
  BY <1>4
<1> QED BY <1>5, <1>6, <1>9, <1>10, <1>11 DEF Nearer

(* Nearest first, all on one side of p. *)
Above(s, p) ==
  \E m \in Nat : DOMAIN s = 1..m /\ \A k \in 1..m :
    /\ s[k] \in Int /\ s[k] > p /\ s[1] <= s[k]
    /\ k > 1 => s[k - 1] < s[k]
Below(s, p) ==
  \E m \in Nat : DOMAIN s = 1..m /\ \A k \in 1..m :
    /\ s[k] \in Int /\ s[k] < p /\ s[1] >= s[k]
    /\ k > 1 => s[k - 1] > s[k]

LEMMA SidesOf ==
  ASSUME NEW L \in SUBSET Int, IsFiniteSet(L), NEW p \in Int
  PROVE  Below(NearestOf(Supports(L, p)), p) /\ Above(NearestOf(Resistances(L, p)), p)
<1>1. PICK below, above : below = {x \in L : x < p} /\ above = {x \in L : x > p}
  OBVIOUS
<1>2. below \in SUBSET Int /\ above \in SUBSET Int /\ IsFiniteSet(below) /\ IsFiniteSet(above)
  <2>1. below \in SUBSET L /\ above \in SUBSET L
    BY <1>1
  <2> QED BY <2>1, FS_Subset
<1>3. PICK down, up : down = [l \in below |-> p - l] /\ up = [l \in above |-> l - p]
  OBVIOUS
<1>4. Supports(L, p) = down /\ Resistances(L, p) = up
  BY <1>1, <1>3 DEF Supports, Resistances
<1>5. Keyed(below, down) /\ Keyed(above, up) /\ Apiece(down) /\ Apiece(up)
  <2>1. \A l \in below : down[l] \in Int
    BY <1>2, <1>3
  <2>2. \A l \in above : up[l] \in Int
    BY <1>2, <1>3
  <2>3. Apiece(down)
    BY <1>2, <1>3 DEF Apiece
  <2>4. Apiece(up)
    BY <1>2, <1>3 DEF Apiece
  <2> QED BY <1>2, <1>3, <2>1, <2>2, <2>3, <2>4 DEF Keyed
<1>6. PICK s, r : s = NearestOf(down) /\ r = NearestOf(up)
  OBVIOUS
<1>7. Nearer(s, down, below) /\ Nearer(r, up, above)
  BY <1>5, <1>6, NearestOfIs
<1>8. Below(s, p)
  <2>1. PICK m \in Nat : DOMAIN s = 1..m /\ \A k \in 1..m :
          s[k] \in below /\ down[s[1]] <= down[s[k]] /\ (k > 1 => down[s[k - 1]] < down[s[k]])
    BY <1>7 DEF Nearer
  <2>2. \A l \in below : l \in Int /\ l < p /\ down[l] = p - l
    BY <1>1, <1>3
  <2>3. ASSUME NEW k \in 1..m
        PROVE  /\ s[k] \in Int /\ s[k] < p /\ s[1] >= s[k]
               /\ k > 1 => s[k - 1] > s[k]
    <3>1. 1 \in 1..m /\ (k > 1 => k - 1 \in 1..m)
      OBVIOUS
    <3>2. s[k] \in below /\ s[1] \in below /\ (k > 1 => s[k - 1] \in below)
      BY <2>1, <3>1
    <3>3. PICK x \in Int, y \in Int : x = s[k] /\ y = s[1] /\ x < p /\ p - y <= p - x
      BY <2>1, <2>2, <3>2
    <3>4. ASSUME k > 1 PROVE s[k - 1] > s[k]
      <4>1. PICK z \in Int : z = s[k - 1] /\ p - z < p - x
        BY <2>1, <2>2, <3>2, <3>3, <3>4
      <4> QED BY <3>3, <4>1
    <3> QED BY <3>3, <3>4
  <2> QED BY <2>1, <2>3 DEF Below
<1>9. Above(r, p)
  <2>1. PICK m \in Nat : DOMAIN r = 1..m /\ \A k \in 1..m :
          r[k] \in above /\ up[r[1]] <= up[r[k]] /\ (k > 1 => up[r[k - 1]] < up[r[k]])
    BY <1>7 DEF Nearer
  <2>2. \A l \in above : l \in Int /\ l > p /\ up[l] = l - p
    BY <1>1, <1>3
  <2>3. ASSUME NEW k \in 1..m
        PROVE  /\ r[k] \in Int /\ r[k] > p /\ r[1] <= r[k]
               /\ k > 1 => r[k - 1] < r[k]
    <3>1. 1 \in 1..m /\ (k > 1 => k - 1 \in 1..m)
      OBVIOUS
    <3>2. r[k] \in above /\ r[1] \in above /\ (k > 1 => r[k - 1] \in above)
      BY <2>1, <3>1
    <3>3. PICK x \in Int, y \in Int : x = r[k] /\ y = r[1] /\ x > p /\ y - p <= x - p
      BY <2>1, <2>2, <3>2
    <3>4. ASSUME k > 1 PROVE r[k - 1] < r[k]
      <4>1. PICK z \in Int : z = r[k - 1] /\ z - p < x - p
        BY <2>1, <2>2, <3>2, <3>3, <3>4
      <4> QED BY <3>3, <4>1
    <3> QED BY <3>3, <3>4
  <2> QED BY <2>1, <2>3 DEF Above
<1> QED BY <1>4, <1>6, <1>8, <1>9

HeldBar ==
  [interval : TrackedIntervals, open : Nat, closed : {TRUE}, high : Nat \ {0}, low : Nat \ {0},
   close : Nat \ {0}, volume : Nat]

LEMMA PivotsIs ==
  ASSUME NEW series \in Seq(HeldBar)
  PROVE  Keyed(DOMAIN PivotPrices(series), PivotPrices(series))
<1>1. PICK n \in Nat : n = Len(series) /\ DOMAIN series = 1..n
  OBVIOUS
<1>2. PICK highs, depths : highs = [k \in 1..n |-> series[k].high] /\ depths = [k \in 1..n |-> -series[k].low]
  OBVIOUS
<1>3. \A k \in 1..n : highs[k] \in Int /\ depths[k] \in Int
  <2>1. \A k \in 1..n : series[k] \in HeldBar
    BY <1>1
  <2>2. \A k \in 1..n : series[k].high \in Nat /\ series[k].low \in Nat
    BY <2>1 DEF HeldBar
  <2>3. \A k \in 1..n : highs[k] = series[k].high /\ depths[k] = -series[k].low
    BY <1>2
  <2> QED BY <2>2, <2>3
<1>4. PICK P, B, T : /\ P = {k \in Confirmable(series) : IsPeak(highs, k)}
                     /\ B = {k \in Confirmable(series) : IsPeak(depths, k)}
                     /\ T = {-k : k \in B}
  OBVIOUS
<1>5. P \in SUBSET (1..n) /\ B \in SUBSET (1..n)
  <2>1. Confirmable(series) \in SUBSET (1..n)
    BY <1>1, LevelsAssumption DEF Confirmable
  <2> QED BY <1>4, <2>1
<1>6. PICK p : p = [k \in P \cup T |-> IF k > 0 THEN highs[k] ELSE -depths[-k]]
  OBVIOUS
<1>7. PivotPrices(series) = p
  BY <1>1, <1>2, <1>4, <1>6 DEF PivotPrices
<1>8. \A k \in T : k \in Int /\ k < 0 /\ -k \in 1..n /\ k \in (-n)..n
  BY <1>4, <1>5
<1>9. P \cup T \in SUBSET ((-n)..n) /\ P \cup T \in SUBSET Int
  <2>1. \A k \in P : k \in Int /\ k \in (-n)..n
    BY <1>5
  <2> QED BY <1>8, <2>1
<1>10. IsFiniteSet(P \cup T)
  <2>1. -n \in Int
    OBVIOUS
  <2>2. IsFiniteSet((-n)..n)
    BY <2>1, FS_Interval
  <2> QED BY <1>9, <2>2, FS_Subset
<1>11. \A k \in P \cup T : p[k] \in Int
  <2>1. ASSUME NEW k \in P PROVE p[k] \in Int
    <3>1. k \in 1..n /\ p[k] = highs[k]
      BY <1>5, <1>6
    <3> QED BY <1>3, <3>1
  <2>2. ASSUME NEW k \in T PROVE p[k] \in Int
    <3>1. -k \in 1..n /\ p[k] = -depths[-k]
      BY <1>6, <1>8
    <3> QED BY <1>3, <3>1
  <2> QED BY <2>1, <2>2
<1>12. DOMAIN p = P \cup T /\ p \in [P \cup T -> Int]
  BY <1>6, <1>11
<1> QED BY <1>7, <1>9, <1>10, <1>12 DEF Keyed

Cluster == [sum : Int, touches : Nat \ {0}]

LEMMA AddPivotIs ==
  ASSUME NEW clusters \in Seq(Cluster), NEW x \in Int
  PROVE  AddPivot(clusters, x) \in Seq(Cluster)
<1>1. CASE clusters # << >> /\ Joins(Last(clusters), x)
  <2>1. PICK n \in Nat \ {0} : n = Len(clusters) /\ DOMAIN clusters = 1..n
    BY <1>1
  <2>2. PICK c : c = clusters[n]
    OBVIOUS
  <2>3. c \in Cluster
    BY <2>1, <2>2
  <2>4. [sum |-> c.sum + x, touches |-> c.touches + 1] \in Cluster
    BY <2>3 DEF Cluster
  <2>5. AddPivot(clusters, x) = [clusters EXCEPT ![n] = [sum |-> c.sum + x, touches |-> c.touches + 1]]
    BY <1>1, <2>1, <2>2 DEF AddPivot
  <2> QED BY <2>1, <2>4, <2>5
<1>2. CASE ~(clusters # << >> /\ Joins(Last(clusters), x))
  <2>1. [sum |-> x, touches |-> 1] \in Cluster
    BY DEF Cluster
  <2>2. AddPivot(clusters, x) = Append(clusters, [sum |-> x, touches |-> 1])
    BY <1>2 DEF AddPivot
  <2> QED BY <2>1, <2>2
<1> QED BY <1>1, <1>2

Joining(after, p, n) ==
  after = [k \in 0..n |-> IF k = 0 THEN << >> ELSE AddPivot(after[k - 1], p[Nth(p, k)])]
Joined(p, n) == CHOOSE after : Joining(after, p, n)

LEMMA ClustersIs ==
  ASSUME NEW D, NEW p, Keyed(D, p)
  PROVE  Clusters(p) \in Seq(Cluster)
<1>1. PICK n \in Nat : n = Cardinality(D) /\ DOMAIN p = D
  BY FS_CardinalityType DEF Keyed
<1>2. Clusters(p) = Joined(p, n)[n]
  BY <1>1 DEF Clusters, Joined, Joining
<1>3. \A k \in 1..n : p[Nth(p, k)] \in Int
  <2>1. \A k \in 1..n : Nth(p, k) \in D
    BY <1>1, NthIs
  <2> QED BY <2>1 DEF Keyed
<1>a. << >> \in Seq(Cluster)
  OBVIOUS
<1>4. PICK S, none : S = Seq(Cluster) /\ none = << >> /\ none \in S
  <2>1. PICK S, none : S = Seq(Cluster) /\ none = << >>
    OBVIOUS
  <2>2. none \in S
    BY <1>a, <2>1
  <2> QED BY <2>1, <2>2
<1>5. PICK step : step = [z \in (1..n) \X S |-> AddPivot(z[2], p[Nth(p, z[1])])]
  OBVIOUS
<1>6. /\ step \in [(1..n) \X S -> S]
      /\ \A k \in 1..n : \A c \in S : step[<<k, c>>] = AddPivot(c, p[Nth(p, k)])
  <2>1. \A k \in 1..n : \A c \in S : AddPivot(c, p[Nth(p, k)]) \in S
    BY <1>3, <1>4, AddPivotIs
  <2> QED BY <1>5, <2>1
<1>7. PICK h \in [0..n -> S] : Goes(h, none, step, n)
  BY <1>4, <1>6, Recursion
<1>8. Joining(h, p, n)
  <2>1. \A k \in 0..n : h[k] = IF k = 0 THEN << >> ELSE AddPivot(h[k - 1], p[Nth(p, k)])
    <3>1. h[0] = << >>
      BY <1>4, <1>7 DEF Goes
    <3>2. ASSUME NEW k \in 1..n PROVE h[k] = AddPivot(h[k - 1], p[Nth(p, k)])
      <4>1. k - 1 \in 0..n
        OBVIOUS
      <4>2. h[k - 1] \in S
        BY <1>7, <4>1
      <4> QED BY <1>6, <1>7, <4>2 DEF Goes
    <3> QED BY <3>1, <3>2
  <2> QED BY <1>7, <2>1 DEF Joining
<1>9. PICK after : after = Joined(p, n)
  OBVIOUS
<1>10. Joining(after, p, n)
  BY <1>8, <1>9 DEF Joined
<1>11. /\ after[0] = << >>
       /\ \A k \in 1..n : after[k] = AddPivot(after[k - 1], p[Nth(p, k)])
  BY <1>10 DEF Joining
<1> DEFINE X == {k \in 0..n : after[k] \in S}
<1>12. 0 \in X
  <2>1. after[0] = none
    BY <1>4, <1>11
  <2>2. after[0] \in S /\ 0 \in 0..n
    BY <1>4, <2>1
  <2> QED BY <2>2
<1>13. ASSUME NEW i \in 0..(n - 1), i \in X PROVE i + 1 \in X
  <2>1. i + 1 \in 1..n /\ i + 1 \in 0..n /\ i + 1 - 1 = i /\ after[i] \in S
    BY <1>13
  <2>2. after[i + 1] = AddPivot(after[i], p[Nth(p, i + 1)])
    BY <1>11, <2>1
  <2>3. p[Nth(p, i + 1)] \in Int
    BY <1>3, <2>1
  <2>4. after[i + 1] \in S
    BY <1>4, <2>1, <2>2, <2>3, AddPivotIs
  <2> QED BY <2>1, <2>4
<1> HIDE DEF X
<1>14. 0..n \subseteq X
  BY <1>12, <1>13, Upwards
<1>15. after[n] \in S
  BY <1>14 DEF X
<1> QED BY <1>2, <1>4, <1>9, <1>15

LEMMA LevelsIs ==
  ASSUME NEW D, NEW p, Keyed(D, p)
  PROVE  ClusterPivots(p) \in SUBSET Int /\ IsFiniteSet(ClusterPivots(p))
<1>1. PICK c \in Seq(Cluster) : c = Clusters(p)
  BY ClustersIs
<1>2. PICK n \in Nat : DOMAIN c = 1..n
  OBVIOUS
<1>3. PICK f : f = [k \in 1..n |-> (Unit * c[k].sum) \div c[k].touches]
  OBVIOUS
<1>4. \A k \in 1..n : f[k] \in Int
  <2> SUFFICES ASSUME NEW k \in 1..n PROVE f[k] \in Int
    OBVIOUS
  <2>1. c[k] \in Cluster
    BY <1>2
  <2>2. PICK a \in Int, t \in Nat \ {0} : a = Unit * c[k].sum /\ t = c[k].touches
    <3>1. c[k].sum \in Int /\ c[k].touches \in Nat \ {0} /\ Unit \in Int
      BY <2>1, LevelsAssumption DEF Cluster
    <3>2. Unit * c[k].sum \in Int
      BY <3>1, ProductInt
    <3> QED BY <3>1, <3>2
  <2>3. a \div t \in Int
    BY <2>2
  <2> QED BY <1>3, <2>2, <2>3
<1>5. PICK L : L = {f[k] : k \in 1..n}
  OBVIOUS
<1>6. ClusterPivots(p) = L
  BY <1>1, <1>2, <1>3, <1>5 DEF ClusterPivots
<1>7. L \in SUBSET Int
  BY <1>4, <1>5
<1>8. f \in Surjection(1..n, L)
  BY <1>3, <1>5 DEF Surjection
<1>9. IsFiniteSet(1..n)
  BY FS_Interval
<1>10. IsFiniteSet(L)
  BY <1>8, <1>9, FS_Surjection
<1> QED BY <1>6, <1>7, <1>10

LEMMA DetectedIs ==
  ASSUME NEW series \in Seq(HeldBar), NEW p \in Int
  PROVE  \E s, r : DetectLevels(series, p) = [support |-> s, resistance |-> r] /\ Below(s, p) /\ Above(r, p)
<1>1. PICK L : L = IF p <= 0 THEN {} ELSE ClusterPivots(PivotPrices(series))
  OBVIOUS
<1>2. L \in SUBSET Int /\ IsFiniteSet(L)
  <2>1. ClusterPivots(PivotPrices(series)) \in SUBSET Int /\ IsFiniteSet(ClusterPivots(PivotPrices(series)))
    BY PivotsIs, LevelsIs
  <2>2. IsFiniteSet({})
    BY FS_EmptySet
  <2> QED BY <1>1, <2>1, <2>2
<1>3. PICK s, r : s = NearestOf(Supports(L, p)) /\ r = NearestOf(Resistances(L, p))
  OBVIOUS
<1>4. DetectLevels(series, p) = [support |-> s, resistance |-> r]
  BY <1>1, <1>3 DEF DetectLevels
<1>5. Below(s, p) /\ Above(r, p)
  BY <1>2, <1>3, SidesOf
<1> QED BY <1>4, <1>5

LEMMA NearestIs ==
  ASSUME NEW levels, NEW kind, NEW p \in Int, NEW s, s = levels[kind], Above(s, p) \/ Below(s, p)
  PROVE  \/ DOMAIN s = {} /\ NearestLevel(levels, kind, p) = {}
         \/ 1 \in DOMAIN s /\ NearestLevel(levels, kind, p) = {s[1]}
<1>1. PICK m \in Nat : DOMAIN s = 1..m /\ \A k \in 1..m : s[k] \in Int
  BY DEF Above, Below
<1>2. PICK R : R = {s[k] : k \in 1..m}
  OBVIOUS
<1>3. PICK d : d = [l \in R |-> IF l < p THEN p - l ELSE l - p]
  OBVIOUS
<1>4. NearestLevel(levels, kind, p) = {l \in R : \A o \in R : d[l] <= d[o]}
  <2>1. Range(levels[kind]) = R
    BY <1>1, <1>2 DEF Range
  <2> QED BY <1>3, <2>1 DEF NearestLevel
<1>5. CASE m = 0
  <2>1. R = {} /\ DOMAIN s = {}
    BY <1>1, <1>2, <1>5
  <2> QED BY <1>4, <2>1
<1>6. CASE m # 0
  <2>1. 1 \in 1..m /\ s[1] \in R
    BY <1>2, <1>6
  <2>2. CASE Above(s, p)
    <3>1. \A k \in 1..m : s[k] > p /\ s[1] <= s[k]
      BY <1>1, <2>2 DEF Above
    <3>2. \A l \in R : l \in Int /\ d[l] = l - p /\ s[1] <= l
      BY <1>1, <1>2, <1>3, <3>1
    <3>3. \A l \in R : (\A o \in R : d[l] <= d[o]) <=> l = s[1]
      BY <2>1, <3>2
    <3>4. {l \in R : \A o \in R : d[l] <= d[o]} = {s[1]}
      BY <2>1, <3>3
    <3> QED BY <1>1, <1>4, <2>1, <3>4
  <2>3. CASE Below(s, p)
    <3>1. \A k \in 1..m : s[k] < p /\ s[1] >= s[k]
      BY <1>1, <2>3 DEF Below
    <3>2. \A l \in R : l \in Int /\ d[l] = p - l /\ s[1] >= l
      BY <1>1, <1>2, <1>3, <3>1
    <3>3. \A l \in R : (\A o \in R : d[l] <= d[o]) <=> l = s[1]
      BY <2>1, <3>2
    <3>4. {l \in R : \A o \in R : d[l] <= d[o]} = {s[1]}
      BY <2>1, <3>3
    <3> QED BY <1>1, <1>4, <2>1, <3>4
  <2> QED BY <2>2, <2>3
<1> QED BY <1>5, <1>6

(* The protective price by a level, where it is on its side, and else one  *)
(* off the price by the buffer.                                            *)
LEMMA ShortOfIs ==
  ASSUME NEW levels, NEW kind \in {"support", "resistance"}, NEW p \in Int, NEW sign \in {1, -1},
         NEW s, s = levels[kind], Above(s, p) \/ Below(s, p)
  PROVE  \A x \in ShortOf(levels, kind, p, sign) :
           /\ 1 \in DOMAIN s /\ x = (1000 - sign) * s[1] /\ x \in Int
           /\ IF kind = "resistance" THEN x > 1000 * p ELSE x < 1000 * p
<1> SUFFICES ASSUME NEW x \in ShortOf(levels, kind, p, sign)
             PROVE  /\ 1 \in DOMAIN s /\ x = (1000 - sign) * s[1] /\ x \in Int
                    /\ IF kind = "resistance" THEN x > 1000 * p ELSE x < 1000 * p
  OBVIOUS
<1>1. PICK l \in NearestLevel(levels, kind, p) : x = (1000 - sign) * l
  BY DEF ShortOf
<1>2. Ahead(x, p, IF kind = "resistance" THEN 1 ELSE -1)
  BY DEF ShortOf
<1>3. 1 \in DOMAIN s /\ l = s[1]
  BY <1>1, NearestIs
<1>4. s[1] \in Int
  BY <1>3 DEF Above, Below
<1>5. (1000 - sign) * s[1] \in Int
  BY <1>4
<1>6. CASE kind = "resistance"
  <2>1. 1 * x > 1 * 1000 * p
    BY <1>2, <1>6 DEF Ahead
  <2>2. 1 * x = x /\ 1 * 1000 * p = 1000 * p
    BY <1>1, <1>3, <1>5
  <2> QED BY <1>1, <1>3, <1>5, <1>6, <2>1, <2>2
<1>7. CASE kind = "support"
  <2>1. (-1) * x > (-1) * 1000 * p
    BY <1>2, <1>7 DEF Ahead
  <2>2. PICK y \in Int : y = x
    BY <1>1, <1>3, <1>5
  <2>3. (-1) * y = -y /\ (-1) * 1000 * p = -(1000 * p)
    OBVIOUS
  <2>4. y < 1000 * p
    BY <2>1, <2>2, <2>3
  <2> QED BY <1>1, <1>3, <1>5, <1>7, <2>2, <2>4
<1> QED BY <1>6, <1>7

(* Is there no price by the level, there is none or it is too near.        *)
LEMMA TooNear ==
  ASSUME NEW levels, NEW kind \in {"support", "resistance"}, NEW p \in Int, NEW sign \in {1, -1},
         NEW s, s = levels[kind], Above(s, p) \/ Below(s, p), ShortOf(levels, kind, p, sign) = {}
  PROVE  \/ DOMAIN s = {}
         \/ 1 \in DOMAIN s /\ IF kind = "resistance" THEN (1000 - sign) * s[1] <= 1000 * p
                              ELSE (1000 - sign) * s[1] >= 1000 * p
<1>1. CASE 1 \in DOMAIN s /\ NearestLevel(levels, kind, p) = {s[1]}
  <2>1. s[1] \in Int
    BY <1>1 DEF Above, Below
  <2>2. PICK x \in Int : x = (1000 - sign) * s[1]
    BY <2>1
  <2>3. ~Ahead(x, p, IF kind = "resistance" THEN 1 ELSE -1)
    BY <1>1, <2>2 DEF ShortOf
  <2>4. CASE kind = "resistance"
    <3>1. ~(1 * x > 1 * 1000 * p)
      BY <2>3, <2>4 DEF Ahead
    <3>2. 1 * x = x /\ 1 * 1000 * p = 1000 * p /\ 1000 * p \in Int
      OBVIOUS
    <3> QED BY <1>1, <2>2, <2>4, <3>1, <3>2
  <2>5. CASE kind = "support"
    <3>1. ~((-1) * x > (-1) * 1000 * p)
      BY <2>3, <2>5 DEF Ahead
    <3>2. (-1) * x = -x /\ (-1) * 1000 * p = -(1000 * p) /\ 1000 * p \in Int
      OBVIOUS
    <3>3. x >= 1000 * p
      BY <3>1, <3>2
    <3> QED BY <1>1, <2>2, <2>5, <3>3
  <2> QED BY <2>4, <2>5
<1>2. CASE DOMAIN s = {}
  BY <1>2
<1> QED BY <1>1, <1>2, NearestIs

Buffer(p, atr) == IF atr # 0 THEN 1500 * atr ELSE 15 * p

Behind(p, b) == \E x \in Int : x = 1000 * p - 1 * b

LEMMA OffThePrice ==
  \A p, b \in Nat \ {0} :
    /\ Behind(p, b)
    /\ \E x \in Int : x = 1000 * p + 2 * 1 * b
    /\ \E x \in Int : x = 1000 * p - (-1) * b
    /\ \E x \in Int : x = 1000 * p + 2 * (-1) * b
<1> SUFFICES ASSUME NEW p \in Nat \ {0}, NEW b \in Nat \ {0}
             PROVE  /\ Behind(p, b)
                    /\ \E x \in Int : x = 1000 * p + 2 * 1 * b
                    /\ \E x \in Int : x = 1000 * p - (-1) * b
                    /\ \E x \in Int : x = 1000 * p + 2 * (-1) * b
  OBVIOUS
<1>1. Behind(p, b)
  <2>1. 1000 * p - 1 * b \in Int
    OBVIOUS
  <2> QED BY <2>1, Zenon DEF Behind
<1>2. \E x \in Int : x = 1000 * p + 2 * 1 * b
  <2>1. 1000 * p + 2 * 1 * b \in Int
    OBVIOUS
  <2> QED BY <2>1, Zenon
<1>3. \E x \in Int : x = 1000 * p - (-1) * b
  <2>1. 1000 * p - (-1) * b \in Int
    OBVIOUS
  <2> QED BY <2>1, Zenon
<1>4. \E x \in Int : x = 1000 * p + 2 * (-1) * b
  <2>1. 1000 * p + 2 * (-1) * b \in Int
    OBVIOUS
  <2> QED BY <2>1, Zenon
<1> QED BY <1>1, <1>2, <1>3, <1>4

LEMMA BracketedLong ==
  ASSUME NEW levels, NEW s, NEW r, NEW p \in Nat \ {0}, NEW atr \in Nat, NEW confidence,
         levels = [support |-> s, resistance |-> r], Below(s, p), Above(r, p)
  PROVE  Bracketed(Signal([direction |-> "long", confidence |-> confidence], p, levels, atr))
<1>1. PICK b \in Nat \ {0} : b = Buffer(p, atr)
  <2>1. 1500 * atr \in Nat /\ 15 * p \in Nat /\ 15 * p # 0 /\ (atr # 0 => 1500 * atr # 0)
    OBVIOUS
  <2> QED BY <2>1 DEF Buffer
<1>2. PICK stops, targets : /\ stops = ShortOf(levels, "support", p, 1)
                            /\ targets = ShortOf(levels, "resistance", p, 1)
  OBVIOUS
<1>d. PICK behind \in Int : behind = 1000 * p - 1 * b
  <2>1. Behind(p, b)
    BY OffThePrice
  <2> QED BY <2>1 DEF Behind
<1>e. PICK beyond \in Int : beyond = 1000 * p + 2 * 1 * b
  BY OffThePrice
<1>a. behind = 1000 * p - 1 * b /\ beyond = 1000 * p + 2 * 1 * b
  BY <1>d, <1>e
<1>b. PICK base : base = IF targets # {} THEN targets ELSE {beyond}
  OBVIOUS
<1>c. PICK target : target = {t \in base : t > 0}
  OBVIOUS
<1>3. PICK stop : stop = IF stops # {} THEN stops ELSE {behind}
  OBVIOUS
<1>4. ProtectiveLevels("long", p, levels, atr) = [stop |-> stop, target |-> target]
  BY <1>1, <1>2, <1>3, <1>a, <1>b, <1>c DEF ProtectiveLevels, Buffer
<1>5. levels["support"] = s /\ levels["resistance"] = r
  OBVIOUS
<1>6. p \in Int
  OBVIOUS
<1>7. \A x \in stops : x \in Int /\ x < 1000 * p
  BY <1>2, <1>5, <1>6, ShortOfIs
<1>8. \A x \in targets : /\ 1 \in DOMAIN r /\ x = (1000 - 1) * r[1] /\ x \in Int
                         /\ x > 1000 * p
  BY <1>2, <1>5, <1>6, ShortOfIs
<1>9. targets = {} => DOMAIN r = {} \/ (1 \in DOMAIN r /\ (1000 - 1) * r[1] <= 1000 * p)
  BY <1>2, <1>5, <1>6, TooNear
<1>10. stop # {} /\ \A x \in stop : 1 * x < 1 * 1000 * p
  <2>1. \A x \in stop : x \in Int /\ x < 1000 * p
    BY <1>3, <1>a, <1>7
  <2>2. \A x \in Int : 1 * x = x /\ 1 * 1000 * p = 1000 * p
    OBVIOUS
  <2> QED BY <1>3, <2>1, <2>2
<1>11. ASSUME NEW t \in target
       PROVE  /\ 1 * t > 1 * 1000 * p
              /\ \A l \in Range(r) : 1 * 1000 * l <= 1 * t => (1000 - 1) * r[1] * 1 <= 1 * 1000 * p
  <2>1. CASE targets # {}
    <3>1. 1 \in DOMAIN r /\ t = (1000 - 1) * r[1] /\ t \in Int /\ t > 1000 * p
      BY <1>b, <1>c, <1>8, <2>1
    <3>2. PICK m \in Nat : DOMAIN r = 1..m /\ \A k \in 1..m : r[k] \in Int /\ r[k] > p /\ r[1] <= r[k]
      BY DEF Above
    <3>3. PICK n \in Int : n = r[1] /\ n > 0 /\ t = 999 * n
      BY <3>1, <3>2
    <3>4. ASSUME NEW l \in Range(r) PROVE ~(1 * 1000 * l <= 1 * t)
      <4>1. l \in Int /\ n <= l
        BY <3>2, <3>3 DEF Range
      <4> QED BY <3>3, <4>1
    <3> QED BY <3>1, <3>3, <3>4
  <2>2. CASE targets = {}
    <3>1. t = 1000 * p + 2 * 1 * b
      BY <1>a, <1>b, <1>c, <2>2
    <3>2. CASE DOMAIN r = {}
      <4>1. Range(r) = {}
        BY <3>2 DEF Range
      <4> QED BY <3>1, <4>1
    <3>3. CASE 1 \in DOMAIN r /\ (1000 - 1) * r[1] <= 1000 * p
      <4>1. r[1] \in Int
        BY <3>3 DEF Above
      <4>2. (1000 - 1) * r[1] * 1 <= 1 * 1000 * p
        BY <3>3, <4>1
      <4> QED BY <3>1, <4>2
    <3> QED BY <1>9, <2>2, <3>2, <3>3
  <2> QED BY <2>1, <2>2
<1>12. /\ \A k \in DOMAIN s : s[k] < (IF k = 1 THEN p ELSE s[k - 1])
       /\ \A k \in DOMAIN r : r[k] > (IF k = 1 THEN p ELSE r[k - 1])
  BY DEF Below, Above
<1>13. PICK signal : signal = [direction |-> "long", confidence |-> confidence, price |-> p,
                               levels |-> levels, stop |-> stop, target |-> target]
  OBVIOUS
<1>14. Signal([direction |-> "long", confidence |-> confidence], p, levels, atr) = signal
  BY <1>4, <1>13 DEF Signal
<1>15. /\ signal.direction = "long" /\ signal.price = p /\ signal.stop = stop /\ signal.target = target
       /\ signal.levels.support = s /\ signal.levels.resistance = r
  BY <1>13
<1>16. Bracketed(signal)
  BY <1>10, <1>11, <1>12, <1>15 DEF Bracketed
<1> QED BY <1>14, <1>16

LEMMA BracketedShort ==
  ASSUME NEW levels, NEW s, NEW r, NEW p \in Nat \ {0}, NEW atr \in Nat, NEW confidence,
         levels = [support |-> s, resistance |-> r], Below(s, p), Above(r, p)
  PROVE  Bracketed(Signal([direction |-> "short", confidence |-> confidence], p, levels, atr))
<1>1. PICK b \in Nat \ {0} : b = Buffer(p, atr)
  <2>1. 1500 * atr \in Nat /\ 15 * p \in Nat /\ 15 * p # 0 /\ (atr # 0 => 1500 * atr # 0)
    OBVIOUS
  <2> QED BY <2>1 DEF Buffer
<1>2. PICK stops, targets : /\ stops = ShortOf(levels, "resistance", p, -1)
                            /\ targets = ShortOf(levels, "support", p, -1)
  OBVIOUS
<1>d. PICK behind \in Int : behind = 1000 * p - (-1) * b
  BY OffThePrice
<1>e. PICK beyond \in Int : beyond = 1000 * p + 2 * (-1) * b
  BY OffThePrice
<1>a. behind = 1000 * p - (-1) * b /\ beyond = 1000 * p + 2 * (-1) * b
  BY <1>d, <1>e
<1>b. PICK base : base = IF targets # {} THEN targets ELSE {beyond}
  OBVIOUS
<1>c. PICK target : target = {t \in base : t > 0}
  OBVIOUS
<1>3. PICK stop : stop = IF stops # {} THEN stops ELSE {behind}
  OBVIOUS
<1>4. ProtectiveLevels("short", p, levels, atr) = [stop |-> stop, target |-> target]
  BY <1>1, <1>2, <1>3, <1>a, <1>b, <1>c DEF ProtectiveLevels, Buffer
<1>5. levels["support"] = s /\ levels["resistance"] = r
  OBVIOUS
<1>6. p \in Int
  OBVIOUS
<1>7. \A x \in stops : x \in Int /\ x > 1000 * p
  BY <1>2, <1>5, <1>6, ShortOfIs
<1>8. \A x \in targets : /\ 1 \in DOMAIN s /\ x = (1000 - (-1)) * s[1] /\ x \in Int
                         /\ x < 1000 * p
  BY <1>2, <1>5, <1>6, ShortOfIs
<1>9. targets = {} => DOMAIN s = {} \/ (1 \in DOMAIN s /\ (1000 - (-1)) * s[1] >= 1000 * p)
  BY <1>2, <1>5, <1>6, TooNear
<1>10. stop # {} /\ \A x \in stop : (-1) * x < (-1) * 1000 * p
  <2>1. \A x \in stop : x \in Int /\ x > 1000 * p
    BY <1>3, <1>a, <1>7
  <2>2. \A x \in Int : (-1) * x = -x /\ (-1) * 1000 * p = -(1000 * p)
    OBVIOUS
  <2> QED BY <1>3, <2>1, <2>2
<1>11. ASSUME NEW t \in target
       PROVE  /\ (-1) * t > (-1) * 1000 * p
              /\ \A l \in Range(s) : (-1) * 1000 * l <= (-1) * t
                                     => (1000 - (-1)) * s[1] * (-1) <= (-1) * 1000 * p
  <2>0. \A x \in Int : (-1) * x = -x /\ (-1) * 1000 * x = -(1000 * x) /\ (1000 - (-1)) * x * (-1) = -(1001 * x)
    OBVIOUS
  <2>1. CASE targets # {}
    <3>1. 1 \in DOMAIN s /\ t = (1000 - (-1)) * s[1] /\ t \in Int /\ t < 1000 * p /\ t > 0
      BY <1>b, <1>c, <1>8, <2>1
    <3>2. PICK m \in Nat : DOMAIN s = 1..m /\ \A k \in 1..m : s[k] \in Int /\ s[k] < p /\ s[1] >= s[k]
      BY DEF Below
    <3>3. PICK n \in Int : n = s[1] /\ t = 1001 * n /\ n > 0
      BY <3>1, <3>2
    <3>4. ASSUME NEW l \in Range(s) PROVE ~((-1) * 1000 * l <= (-1) * t)
      <4>1. l \in Int /\ n >= l
        BY <3>2, <3>3 DEF Range
      <4>2. (-1) * 1000 * l = -(1000 * l) /\ (-1) * t = -t
        BY <2>0, <3>1, <4>1
      <4> QED BY <3>3, <4>1, <4>2
    <3>5. (-1) * t > (-1) * 1000 * p
      BY <2>0, <3>1
    <3> QED BY <3>4, <3>5
  <2>2. CASE targets = {}
    <3>1. t = 1000 * p + 2 * (-1) * b
      BY <1>a, <1>b, <1>c, <2>2
    <3>2. (-1) * t > (-1) * 1000 * p
      <4>1. PICK y \in Int : y = t /\ y < 1000 * p
        BY <3>1
      <4> QED BY <2>0, <4>1
    <3>3. CASE DOMAIN s = {}
      <4>1. Range(s) = {}
        BY <3>3 DEF Range
      <4> QED BY <3>2, <4>1
    <3>4. CASE 1 \in DOMAIN s /\ (1000 - (-1)) * s[1] >= 1000 * p
      <4>1. PICK n \in Int : n = s[1]
        BY <3>4 DEF Below
      <4>2. (1000 - (-1)) * n * (-1) <= (-1) * 1000 * p
        BY <2>0, <3>4, <4>1
      <4> QED BY <3>2, <4>1, <4>2
    <3> QED BY <1>9, <2>2, <3>3, <3>4
  <2> QED BY <2>1, <2>2
<1>12. /\ \A k \in DOMAIN s : s[k] < (IF k = 1 THEN p ELSE s[k - 1])
       /\ \A k \in DOMAIN r : r[k] > (IF k = 1 THEN p ELSE r[k - 1])
  BY DEF Below, Above
<1>13. PICK signal : signal = [direction |-> "short", confidence |-> confidence, price |-> p,
                               levels |-> levels, stop |-> stop, target |-> target]
  OBVIOUS
<1>14. Signal([direction |-> "short", confidence |-> confidence], p, levels, atr) = signal
  BY <1>4, <1>13 DEF Signal
<1>15. /\ signal.direction = "short" /\ signal.price = p /\ signal.stop = stop /\ signal.target = target
       /\ signal.levels.support = s /\ signal.levels.resistance = r
  BY <1>13
<1>16. Bracketed(signal)
  BY <1>10, <1>11, <1>12, <1>15 DEF Bracketed
<1> QED BY <1>14, <1>16


LEMMA BracketedFlat ==
  ASSUME NEW levels, NEW s, NEW r, NEW p \in Nat \ {0}, NEW atr \in Nat, NEW confidence,
         levels = [support |-> s, resistance |-> r], Below(s, p), Above(r, p)
  PROVE  Bracketed(Signal([direction |-> "flat", confidence |-> confidence], p, levels, atr))
<1>1. ProtectiveLevels("flat", p, levels, atr) = [stop |-> {}, target |-> {}]
  BY DEF ProtectiveLevels
<1>2. PICK signal : signal = [direction |-> "flat", confidence |-> confidence, price |-> p,
                              levels |-> levels, stop |-> {}, target |-> {}]
  OBVIOUS
<1>3. Signal([direction |-> "flat", confidence |-> confidence], p, levels, atr) = signal
  BY <1>1, <1>2 DEF Signal
<1>4. /\ signal.direction = "flat" /\ signal.price = p /\ signal.stop = {} /\ signal.target = {}
      /\ signal.levels.support = s /\ signal.levels.resistance = r
  BY <1>2
<1>5. /\ \A k \in DOMAIN s : s[k] < (IF k = 1 THEN p ELSE s[k - 1])
      /\ \A k \in DOMAIN r : r[k] > (IF k = 1 THEN p ELSE r[k - 1])
  BY DEF Below, Above
<1>6. Bracketed(signal)
  BY <1>4, <1>5 DEF Bracketed
<1> QED BY <1>3, <1>6

LEMMA Differences ==
  \A h, l, c \in Nat : l <= h => h - c \in Int /\ l - c \in Int /\ h - l \in Nat
OBVIOUS

LEMMA MaxOfThree ==
  ASSUME NEW a \in Nat, NEW b \in Nat, NEW c \in Nat
  PROVE  Max({a, b, c}) \in Nat
<1>1. PICK S : S = {a, b, c}
  OBVIOUS
<1>2. \E m \in S : \A x \in S : m >= x
  <2>1. PICK d \in {a, b} : d >= a /\ d >= b
    OBVIOUS
  <2>2. PICK m \in {d, c} : m >= d /\ m >= c
    OBVIOUS
  <2>3. m \in S /\ m >= a /\ m >= b /\ m >= c
    BY <1>1, <2>1, <2>2
  <2> QED BY <1>1, <2>3
<1>3. Max(S) \in S
  BY <1>2 DEF Max
<1> QED BY <1>1, <1>3

LEMMA AtrIs ==
  ASSUME NEW series \in Seq(HeldBar), RequiredBars <= Len(series),
         \A k \in DOMAIN series : series[k].low <= series[k].high
  PROVE  AtrOf(series) \in Nat
<1>1. PICK n \in Nat : n = Len(series) /\ DOMAIN series = 1..n
  OBVIOUS
<1>2. PICK b : b = [k \in 1..n |-> [high |-> Unit * series[k].high, low |-> Unit * series[k].low,
                                    close |-> Unit * series[k].close]]
  OBVIOUS
<1>3. \A k \in 1..n : b[k].high \in Nat /\ b[k].low \in Nat /\ b[k].close \in Nat /\ b[k].low <= b[k].high
  <2> SUFFICES ASSUME NEW k \in 1..n
               PROVE  b[k].high \in Nat /\ b[k].low \in Nat /\ b[k].close \in Nat /\ b[k].low <= b[k].high
    OBVIOUS
  <2>1. series[k] \in HeldBar
    BY <1>1
  <2>2. PICK u \in Nat, h \in Nat, l \in Nat, c \in Nat :
          u = Unit /\ h = series[k].high /\ l = series[k].low /\ c = series[k].close /\ l <= h
    BY <1>1, <2>1, LevelsAssumption DEF HeldBar
  <2>3. u * h \in Nat /\ u * l \in Nat /\ u * c \in Nat
    BY NonNegative
  <2>4. u * l <= u * h
    <3>1. PICK d \in Nat : h = l + d
      <4>1. h - l \in Nat /\ h = l + (h - l)
        BY <2>2
      <4> QED BY <4>1
    <3>2. u * h = u * l + u * d /\ u * d \in Nat
      BY <3>1, NonNegative
    <3> QED BY <2>3, <3>2
  <2>5. b[k].high = u * h /\ b[k].low = u * l /\ b[k].close = u * c
    BY <1>2, <2>2
  <2> QED BY <2>3, <2>4, <2>5
<1>4. PICK ranges : ranges = TrueRange(b) /\ DOMAIN b = 1..n
  BY <1>2
<1>5. ranges \in [1..n -> Nat]
  <2>1. ASSUME NEW k \in 1..n PROVE ranges[k] \in Nat
    <3>1. CASE k = 1
      <4>1. ranges[k] = b[k].high - b[k].low
        BY <1>4, <3>1 DEF TrueRange
      <4> QED BY <1>3, <4>1
    <3>2. CASE k # 1
      <4>1. k - 1 \in 1..n
        BY <3>2
      <4>2. PICK h \in Nat, l \in Nat, c \in Nat :
              h = b[k].high /\ l = b[k].low /\ c = b[k - 1].close /\ l <= h
        BY <1>3, <4>1
      <4>3. h - l \in Nat /\ Abs(h - c) \in Nat /\ Abs(l - c) \in Nat
        <5>1. h - c \in Int /\ l - c \in Int /\ h - l \in Nat
          BY <4>2, Differences
        <5> QED BY <5>1, AbsIs
      <4>4. ranges[k] = Max({h - l, Abs(h - c), Abs(l - c)})
        BY <1>4, <3>2, <4>2 DEF TrueRange
      <4> QED BY <4>3, <4>4, MaxOfThree
    <3> QED BY <3>1, <3>2
  <2>2. DOMAIN ranges = 1..n /\ ranges = [k \in 1..n |-> ranges[k]]
    BY <1>4 DEF TrueRange
  <2> QED BY <2>1, <2>2
<1>6. ranges \in Seq(Nat) /\ Len(ranges) = n
  BY <1>5
<1>7. PICK p \in Nat \ {0} : p = AtrBars
  BY AnalystAssumption
<1>8. PICK atr : atr = Wilder(ranges, p)
  OBVIOUS
<1>9. atr \in Seq(Nat) /\ Len(atr) = Remaining(n, p)
  <2>1. Averaging(Wilder(ranges, p), Nat, Len(ranges), p)
    BY <1>6, AverageIs
  <2> QED BY <1>6, <1>8, <2>1 DEF Averaging
<1>10. Len(atr) > 0
  <2>1. p < n
    BY <1>1, <1>7, BarsRequired, AnalystAssumption
  <2> QED BY <1>9, <2>1 DEF Remaining
<1>11. Last(atr) \in Nat
  BY <1>9, <1>10, LastIs
<1>12. AtrOf(series) = Last(atr)
  BY <1>1, <1>2, <1>4, <1>7, <1>8 DEF AtrOf, Atr
<1> QED BY <1>11, <1>12

(* A context: closed candles of every interval it has, a book, the tape. *)
Contextual(c) ==
  /\ DOMAIN c.candles \in SUBSET TrackedIntervals
  /\ \A i \in DOMAIN c.candles :
       /\ c.candles[i] \in Seq(HeldBar) /\ c.candles[i] # << >>
       /\ \A k \in DOMAIN c.candles[i] : c.candles[i][k].low <= c.candles[i][k].high
  /\ c.book = Nothing \/ c.book \in [mid : Nat \ {0}]
  /\ c.tape \in Seq([price : Nat \ {0}])

LEMMA PriceIs ==
  ASSUME NEW c, Contextual(c), DOMAIN c.candles # {}
  PROVE  ReferencePrice(c) \in Nat \ {0}
<1>1. CASE c.book # Nothing
  <2>1. c.book.mid \in Nat \ {0}
    BY <1>1 DEF Contextual
  <2> QED BY <1>1, <2>1 DEF ReferencePrice
<1>2. CASE c.book = Nothing /\ c.tape # << >>
  <2>1. PICK tape \in Seq([price : Nat \ {0}]) : tape = c.tape /\ Len(tape) > 0
    BY <1>2 DEF Contextual
  <2>2. Last(tape) \in [price : Nat \ {0}]
    BY <2>1, LastIs
  <2>3. Last(tape).price \in Nat \ {0}
    BY <2>2
  <2>4. ReferencePrice(c) = Last(tape).price
    BY <1>2, <2>1 DEF ReferencePrice
  <2> QED BY <2>3, <2>4
<1>3. CASE c.book = Nothing /\ c.tape = << >>
  <2>1. PICK held : held = {k \in DOMAIN Intervals : Intervals[k] \in DOMAIN c.candles}
    OBVIOUS
  <2>2. held \in SUBSET Nat /\ held # {}
    <3>1. PICK i : i \in DOMAIN c.candles /\ i \in TrackedIntervals
      BY DEF Contextual
    <3>2. i \in Range(Intervals)
      BY <3>1, AnalystAssumption
    <3>3. PICK k \in DOMAIN Intervals : Intervals[k] = i
      BY <3>2 DEF Range
    <3>4. DOMAIN Intervals \in SUBSET Nat
      <4>1. Intervals \in Seq(TrackedIntervals)
        BY AnalystAssumption
      <4> QED BY <4>1
    <3> QED BY <2>1, <3>1, <3>3, <3>4
  <2>3. \E m \in held : \A k \in held : m <= k
    BY <2>2, LeastNat
  <2>4. Min(held) \in held
    BY <2>3 DEF Min
  <2>5. PICK i : i = Intervals[Min(held)] /\ i \in DOMAIN c.candles
    BY <2>1, <2>4
  <2>6. PICK series \in Seq(HeldBar) : series = c.candles[i] /\ series # << >>
    BY <2>5 DEF Contextual
  <2>7. Newest(series) \in HeldBar
    BY <2>6 DEF Newest
  <2>8. PICK x \in Nat \ {0}, u \in Nat \ {0} : x = Newest(series).close /\ u = Unit
    BY <2>7, LevelsAssumption DEF HeldBar
  <2>9. u * x \in Nat \ {0}
    OBVIOUS
  <2>10. ReferencePrice(c) = u * x
    BY <1>3, <2>1, <2>5, <2>6, <2>8 DEF ReferencePrice
  <2> QED BY <2>9, <2>10
<1> QED BY <1>1, <1>2, <1>3

(* The timeframe that counts most is one that is scored. *)
LEMMA AnchorIs ==
  ASSUME NEW S \in SUBSET TrackedIntervals, S # {}
  PROVE  Anchor(S) \in S
<1>1. IsFiniteSet(S)
  BY TimeframesFinite
<1>2. PICK w : w = [i \in S |-> Weight[i]]
  OBVIOUS
<1>3. w \in [S -> Nat]
  <2>1. \A i \in S : Weight[i] \in Nat
    BY AnalystAssumption
  <2> QED BY <1>2, <2>1
<1>4. PICK n \in Nat : \A i \in S : w[i] <= n
  BY <1>1, <1>3, SumNat
<1>5. PICK W : W = {w[i] : i \in S}
  OBVIOUS
<1>6. W \in SUBSET Nat /\ W # {} /\ \A x \in W : x <= n
  BY <1>3, <1>4, <1>5
<1>7. PICK x \in W : \A y \in W : y <= x
  BY <1>6, GreatestNat
<1>8. PICK i \in S : x = w[i]
  BY <1>5
<1>9. \A j \in S : Weight[j] <= Weight[i]
  BY <1>2, <1>5, <1>7, <1>8
<1> QED BY <1>9 DEF Anchor

LEMMA SignalBracketed ==
  ASSUME NEW c, Contextual(c), Scored(c) # {}
  PROVE  Bracketed(Analyze(c))
<1>1. PICK S : S = Scored(c)
  OBVIOUS
<1>2. S \in SUBSET (DOMAIN c.candles) /\ S \in SUBSET TrackedIntervals /\ S # {}
  BY <1>1 DEF Scored, Contextual
<1>3. PICK a : a = Anchor(S) /\ a \in S
  BY <1>2, AnchorIs
<1>4. PICK series \in Seq(HeldBar) : /\ series = c.candles[a]
                                     /\ \A k \in DOMAIN series : series[k].low <= series[k].high
  BY <1>2, <1>3 DEF Contextual
<1>5. RequiredBars <= Len(series)
  <2>1. Len(c.candles[a]) >= RequiredBars
    BY <1>1, <1>3 DEF Scored
  <2> QED BY <1>4, <2>1, BarsRequired
<1>6. PICK p \in Nat \ {0} : p = ReferencePrice(c)
  BY <1>2, PriceIs
<1>7. PICK atr \in Nat : atr = AtrOf(series)
  BY <1>4, <1>5, AtrIs
<1>8. PICK s, r : DetectLevels(series, p) = [support |-> s, resistance |-> r] /\ Below(s, p) /\ Above(r, p)
  <2>1. p \in Int
    OBVIOUS
  <2> QED BY <2>1, DetectedIs
<1>9. PICK levels : levels = DetectLevels(series, p) /\ levels = [support |-> s, resistance |-> r]
  BY <1>8
<1>10. PICK composites : composites = [i \in S |-> AnalyzeTimeframe(c.candles[i]).composite]
  OBVIOUS
<1>11. PICK direction, confidence : /\ View(composites) = [direction |-> direction, confidence |-> confidence]
                                    /\ direction \in {"long", "short", "flat"}
  <2>1. FromScore(Score(composites)) \in {"long", "short", "flat"}
    BY DEF FromScore
  <2> QED BY <2>1 DEF View
<1>12. Analyze(c) = Signal([direction |-> direction, confidence |-> confidence], p, levels, atr)
  BY <1>1, <1>3, <1>4, <1>6, <1>7, <1>9, <1>10, <1>11 DEF Analyze, SignalOn
<1>13. Bracketed(Signal([direction |-> direction, confidence |-> confidence], p, levels, atr))
  BY <1>8, <1>9, <1>11, BracketedLong, BracketedShort, BracketedFlat
<1> QED BY <1>12, <1>13

ContextSpec ==
  /\ job = "context" /\ input = Nothing
  /\ [][job' = job /\ Contextual(input')]_<<job, input>>

(* "Prefers the nearest structural level" (_protective_levels): for any    *)
(* candles, book and tape of positive prices and any periods, weights and  *)
(* bounds, the stop is behind the price, the target ahead of it and, short *)
(* of one within a thousandth, ahead of no level, and the reported levels  *)
(* are on their sides, nearest first.                                      *)
THEOREM LevelsHold == ContextSpec => []LevelsBracketPrice
<1> DEFINE Valued == job = "context" /\ (input = Nothing \/ Contextual(input))
<1>1. job = "context" /\ input = Nothing => Valued
  OBVIOUS
<1>2. Valued /\ [job' = job /\ Contextual(input')]_<<job, input>> => Valued'
  <2>1. Valued /\ job' = job /\ Contextual(input') => Valued'
    BY DEF Contextual
  <2>2. Valued /\ job' = job /\ input' = input => Valued'
    BY DEF Contextual
  <2> QED BY <2>1, <2>2
<1>3. Valued => LevelsBracketPrice
  <2> SUFFICES ASSUME Contextual(input), Analyze(input) # Nothing PROVE Bracketed(Analyze(input))
    BY DEF LevelsBracketPrice, Of
  <2>1. Scored(input) # {}
    BY DEF Analyze
  <2> QED BY <2>1, SignalBracketed
<1> QED BY <1>1, <1>2, <1>3, PTL DEF ContextSpec

-----------------------------------------------------------------------------
(* Samples: the numbers of a set in order, and those taken of them.        *)

(* s is a listing of D, n long. *)
Lists(s, D, n) ==
  /\ s \in [1..n -> D]
  /\ \A x \in D : \E k \in 1..n : s[k] = x
  /\ \A j, k \in 1..n : s[j] = s[k] => j = k

LEMMA ByValueIs ==
  ASSUME NEW D, NEW p, Keyed(D, p)
  PROVE  \E n \in Nat : /\ n = Cardinality(D) /\ Lists(ByValue(p), D, n)
                        /\ \A j, k \in 1..n : j <= k => p[ByValue(p)[j]] <= p[ByValue(p)[k]]
<1>1. PICK n \in Nat : n = Cardinality(D)
  BY FS_CardinalityType DEF Keyed
<1>2. PICK s : s = [k \in 1..n |-> Nth(p, k)]
  OBVIOUS
<1>3. ByValue(p) = s
  BY <1>1, <1>2 DEF ByValue, Keyed
<1>4. \A k \in 1..n : s[k] \in D /\ Rank(p, s[k]) = k
  BY <1>1, <1>2, NthIs
<1>5. ASSUME NEW x \in D PROVE \E k \in 1..n : s[k] = x
  <2>1. PICK k : k = Rank(p, x) /\ k \in 1..n
    BY <1>1, RankIs
  <2>2. s[k] \in D /\ Rank(p, s[k]) = Rank(p, x) /\ Rank(p, x) \in Nat
    BY <1>4, <2>1
  <2>3. Rank(p, s[k]) <= Rank(p, x) /\ Rank(p, x) <= Rank(p, s[k])
    BY <2>2
  <2>4. s[k] \in UpTo(p, x) /\ x \in UpTo(p, s[k])
    BY <2>2, <2>3, RankOrders
  <2>5. Sooner(p, s[k], x) /\ Sooner(p, x, s[k])
    BY <2>4 DEF UpTo, Sooner
  <2>6. s[k] \in Int /\ x \in Int /\ p[s[k]] \in Int /\ p[x] \in Int
    BY <2>2 DEF Keyed
  <2> QED BY <2>1, <2>5, <2>6 DEF Sooner
<1>6. ASSUME NEW j \in 1..n, NEW k \in 1..n, j <= k PROVE p[s[j]] <= p[s[k]]
  <2>1. Rank(p, s[j]) <= Rank(p, s[k]) /\ s[j] \in D /\ s[k] \in D
    BY <1>4, <1>6
  <2>2. s[j] \in UpTo(p, s[k])
    BY <2>1, RankOrders
  <2>3. p[s[j]] < p[s[k]] \/ p[s[j]] = p[s[k]]
    BY <2>2 DEF UpTo
  <2>4. p[s[j]] \in Int /\ p[s[k]] \in Int
    BY <2>1 DEF Keyed
  <2> QED BY <2>3, <2>4
<1>7. Lists(s, D, n)
  <2>1. s \in [1..n -> D]
    BY <1>2, <1>4
  <2>2. \A j, k \in 1..n : s[j] = s[k] => j = k
    BY <1>4
  <2> QED BY <1>5, <2>1, <2>2 DEF Lists
<1> QED BY <1>1, <1>3, <1>6, <1>7

Upward(s, n) == \A j, k \in 1..n : j < k => s[j] < s[k]

LEMMA AscendingIs ==
  ASSUME NEW D \in SUBSET Int, IsFiniteSet(D)
  PROVE  \E n \in Nat : n = Cardinality(D) /\ Lists(Ascending(D), D, n) /\ Upward(Ascending(D), n)
<1>1. PICK p : p = [x \in D |-> x]
  OBVIOUS
<1>2. Keyed(D, p) /\ \A x \in D : p[x] = x /\ x \in Int
  BY <1>1 DEF Keyed
<1>3. PICK s : s = ByValue(p)
  OBVIOUS
<1>4. Ascending(D) = s
  BY <1>1, <1>3 DEF Ascending
<1>5. PICK n \in Nat : /\ n = Cardinality(D) /\ Lists(s, D, n)
                       /\ \A j, k \in 1..n : j <= k => p[s[j]] <= p[s[k]]
  BY <1>2, <1>3, ByValueIs
<1>6. ASSUME NEW j \in 1..n, NEW k \in 1..n, j < k PROVE s[j] < s[k]
  <2>1. s[j] \in D /\ s[k] \in D /\ s[j] # s[k]
    BY <1>5, <1>6 DEF Lists
  <2>2. p[s[j]] <= p[s[k]]
    BY <1>5, <1>6
  <2>3. PICK x \in Int, y \in Int : x = s[j] /\ y = s[k] /\ p[s[j]] = x /\ p[s[k]] = y
    BY <1>2, <2>1
  <2> QED BY <2>1, <2>2, <2>3
<1> QED BY <1>4, <1>5, <1>6 DEF Upward

Marking(v, s, n) == v = [k \in 0..n |-> IF k = 0 THEN << >> ELSE Take(v[k - 1], s[k])]
Marked(s, n) == CHOOSE v : Marking(v, s, n)

LEMMA TakeIs ==
  ASSUME NEW t \in Seq(Int), NEW i \in Int
  PROVE  Take(t, i) \in Seq(Int)
  BY DEF Take

(* What is taken of the first k. *)
LEMMA MarkedIs ==
  ASSUME NEW n \in Nat, NEW s \in [1..n -> Int]
  PROVE  \E v : /\ v[0] = << >> /\ \A k \in 1..n : v[k] = Take(v[k - 1], s[k])
                /\ MarkIndependent(s) = v[n]
<1>1. s \in Seq(Int) /\ Len(s) = n
  OBVIOUS
<1>2. MarkIndependent(s) = Marked(s, n)[n]
  BY <1>1 DEF MarkIndependent, Marked, Marking
<1>a. << >> \in Seq(Int)
  OBVIOUS
<1>3. PICK S, none : S = Seq(Int) /\ none = << >> /\ none \in S
  <2>1. PICK S, none : S = Seq(Int) /\ none = << >>
    OBVIOUS
  <2>2. none \in S
    BY <1>a, <2>1
  <2> QED BY <2>1, <2>2
<1>4. PICK step : step = [z \in (1..n) \X S |-> Take(z[2], s[z[1]])]
  OBVIOUS
<1>5. /\ step \in [(1..n) \X S -> S]
      /\ \A k \in 1..n : \A t \in S : step[<<k, t>>] = Take(t, s[k])
  <2>1. \A k \in 1..n : \A t \in S : Take(t, s[k]) \in S
    BY <1>3, TakeIs
  <2> QED BY <1>4, <2>1
<1>6. PICK h \in [0..n -> S] : Goes(h, none, step, n)
  BY <1>3, <1>5, Recursion
<1>7. Marking(h, s, n)
  <2>1. \A k \in 0..n : h[k] = IF k = 0 THEN << >> ELSE Take(h[k - 1], s[k])
    <3>1. h[0] = << >>
      BY <1>3, <1>6 DEF Goes
    <3>2. ASSUME NEW k \in 1..n PROVE h[k] = Take(h[k - 1], s[k])
      <4>1. k - 1 \in 0..n
        OBVIOUS
      <4>2. h[k - 1] \in S
        BY <1>6, <4>1
      <4> QED BY <1>5, <1>6, <4>2 DEF Goes
    <3> QED BY <3>1, <3>2
  <2> QED BY <1>6, <2>1 DEF Marking
<1>8. PICK v : v = Marked(s, n)
  OBVIOUS
<1>9. Marking(v, s, n)
  BY <1>7, <1>8 DEF Marked
<1>10. v[0] = << >> /\ \A k \in 1..n : v[k] = Take(v[k - 1], s[k])
  BY <1>9 DEF Marking
<1> QED BY <1>2, <1>8, <1>10

(* t is taken of the first k of s: its members are a horizon apart, and    *)
(* each of the first k is one of them or within a horizon of one before.   *)
Greedy(t, s, k) ==
  /\ t \in Seq(Int)
  /\ \A a \in 1..Len(t) : \E j \in 1..k : t[a] = s[j]
  /\ \A a, b \in 1..Len(t) : a < b => t[a] + Horizon <= t[b]
  /\ \A j \in 1..k : \E a \in 1..Len(t) : t[a] <= s[j] /\ s[j] < t[a] + Horizon

LEMMA GreedyStep ==
  ASSUME NEW n \in Nat, NEW s \in [1..n -> Int], Upward(s, n), NEW k \in 0..n - 1,
         NEW t, Greedy(t, s, k)
  PROVE  Greedy(Take(t, s[k + 1]), s, k + 1)
<1>1. PICK i \in Int : i = s[k + 1] /\ k + 1 \in 1..n
  OBVIOUS
<1>2. PICK H \in Nat \ {0} : H = Horizon
  BY StudyAssumption
<1>3. PICK m \in Nat : m = Len(t) /\ \A a \in 1..m : t[a] \in Int
  BY DEF Greedy
<1>4. \A j \in 1..k : s[j] < i /\ j \in 1..n /\ j \in 1..k + 1
  BY <1>1 DEF Upward
<1>5. t \in Seq(Int)
  BY DEF Greedy
<1>6. CASE t = << >> \/ i >= Last(t) + H
  <2>1. PICK u : u = Append(t, i)
    OBVIOUS
  <2>2. Take(t, i) = u
    BY <1>2, <1>6, <2>1 DEF Take
  <2>3. /\ u \in Seq(Int) /\ Len(u) = m + 1 /\ u[m + 1] = i
        /\ \A a \in 1..m : u[a] = t[a] /\ a \in 1..m + 1
    BY <1>3, <1>5, <2>1
  <2>4. \A a \in 1..m : t[a] + H <= i
    <3> SUFFICES ASSUME NEW a \in 1..m PROVE t[a] + H <= i
      OBVIOUS
    <3>1. Last(t) = t[m] /\ m \in 1..m /\ i >= t[m] + H
      BY <1>3, <1>5, <1>6 DEF Last
    <3>2. a = m \/ t[a] + H <= t[m]
      BY <1>2, <1>3, <3>1 DEF Greedy
    <3> QED BY <1>3, <3>1, <3>2
  <2>5. \A a \in 1..m + 1 : \E j \in 1..k + 1 : u[a] = s[j]
    <3> SUFFICES ASSUME NEW a \in 1..m + 1 PROVE \E j \in 1..k + 1 : u[a] = s[j]
      OBVIOUS
    <3>1. CASE a = m + 1
      BY <1>1, <2>3, <3>1
    <3>2. CASE a # m + 1
      <4>1. a \in 1..m
        BY <3>2
      <4>2. PICK j \in 1..k : t[a] = s[j]
        BY <1>3, <4>1 DEF Greedy
      <4> QED BY <1>4, <2>3, <4>1, <4>2
    <3> QED BY <3>1, <3>2
  <2>6. \A a, b \in 1..m + 1 : a < b => u[a] + H <= u[b]
    <3> SUFFICES ASSUME NEW a \in 1..m + 1, NEW b \in 1..m + 1, a < b PROVE u[a] + H <= u[b]
      OBVIOUS
    <3>1. a \in 1..m
      OBVIOUS
    <3>2. CASE b = m + 1
      BY <2>3, <2>4, <3>1, <3>2
    <3>3. CASE b # m + 1
      <4>1. b \in 1..m
        BY <3>3
      <4> QED BY <1>2, <1>3, <2>3, <3>1, <4>1 DEF Greedy
    <3> QED BY <3>2, <3>3
  <2>7. \A j \in 1..k + 1 : \E a \in 1..m + 1 : u[a] <= s[j] /\ s[j] < u[a] + H
    <3> SUFFICES ASSUME NEW j \in 1..k + 1 PROVE \E a \in 1..m + 1 : u[a] <= s[j] /\ s[j] < u[a] + H
      OBVIOUS
    <3>1. CASE j = k + 1
      <4>1. m + 1 \in 1..m + 1 /\ u[m + 1] <= s[j] /\ s[j] < u[m + 1] + H
        BY <1>1, <1>2, <2>3, <3>1
      <4> QED BY <4>1
    <3>2. CASE j # k + 1
      <4>1. j \in 1..k
        BY <3>2
      <4>2. PICK a \in 1..m : t[a] <= s[j] /\ s[j] < t[a] + H
        BY <1>2, <1>3, <4>1 DEF Greedy
      <4> QED BY <2>3, <4>2
    <3> QED BY <3>1, <3>2
  <2>8. Greedy(u, s, k + 1)
    BY <1>2, <2>3, <2>5, <2>6, <2>7 DEF Greedy
  <2> QED BY <1>1, <2>2, <2>8
<1>7. CASE ~(t = << >> \/ i >= Last(t) + H)
  <2>1. Take(t, i) = t
    BY <1>2, <1>7 DEF Take
  <2>2. Last(t) = t[m] /\ m \in 1..m /\ i < t[m] + H
    BY <1>3, <1>5, <1>7 DEF Last
  <2>3. t[m] <= i
    <3>1. PICK j \in 1..k : t[m] = s[j]
      BY <1>3, <2>2 DEF Greedy
    <3> QED BY <1>3, <1>4, <2>2, <3>1
  <2>4. \A a \in 1..Len(t) : \E j \in 1..k + 1 : t[a] = s[j]
    BY <1>4 DEF Greedy
  <2>5. \A j \in 1..k + 1 : \E a \in 1..Len(t) : t[a] <= s[j] /\ s[j] < t[a] + H
    <3> SUFFICES ASSUME NEW j \in 1..k + 1 PROVE \E a \in 1..m : t[a] <= s[j] /\ s[j] < t[a] + H
      BY <1>3
    <3>1. CASE j = k + 1
      BY <1>1, <2>2, <2>3, <3>1
    <3>2. CASE j # k + 1
      <4>1. j \in 1..k
        BY <3>2
      <4> QED BY <1>2, <1>3, <4>1 DEF Greedy
    <3> QED BY <3>1, <3>2
  <2>6. Greedy(t, s, k + 1)
    BY <1>2, <2>4, <2>5 DEF Greedy
  <2> QED BY <1>1, <2>1, <2>6
<1> QED BY <1>6, <1>7

LEMMA GreedyIs ==
  ASSUME NEW n \in Nat, NEW s \in [1..n -> Int], Upward(s, n)
  PROVE  Greedy(MarkIndependent(s), s, n)
<1>1. PICK v : /\ v[0] = << >> /\ \A k \in 1..n : v[k] = Take(v[k - 1], s[k])
               /\ MarkIndependent(s) = v[n]
  BY MarkedIs
<1> DEFINE X == {k \in 0..n : Greedy(v[k], s, k)}
<1>2. 0 \in X
  <2>1. Greedy(<< >>, s, 0)
    BY DEF Greedy
  <2>2. 0 \in 0..n
    OBVIOUS
  <2> QED BY <1>1, <2>1, <2>2
<1>3. ASSUME NEW i \in 0..(n - 1), i \in X PROVE i + 1 \in X
  <2>1. i + 1 \in 1..n /\ i + 1 \in 0..n /\ i + 1 - 1 = i /\ Greedy(v[i], s, i)
    BY <1>3
  <2>2. Greedy(Take(v[i], s[i + 1]), s, i + 1)
    BY <2>1, GreedyStep
  <2>3. v[i + 1] = Take(v[i], s[i + 1])
    BY <1>1, <2>1
  <2> QED BY <2>1, <2>2, <2>3
<1> HIDE DEF X
<1>4. 0..n \subseteq X
  BY <1>2, <1>3, Upwards
<1>5. n \in X
  BY <1>4
<1> QED BY <1>1, <1>5 DEF X

(* No other subset whose members are a horizon apart is larger: each of    *)
(* them belongs to one that was taken, and no two to the same.             *)
LEMMA GreedyIsLargest ==
  ASSUME NEW n \in Nat, NEW s \in [1..n -> Int], NEW t, Greedy(t, s, n)
  PROVE  Independent(Range(s), Range(t))
<1>1. PICK H \in Nat \ {0} : H = Horizon
  BY StudyAssumption
<1>2. PICK m \in Nat : m = Len(t) /\ \A a \in 1..m : t[a] \in Int
  BY DEF Greedy
<1>D. DOMAIN t = 1..m
  <2>1. t \in Seq(Int)
    BY DEF Greedy
  <2> QED BY <1>2, <2>1
<1>3. PICK T : T = Range(t) /\ \A x : x \in T <=> \E a \in 1..m : x = t[a]
  <2>1. \A x : x \in Range(t) <=> \E a \in 1..m : x = t[a]
    BY <1>D DEF Range
  <2> QED BY <2>1
<1>4. PICK A : A = Range(s) /\ \A x : x \in A <=> \E j \in 1..n : x = s[j]
  <2>1. DOMAIN s = 1..n
    OBVIOUS
  <2>2. \A x : x \in Range(s) <=> \E j \in 1..n : x = s[j]
    BY <2>1 DEF Range
  <2> QED BY <2>2
<1>5. T \subseteq A
  BY <1>2, <1>3, <1>4 DEF Greedy
<1>6. Apart(T)
  <2> SUFFICES ASSUME NEW x \in T, NEW y \in T, x < y PROVE x + H <= y
    BY <1>1 DEF Apart
  <2>1. PICK a \in 1..m, b \in 1..m : x = t[a] /\ y = t[b]
    BY <1>3
  <2>2. b < a => t[b] + H <= t[a]
    BY <1>1, <1>2 DEF Greedy
  <2>3. a < b
    BY <1>2, <2>1, <2>2
  <2> QED BY <1>1, <1>2, <2>1, <2>3 DEF Greedy
<1>7. IsFiniteSet(T)
  <2>1. PICK B : B = 1..m
    OBVIOUS
  <2>2. IsFiniteSet(B)
    BY <2>1, FS_Interval
  <2>3. PICK f : f = [a \in B |-> t[a]]
    OBVIOUS
  <2>4. f \in Surjection(B, T)
    BY <1>3, <2>1, <2>3 DEF Surjection
  <2> QED BY <2>2, <2>4, FS_Surjection
<1>8. ASSUME NEW S \in SUBSET A, Apart(S) PROVE Cardinality(S) <= Cardinality(T)
  <2>1. \A x \in S : \E y \in T : y <= x /\ x < y + H
    <3> SUFFICES ASSUME NEW x \in S PROVE \E y \in T : y <= x /\ x < y + H
      OBVIOUS
    <3>1. PICK j \in 1..n : x = s[j]
      BY <1>4
    <3>2. PICK a \in 1..m : t[a] <= s[j] /\ s[j] < t[a] + H
      BY <1>1, <1>2 DEF Greedy
    <3> QED BY <1>3, <3>1, <3>2
  <2>2. PICK f : f = [x \in S |-> CHOOSE y \in T : y <= x /\ x < y + H]
    OBVIOUS
  <2>3. f \in [S -> T] /\ \A x \in S : f[x] <= x /\ x < f[x] + H
    BY <2>1, <2>2
  <2>4. \A x \in S : x \in Int /\ f[x] \in Int
    <3>1. \A x \in T : x \in Int
      BY <1>2, <1>3
    <3> QED BY <1>5, <1>4, <2>3, <3>1
  <2>5. \A x, y \in S : x < y => x + H <= y
    BY <1>1, <1>8 DEF Apart
  <2>6. \A x, y \in S : f[x] = f[y] => x = y
    BY <2>3, <2>4, <2>5
  <2>7. f \in Injection(S, T)
    BY <2>3, <2>6 DEF Injection, IsInjective
  <2> QED BY <1>7, <2>7, FS_Injection
<1> QED BY <1>3, <1>4, <1>5, <1>6, <1>8 DEF Independent

LEMMA SampleIs ==
  ASSUME NEW D \in SUBSET Int, IsFiniteSet(D)
  PROVE  Independent(D, Range(MarkIndependent(Ascending(D))))
<1>1. PICK s : s = Ascending(D)
  OBVIOUS
<1>2. PICK n \in Nat : Lists(s, D, n) /\ Upward(s, n)
  BY <1>1, AscendingIs
<1>3. s \in [1..n -> Int] /\ Range(s) = D
  <2>1. s \in [1..n -> D] /\ \A x \in D : \E k \in 1..n : s[k] = x
    BY <1>2 DEF Lists
  <2>2. s \in [1..n -> Int] /\ DOMAIN s = 1..n
    BY <2>1
  <2>3. \A x : x \in Range(s) <=> \E k \in 1..n : x = s[k]
    BY <2>2 DEF Range
  <2>4. \A k \in 1..n : s[k] \in D
    BY <2>1
  <2>5. PICK R : R = Range(s) /\ \A x : x \in R <=> \E k \in 1..n : x = s[k]
    BY <2>3
  <2>6. R \subseteq D
    BY <2>4, <2>5
  <2>7. ASSUME NEW x \in D PROVE x \in R
    <3>1. PICK k \in 1..n : s[k] = x
      BY <2>1
    <3> QED BY <2>5, <3>1
  <2> QED BY <2>2, <2>5, <2>6, <2>7
<1>4. Greedy(MarkIndependent(s), s, n)
  BY <1>2, <1>3, GreedyIs
<1>5. Independent(Range(s), Range(MarkIndependent(s)))
  BY <1>3, <1>4, GreedyIsLargest
<1> QED BY <1>1, <1>3, <1>5

-----------------------------------------------------------------------------
(* The forward-horizon study: what an observation has seen.                *)

(* The newest of those settled by the close of bar i; all of them if they  *)
(* are fewer than a window.                                                *)
LEMMA FundingByIs ==
  ASSUME NEW funding \in SUBSET Int, IsFiniteSet(funding), NEW i \in Int
  PROVE  /\ \A t \in Range(FundingBy(funding, i)) : t < 2 * (i + 1)
         /\ Len(FundingBy(funding, i)) < StudyWindow =>
              \A t \in funding \ Range(FundingBy(funding, i)) : t >= 2 * (i + 1)
<1>1. PICK F : F = {t \in funding : t <= 2 * i + 1}
  OBVIOUS
<1>2. F \in SUBSET Int /\ IsFiniteSet(F)
  BY <1>1, FS_Subset
<1>3. PICK s : s = Ascending(F)
  OBVIOUS
<1>4. PICK n \in Nat : Lists(s, F, n)
  BY <1>2, <1>3, AscendingIs
<1>5. s \in Seq(F) /\ Len(s) = n /\ DOMAIN s = 1..n /\ \A x \in F : \E k \in 1..n : s[k] = x
  BY <1>4 DEF Lists
<1>6. PICK W \in Nat \ {0} : W = StudyWindow
  BY StudyAssumption
<1>7. PICK d \in Nat : d = (IF 0 >= n - W THEN 0 ELSE n - W)
  OBVIOUS
<1>8. FundingBy(funding, i) = SubSeq(s, d + 1, n)
  <2>1. Max({0, n - W}) = d
    BY <1>7, MaxOfTwo
  <2>2. Len(s) - StudyWindow = n - W
    BY <1>5, <1>6
  <2>3. FundingBy(funding, i) = SubSeq(s, Max({0, Len(s) - StudyWindow}) + 1, Len(s))
    BY <1>1, <1>3 DEF FundingBy
  <2> QED BY <1>5, <2>1, <2>2, <2>3
<1>9. CASE n = 0
  <2>1. d = 0 /\ s = << >> /\ F = {}
    BY <1>5, <1>6, <1>7, <1>9
  <2>2. SubSeq(s, d + 1, n) = << >>
    BY <1>9, <2>1
  <2>3. Range(FundingBy(funding, i)) = {}
    <3>1. DOMAIN << >> = {}
      OBVIOUS
    <3>2. Range(<< >>) = {}
      BY <3>1 DEF Range
    <3> QED BY <1>8, <2>2, <3>2
  <2>4. \A t \in funding : t \in Int /\ ~(t <= 2 * i + 1)
    BY <1>1, <2>1
  <2> QED BY <2>3, <2>4
<1>10. CASE n # 0
  <2>1. d + 1 \in Nat /\ 1 <= d + 1 /\ d + 1 <= n
    BY <1>6, <1>7, <1>10
  <2>2. PICK w \in Seq(F) : /\ w = SubSeq(s, d + 1, n) /\ Len(w) = n - d
                            /\ \A k \in 1..n - d : w[k] = s[d + k]
    <3>a. PICK b \in Nat : b = d + 1 /\ 1 <= b /\ b <= n
      BY <2>1
    <3>b. s \in Seq(F) /\ n <= Len(s)
      BY <1>5
    <3>1. /\ SubSeq(s, b, n) \in Seq(F) /\ Len(SubSeq(s, b, n)) = n - b + 1
          /\ \A k \in 1..n - b + 1 : SubSeq(s, b, n)[k] = s[b + k - 1]
      BY <3>a, <3>b, PartOf
    <3>2. PICK w \in Seq(F) : /\ w = SubSeq(s, b, n) /\ Len(w) = n - b + 1
                              /\ \A k \in 1..n - b + 1 : w[k] = s[b + k - 1]
      BY <3>1
    <3>3. n - b + 1 = n - d /\ \A k \in 1..n - d : b + k - 1 = d + k
      BY <3>a
    <3>4. \A k \in 1..n - d : w[k] = s[d + k]
      BY <3>2, <3>3
    <3> QED BY <3>a, <3>2, <3>3, <3>4
  <2>3. DOMAIN w = 1..n - d
    BY <2>2
  <2>4. PICK R : R = Range(w) /\ \A x : x \in R <=> \E k \in 1..n - d : x = w[k]
    <3>1. \A x : x \in Range(w) <=> \E k \in 1..n - d : x = w[k]
      BY <2>3 DEF Range
    <3> QED BY <3>1
  <2>5. R \subseteq F
    BY <2>2, <2>3, <2>4
  <2>6. \A t \in F : t \in Int /\ t <= 2 * i + 1
    BY <1>1, <1>2
  <2>7. \A t \in R : t < 2 * (i + 1)
    BY <2>5, <2>6
  <2>8. ASSUME n - d < W, NEW t \in funding, t \notin R PROVE t >= 2 * (i + 1)
    <3>1. d = 0
      BY <1>7, <2>8
    <3>2. t \notin F
      <4> SUFFICES ASSUME t \in F PROVE FALSE
        OBVIOUS
      <4>1. PICK k \in 1..n : s[k] = t
        BY <1>5
      <4>2. k \in 1..n - d /\ d + k = k
        BY <3>1
      <4>3. w[k] = t
        BY <2>2, <4>1, <4>2
      <4> QED BY <2>4, <2>8, <4>2, <4>3
    <3>3. t \in Int /\ ~(t <= 2 * i + 1)
      BY <1>1, <3>2
    <3> QED BY <3>3
  <2> QED BY <1>6, <1>8, <2>2, <2>4, <2>7, <2>8
<1> QED BY <1>9, <1>10

LEMMA StudyIs ==
  ASSUME NEW n \in Nat, NEW fires \in SUBSET (0..n - 1),
         NEW funding \in SUBSET Int, IsFiniteSet(funding),
         NEW st, st = Study(n, fires, funding)
  PROVE  /\ Independent({st.all[k].index : k \in DOMAIN st.all}, Range(st.independent))
         /\ \A k \in DOMAIN st.all : Unpeeking(st.all[k], n, funding)
<1>1. PICK D : D = fires \cap (MinBars - 1..n - Horizon - 1)
  OBVIOUS
<1>2. PICK H \in Nat \ {0}, W \in Nat \ {0}, B \in Nat \ {0} : H = Horizon /\ W = StudyWindow /\ B = MinBars
  BY StudyAssumption
<1>3. D \in SUBSET Int /\ IsFiniteSet(D) /\ \A i \in D : i \in Nat /\ i <= n - H - 1
  <2>1. PICK N : N = 0..n - 1
    OBVIOUS
  <2>2. IsFiniteSet(N)
    BY <2>1, FS_Interval
  <2>3. D \in SUBSET N
    BY <1>1, <2>1
  <2>4. IsFiniteSet(D)
    BY <2>2, <2>3, FS_Subset
  <2>5. \A i \in N : i \in Nat /\ i \in Int
    BY <2>1
  <2>6. \A i \in D : i <= n - H - 1
    BY <1>1, <1>2
  <2> QED BY <2>3, <2>4, <2>5, <2>6
<1>4. PICK s : s = Ascending(D)
  OBVIOUS
<1>5. PICK m \in Nat : Lists(s, D, m)
  BY <1>3, <1>4, AscendingIs
<1>6. s \in [1..m -> D] /\ \A x \in D : \E k \in 1..m : s[k] = x
  BY <1>5 DEF Lists
<1>7. PICK o : o = [k \in 1..m |->
                      [index |-> s[k], exit |-> s[k] + Horizon, bars |-> Max({0, s[k] + 1 - StudyWindow})..s[k],
                       funding |-> FundingBy(funding, s[k])]]
  OBVIOUS
<1>8. Observations(n, fires, funding) = o
  BY <1>1, <1>4, <1>6, <1>7 DEF Observations
<1>9. st = [all |-> o, independent |-> MarkIndependent([k \in DOMAIN o |-> o[k].index])]
  BY <1>8 DEF Study
<1>10. DOMAIN o = 1..m /\ \A k \in 1..m : o[k].index = s[k]
  BY <1>7
<1>11. [k \in DOMAIN o |-> o[k].index] = s
  BY <1>6, <1>10
<1>12. {o[k].index : k \in DOMAIN o} = D
  <2>1. \A k \in 1..m : o[k].index \in D
    BY <1>6, <1>10
  <2>2. \A x \in D : \E k \in 1..m : o[k].index = x
    BY <1>6, <1>10
  <2> QED BY <1>10, <2>1, <2>2
<1>13. Independent(D, Range(MarkIndependent(s)))
  BY <1>3, <1>4, SampleIs
<1>14. ASSUME NEW k \in 1..m PROVE Unpeeking(o[k], n, funding)
  <2>1. PICK i \in D : i = s[k]
    BY <1>6
  <2>2. i \in Nat /\ i <= n - H - 1
    BY <1>3
  <2>3. PICK low \in Nat : low = Max({0, i + 1 - W}) /\ low <= i
    <3>1. Max({0, i + 1 - W}) = IF 0 >= i + 1 - W THEN 0 ELSE i + 1 - W
      BY <2>2, MaxOfTwo
    <3> QED BY <2>2, <3>1
  <2>4. PICK f : f = FundingBy(funding, i)
    OBVIOUS
  <2>5. o[k] = [index |-> i, exit |-> i + H, bars |-> low..i, funding |-> f]
    BY <1>2, <1>7, <2>1, <2>3, <2>4
  <2>6. low..i \subseteq 0..i /\ i \in low..i /\ i + H \in i + 1..n - 1
    BY <2>2, <2>3
  <2>7. /\ \A t \in Range(f) : t < 2 * (i + 1)
        /\ Len(f) < StudyWindow => \A t \in funding \ Range(f) : t >= 2 * (i + 1)
    BY <2>2, <2>4, FundingByIs
  <2> QED BY <2>5, <2>6, <2>7 DEF Unpeeking
<1>15. st.all = o /\ st.independent = MarkIndependent(s)
  BY <1>9, <1>11
<1> QED BY <1>10, <1>12, <1>13, <1>14, <1>15

-----------------------------------------------------------------------------
(* The rebalances: who is bought and who is sold.                          *)

FiniteInts == {S \in SUBSET Int : IsFiniteSet(S)}

(* Symbols with positive closes on any days. *)
Quoted(closes) ==
  /\ DOMAIN closes \in FiniteInts
  /\ \A s \in DOMAIN closes : DOMAIN closes[s] \in FiniteInts /\ closes[s] \in [DOMAIN closes[s] -> Nat \ {0}]

LEMMA LessTimes ==
  ASSUME NEW a \in Int, NEW b \in Int, NEW c \in Nat \ {0}
  PROVE  a < b <=> c * a < c * b
  OBVIOUS

LEMMA Across ==
  ASSUME NEW a \in Nat, NEW b \in Nat, NEW c \in Nat
  PROVE  a * (b * c) = b * (a * c) /\ a * b \in Nat /\ a * b = b * a
  OBVIOUS

(* x / u < y / v < z / w *)
LEMMA ReturnsOrder ==
  ASSUME NEW x \in Nat \ {0}, NEW u \in Nat \ {0}, NEW y \in Nat \ {0}, NEW v \in Nat \ {0},
         NEW z \in Nat \ {0}, NEW w \in Nat \ {0}, x * v < y * u, y * w < z * v
  PROVE  x * w < z * u
<1>1. PICK xv \in Nat, yu \in Nat, yw \in Nat, zv \in Nat, xw \in Nat, zu \in Nat :
        xv = x * v /\ yu = y * u /\ yw = y * w /\ zv = z * v /\ xw = x * w /\ zu = z * u
  <2>1. x * v \in Nat /\ y * u \in Nat /\ y * w \in Nat /\ z * v \in Nat /\ x * w \in Nat /\ z * u \in Nat
    BY Across
  <2> QED BY <2>1
<1>2. w * xv < w * yu /\ u * yw < u * zv
  BY <1>1, LessTimes
<1>3. w * xv = v * xw
  <2>1. w * (x * v) = x * (w * v) /\ v * (x * w) = x * (v * w) /\ w * v = v * w
    BY Across
  <2> QED BY <1>1, <2>1
<1>4. w * yu = u * yw
  <2>1. w * (y * u) = y * (w * u) /\ u * (y * w) = y * (u * w) /\ w * u = u * w
    BY Across
  <2> QED BY <1>1, <2>1
<1>5. u * zv = v * zu
  <2>1. u * (z * v) = z * (u * v) /\ v * (z * u) = z * (v * u) /\ u * v = v * u
    BY Across
  <2> QED BY <1>1, <2>1
<1>6. w * yu \in Int /\ v * xw \in Int /\ v * zu \in Int
  OBVIOUS
<1>7. v * xw < v * zu
  BY <1>2, <1>3, <1>4, <1>5, <1>6
<1> QED BY <1>1, <1>7, LessTimes

(* The symbols by rising return. *)
LEMMA RankedIs ==
  ASSUME NEW closes, Quoted(closes), NEW days, NEW k
  PROVE  \E n \in Nat :
           /\ Lists(Ranked(closes, days, k), Able(closes, days, k), n)
           /\ \A i, j \in 1..n : i <= j =>
                ~Outdoes(closes, days, k, Ranked(closes, days, k)[i], Ranked(closes, days, k)[j])
<1>1. PICK A : A = Able(closes, days, k)
  OBVIOUS
<1>2. /\ A \in SUBSET (DOMAIN closes) /\ A \in SUBSET Int /\ IsFiniteSet(A)
      /\ \A s \in A : days[k] \in DOMAIN closes[s] /\ days[k - RankLookback] \in DOMAIN closes[s]
  <2>1. A \in SUBSET (DOMAIN closes)
    BY <1>1 DEF Able
  <2>2. A \in SUBSET Int /\ IsFiniteSet(A)
    BY <2>1, FS_Subset DEF Quoted, FiniteInts
  <2>3. \A s \in A : days[k] \in DOMAIN closes[s] /\ days[k - RankLookback] \in DOMAIN closes[s]
    BY <1>1 DEF Able, DaysOf
  <2> QED BY <2>1, <2>2, <2>3
<1>3. PICK x, u : x = [s \in A |-> closes[s][days[k]]] /\ u = [s \in A |-> closes[s][days[k - RankLookback]]]
  OBVIOUS
<1>4. \A s \in A : x[s] \in Nat \ {0} /\ u[s] \in Nat \ {0}
  BY <1>2, <1>3 DEF Quoted
<1>5. \A s, t \in A : Outdoes(closes, days, k, s, t) <=> x[t] * u[s] < x[s] * u[t]
  BY <1>3 DEF Outdoes
<1>6. PICK p : p = [s \in A |-> Cardinality({t \in A : Outdoes(closes, days, k, s, t)})]
  OBVIOUS
<1>7. \A s \in A : /\ IsFiniteSet({t \in A : Outdoes(closes, days, k, s, t)})
                   /\ p[s] = Cardinality({t \in A : Outdoes(closes, days, k, s, t)}) /\ p[s] \in Nat
  <2> SUFFICES ASSUME NEW s \in A
               PROVE  /\ IsFiniteSet({t \in A : Outdoes(closes, days, k, s, t)})
                      /\ p[s] = Cardinality({t \in A : Outdoes(closes, days, k, s, t)}) /\ p[s] \in Nat
    OBVIOUS
  <2>1. {t \in A : Outdoes(closes, days, k, s, t)} \in SUBSET A
    OBVIOUS
  <2>2. IsFiniteSet({t \in A : Outdoes(closes, days, k, s, t)})
    BY <1>2, <2>1, FS_Subset
  <2> QED BY <1>6, <2>2, FS_CardinalityType
<1>8. Keyed(A, p)
  <2>a. \A s \in A : p[s] \in Nat
    BY <1>7, Zenon
  <2>1. \A s \in A : p[s] \in Int
    BY <2>a
  <2> QED BY <1>2, <1>6, <2>1 DEF Keyed
<1>9. ASSUME NEW s \in A, NEW l \in A, Outdoes(closes, days, k, s, l) PROVE p[l] < p[s]
  <2>a. PICK P : /\ P = {t \in A : Outdoes(closes, days, k, l, t)}
                 /\ IsFiniteSet(P) /\ p[l] = Cardinality(P) /\ p[l] \in Nat
    <3>1. /\ IsFiniteSet({t \in A : Outdoes(closes, days, k, l, t)})
          /\ p[l] = Cardinality({t \in A : Outdoes(closes, days, k, l, t)}) /\ p[l] \in Nat
      BY <1>7, Zenon
    <3> QED BY <3>1
  <2>b. PICK Q : /\ Q = {t \in A : Outdoes(closes, days, k, s, t)}
                 /\ IsFiniteSet(Q) /\ p[s] = Cardinality(Q) /\ p[s] \in Nat
    BY <1>7
  <2>1. /\ P = {t \in A : Outdoes(closes, days, k, l, t)} /\ Q = {t \in A : Outdoes(closes, days, k, s, t)}
        /\ IsFiniteSet(P) /\ IsFiniteSet(Q) /\ p[l] = Cardinality(P) /\ p[s] = Cardinality(Q)
        /\ p[l] \in Nat /\ p[s] \in Nat
    BY <2>a, <2>b
  <2>2. P \subseteq Q
    <3> SUFFICES ASSUME NEW t \in A, Outdoes(closes, days, k, l, t) PROVE Outdoes(closes, days, k, s, t)
      BY <2>1
    <3>1. x[t] * u[l] < x[l] * u[t] /\ x[l] * u[s] < x[s] * u[l]
      BY <1>5, <1>9
    <3>2. x[t] * u[s] < x[s] * u[t]
      BY <1>4, <3>1, ReturnsOrder
    <3> QED BY <1>5, <3>2
  <2>3. l \in Q /\ l \notin P
    <3>1. x[l] * u[l] \in Int
      <4>1. x[l] \in Nat /\ u[l] \in Nat
        BY <1>4
      <4>2. x[l] * u[l] \in Nat
        BY <4>1, Across
      <4> QED BY <4>2
    <3>2. ~(x[l] * u[l] < x[l] * u[l])
      BY <3>1
    <3> QED BY <1>5, <1>9, <2>1, <3>2
  <2>4. P # Q
    BY <2>3
  <2>5. Cardinality(P) <= Cardinality(Q) /\ Cardinality(P) # Cardinality(Q)
    BY <2>1, <2>2, <2>4, FS_Subset
  <2> QED BY <2>1, <2>5
<1>10. PICK r : r = Ranked(closes, days, k)
  OBVIOUS
<1>11. r = ByValue(p)
  BY <1>1, <1>6, <1>10 DEF Ranked
<1>12. PICK n \in Nat : Lists(r, A, n) /\ \A i, j \in 1..n : i <= j => p[r[i]] <= p[r[j]]
  BY <1>8, <1>11, ByValueIs
<1>13. ASSUME NEW i \in 1..n, NEW j \in 1..n, i <= j PROVE ~Outdoes(closes, days, k, r[i], r[j])
  <2>1. r[i] \in A /\ r[j] \in A
    BY <1>12 DEF Lists
  <2>2. p[r[i]] <= p[r[j]] /\ p[r[i]] \in Nat /\ p[r[j]] \in Nat
    BY <1>7, <1>12, <1>13, <2>1
  <2> QED BY <1>9, <2>1, <2>2
<1> QED BY <1>1, <1>10, <1>12, <1>13

(* R has those from a to b of s. *)
Stretch(R, s, a, b) == (\A x : x \in R <=> \E j \in a..b : x = s[j]) /\ Cardinality(R) = b - a + 1

LEMMA PartLists ==
  ASSUME NEW D, NEW n \in Nat, NEW s, Lists(s, D, n), NEW a \in Nat, NEW b \in Nat, 1 <= a, a <= b, b <= n
  PROVE  Stretch(Range(SubSeq(s, a, b)), s, a, b)
<1>1. s \in Seq(D) /\ Len(s) = n
  BY DEF Lists
<1>2. PICK w \in Seq(D) : /\ w = SubSeq(s, a, b) /\ Len(w) = b - a + 1
                          /\ \A k \in 1..b - a + 1 : w[k] = s[a + k - 1]
  <2>1. b <= Len(s)
    BY <1>1
  <2>2. /\ SubSeq(s, a, b) \in Seq(D) /\ Len(SubSeq(s, a, b)) = b - a + 1
        /\ \A k \in 1..b - a + 1 : SubSeq(s, a, b)[k] = s[a + k - 1]
    BY <1>1, <2>1, PartOf
  <2> QED BY <2>2
<1>3. DOMAIN w = 1..b - a + 1
  BY <1>2
<1>4. PICK R : R = Range(w) /\ \A x : x \in R <=> \E k \in 1..b - a + 1 : x = w[k]
  <2>1. \A x : x \in Range(w) <=> \E k \in 1..b - a + 1 : x = w[k]
    BY <1>3 DEF Range
  <2> QED BY <2>1
<1>5. ASSUME NEW x PROVE x \in R <=> \E j \in a..b : x = s[j]
  <2>1. ASSUME x \in R PROVE \E j \in a..b : x = s[j]
    <3>1. PICK k \in 1..b - a + 1 : x = w[k]
      BY <1>4, <2>1
    <3>2. a + k - 1 \in a..b /\ x = s[a + k - 1]
      BY <1>2, <3>1
    <3> QED BY <3>2
  <2>2. ASSUME NEW j \in a..b, x = s[j] PROVE x \in R
    <3>1. j - a + 1 \in 1..b - a + 1 /\ a + (j - a + 1) - 1 = j
      OBVIOUS
    <3>2. x = w[j - a + 1]
      BY <1>2, <2>2, <3>1
    <3> QED BY <1>4, <3>1, <3>2
  <2> QED BY <2>1, <2>2
<1>6. PICK B : B = a..b
  OBVIOUS
<1>7. IsFiniteSet(B) /\ Cardinality(B) = b - a + 1
  <2>1. IsFiniteSet(a..b) /\ Cardinality(a..b) = IF a > b THEN 0 ELSE b - a + 1
    BY FS_Interval
  <2> QED BY <1>6, <2>1
<1>8. PICK f : f = [j \in B |-> s[j]]
  OBVIOUS
<1>9. f \in Surjection(B, R)
  BY <1>5, <1>6, <1>8 DEF Surjection
<1>10. f \in Injection(B, R)
  <2>1. \A i, j \in B : i \in 1..n /\ j \in 1..n
    BY <1>6
  <2>2. \A i, j \in B : f[i] = f[j] => i = j
    BY <1>8, <2>1 DEF Lists
  <2>3. f \in [B -> R]
    BY <1>9 DEF Surjection
  <2> QED BY <2>2, <2>3 DEF Injection, IsInjective
<1>11. Cardinality(R) = Cardinality(B)
  BY <1>7, <1>9, <1>10, FS_Surjection
<1> QED BY <1>2, <1>4, <1>5, <1>6, <1>7, <1>11 DEF Stretch

LEMMA LegsAligned ==
  ASSUME NEW closes, Quoted(closes), NEW days, days = Calendar(closes), NEW k,
         2 <= MinSymbols, Len(Ranked(closes, days, k)) >= MinSymbols
  PROVE  Aligned(closes, Legs(Ranked(closes, days, k), k))
<1>1. PICK r, A : r = Ranked(closes, days, k) /\ A = Able(closes, days, k)
  OBVIOUS
<1>2. PICK n \in Nat : /\ Lists(r, A, n)
                       /\ \A i, j \in 1..n : i <= j => ~Outdoes(closes, days, k, r[i], r[j])
  BY <1>1, RankedIs
<1>3. r \in Seq(A) /\ Len(r) = n
  BY <1>2 DEF Lists
<1>4. n >= 2
  <2>1. MinSymbols \in Nat
    BY StudyAssumption
  <2> QED BY <1>1, <1>3, <2>1
<1>5. PICK h \in Nat : h = Max({1, (n * QuantilePct) \div 100}) /\ 1 <= h /\ 2 * h <= n
  <2>1. PICK q \in Nat : q = QuantilePct /\ q <= 50
    BY StudyAssumption
  <2>2. PICK y \in Nat : y = n * q /\ y <= 50 * n
    <3>1. q * n <= 50 * n
      BY <2>1, Wider
    <3> QED BY <3>1
  <2>3. PICK z \in Nat : z = y \div 100 /\ 2 * z <= n
    BY <2>2
  <2>4. Max({1, z}) = IF 1 >= z THEN 1 ELSE z
    BY MaxOfTwo
  <2> QED BY <1>4, <2>1, <2>2, <2>3, <2>4
<1>6. PICK shorts, longs : shorts = Range(SubSeq(r, 1, h)) /\ longs = Range(SubSeq(r, n - h + 1, n))
  OBVIOUS
<1>7. Legs(r, k) = [index |-> k, shorts |-> shorts, longs |-> longs]
  BY <1>3, <1>5, <1>6 DEF Legs
<1>8. (\A x : x \in shorts <=> \E j \in 1..h : x = r[j]) /\ Cardinality(shorts) = h
  <2>1. 1 \in Nat /\ 1 <= 1 /\ 1 <= h /\ h <= n
    BY <1>5
  <2>a. Lists(r, A, n)
    BY <1>2
  <2>2. Stretch(shorts, r, 1, h)
    BY <1>6, <2>a, <2>1, PartLists
  <2> QED BY <2>2 DEF Stretch
<1>9. (\A x : x \in longs <=> \E j \in n - h + 1..n : x = r[j]) /\ Cardinality(longs) = h
  <2>1. PICK a \in Nat : a = n - h + 1 /\ 1 <= a /\ a <= n
    BY <1>5
  <2>a. Lists(r, A, n) /\ n <= n
    BY <1>2
  <2>2. Stretch(longs, r, a, n)
    BY <1>6, <2>a, <2>1, PartLists
  <2>3. n - a + 1 = h
    BY <2>1
  <2> QED BY <2>1, <2>2, <2>3 DEF Stretch
<1>10. ASSUME NEW l \in longs, NEW s \in shorts
       PROVE  l # s /\ l \in A /\ s \in A /\ ~Outdoes(closes, days, k, s, l)
  <2>1. PICK i \in n - h + 1..n : l = r[i]
    BY <1>9
  <2>2. PICK j \in 1..h : s = r[j]
    BY <1>8
  <2>3. i \in 1..n /\ j \in 1..n /\ j < i
    BY <1>5
  <2>4. r[i] \in A /\ r[j] \in A /\ r[i] # r[j]
    BY <1>2, <2>3 DEF Lists
  <2>5. ~Outdoes(closes, days, k, r[j], r[i])
    BY <1>2, <2>3
  <2> QED BY <2>1, <2>2, <2>4, <2>5
<1>11. longs # {} /\ shorts # {}
  <2>1. 1 \in 1..h /\ n \in n - h + 1..n
    BY <1>5
  <2> QED BY <1>8, <1>9, <2>1
<1>12. \A s \in longs \cup shorts : s \in A
  BY <1>10, <1>11
<1>13. \A s \in A : DaysOf(days, k) \subseteq DOMAIN closes[s] /\ s \in DOMAIN closes
  BY <1>1 DEF Able
<1>14. PICK at : at = {days[k - RankLookback], days[k], days[k + Horizon]} /\ at = DaysOf(days, k)
  BY DEF DaysOf
<1>15. \A s \in longs \cup shorts : at \subseteq DOMAIN closes[s]
  BY <1>12, <1>13, <1>14
<1>16. ASSUME NEW l \in longs, NEW s \in shorts
       PROVE  closes[l][days[k]] * closes[s][days[k - RankLookback]]
                >= closes[s][days[k]] * closes[l][days[k - RankLookback]]
  <2>1. PICK x \in Nat, u \in Nat, y \in Nat, v \in Nat :
          /\ x = closes[l][days[k]] /\ u = closes[s][days[k - RankLookback]]
          /\ y = closes[s][days[k]] /\ v = closes[l][days[k - RankLookback]]
    <3>1. l \in A /\ s \in A
      BY <1>10
    <3>2. \A z \in A : closes[z][days[k]] \in Nat /\ closes[z][days[k - RankLookback]] \in Nat
      BY <1>13 DEF Quoted, DaysOf
    <3> QED BY <3>1, <3>2
  <2>2. ~(x * u < y * v)
    BY <1>10, <2>1 DEF Outdoes
  <2>3. x * u \in Nat /\ y * v \in Nat
    BY Across
  <2>4. x * u >= y * v
    BY <2>2, <2>3
  <2> QED BY <2>1, <2>4
<1>17. longs \cap shorts = {} /\ Cardinality(longs) = Cardinality(shorts)
  BY <1>8, <1>9, <1>10
<1>18. PICK g : g = [index |-> k, shorts |-> shorts, longs |-> longs]
  OBVIOUS
<1>19. g.index = k /\ g.shorts = shorts /\ g.longs = longs
  BY <1>18
<1>20. Aligned(closes, g)
  BY <1>14, <1>15, <1>16, <1>17, <1>19 DEF Aligned
<1> QED BY <1>1, <1>7, <1>18, <1>20

LEMMA RebalancesIs ==
  ASSUME NEW closes, Quoted(closes), 2 <= MinSymbols, NEW rb, rb = Rebalances(closes)
  PROVE  /\ Independent({rb.all[k].index : k \in DOMAIN rb.all}, Range(rb.independent))
         /\ \A k \in DOMAIN rb.all : Aligned(closes, rb.all[k])
<1>1. PICK days : days = Calendar(closes)
  OBVIOUS
<1>2. PICK D : D = {k \in RankLookback + 1..Len(days) - Horizon : Len(Ranked(closes, days, k)) >= MinSymbols}
  OBVIOUS
<1>3. Len(days) \in Nat
  <2>1. PICK F : F = {DOMAIN closes[s] : s \in DOMAIN closes}
    OBVIOUS
  <2>2. IsFiniteSet(F)
    <3>1. PICK S : S = DOMAIN closes /\ IsFiniteSet(S)
      BY DEF Quoted, FiniteInts
    <3>2. PICK f : f = [s \in S |-> DOMAIN closes[s]]
      OBVIOUS
    <3>3. f \in Surjection(S, F)
      BY <2>1, <3>1, <3>2 DEF Surjection
    <3> QED BY <3>1, <3>3, FS_Surjection
  <2>3. \A X \in F : X \in SUBSET Int /\ IsFiniteSet(X)
    BY <2>1 DEF Quoted, FiniteInts
  <2>4. UNION F \in SUBSET Int /\ IsFiniteSet(UNION F)
    BY <2>2, <2>3, FS_UNION
  <2>5. PICK U : U = UNION F /\ U \in SUBSET Int /\ IsFiniteSet(U)
    BY <2>4
  <2>6. days = Ascending(U)
    BY <1>1, <2>1, <2>5 DEF Calendar
  <2>7. PICK n \in Nat : Lists(days, U, n)
    BY <2>5, <2>6, AscendingIs
  <2>8. days \in Seq(U)
    BY <2>7 DEF Lists
  <2> QED BY <2>8
<1>4. D \in SUBSET Int /\ IsFiniteSet(D)
  <2>1. PICK a \in Int, b \in Int : a = RankLookback + 1 /\ b = Len(days) - Horizon
    BY <1>3, StudyAssumption
  <2>2. PICK N : N = a..b
    OBVIOUS
  <2>3. IsFiniteSet(N) /\ N \in SUBSET Int
    BY <2>2, FS_Interval
  <2>4. D \in SUBSET N
    BY <1>2, <2>1, <2>2
  <2>5. IsFiniteSet(D)
    BY <2>3, <2>4, FS_Subset
  <2> QED BY <2>3, <2>4, <2>5
<1>5. PICK s : s = Ascending(D)
  OBVIOUS
<1>6. PICK m \in Nat : Lists(s, D, m)
  BY <1>4, <1>5, AscendingIs
<1>7. s \in [1..m -> D] /\ \A x \in D : \E k \in 1..m : s[k] = x
  BY <1>6 DEF Lists
<1>8. PICK o : o = [j \in 1..m |-> Legs(Ranked(closes, days, s[j]), s[j])]
  OBVIOUS
<1>9. rb = [all |-> o, independent |-> MarkIndependent(s)]
  BY <1>1, <1>2, <1>5, <1>7, <1>8 DEF Rebalances
<1>10. rb.all = o /\ rb.independent = MarkIndependent(s) /\ DOMAIN o = 1..m
  BY <1>8, <1>9
<1>11. \A k \in 1..m : o[k].index = s[k]
  BY <1>8 DEF Legs
<1>12. {o[k].index : k \in DOMAIN o} = D
  <2>1. \A k \in 1..m : o[k].index \in D
    BY <1>7, <1>11
  <2>2. \A x \in D : \E k \in 1..m : o[k].index = x
    BY <1>7, <1>11
  <2> QED BY <1>10, <2>1, <2>2
<1>13. Independent(D, Range(MarkIndependent(s)))
  BY <1>4, <1>5, SampleIs
<1>14. ASSUME NEW k \in 1..m PROVE Aligned(closes, o[k])
  <2>1. s[k] \in D
    BY <1>7
  <2>2. Len(Ranked(closes, days, s[k])) >= MinSymbols
    BY <1>2, <2>1
  <2>3. Aligned(closes, Legs(Ranked(closes, days, s[k]), s[k]))
    BY <1>1, <2>2, LegsAligned
  <2> QED BY <1>8, <2>3
<1> QED BY <1>10, <1>12, <1>13, <1>14

-----------------------------------------------------------------------------
(* Carry, held over and over.                                              *)

OneMore(D, f, T, x, U) ==
  f \in [D -> Int] /\ T \in SUBSET D /\ IsFiniteSet(T) /\ x \in D /\ x \notin T /\ U = T \cup {x}

LEMMA SumMore ==
  ASSUME NEW D, NEW f, NEW T, NEW x, NEW U, OneMore(D, f, T, x, U)
  PROVE  /\ SumOf(Part(f, U)) = f[x] + SumOf(Part(f, T))
         /\ SumOf(Part(f, T)) \in Int /\ IsFiniteSet(U)
<1> USE DEF OneMore
<1>a. (T \cup {x}) \ {x} = T
  OBVIOUS
<1>1. U = T \cup {x} /\ U \ {x} = T /\ x \in U
  BY <1>a
<1>2. IsFiniteSet(U)
  BY <1>1, FS_AddElement
<1>3. PICK g : g = [i \in U |-> f[i]]
  OBVIOUS
<1>4. g \in [U -> Int] /\ g[x] = f[x]
  BY <1>1, <1>3
<1>5. /\ SumOf(g) = g[x] + SumOf([i \in U \ {x} |-> g[i]])
      /\ SumOf([i \in U \ {x} |-> g[i]]) \in Int
  BY <1>1, <1>2, <1>4, SumSplit
<1>6. [i \in U \ {x} |-> g[i]] = [i \in T |-> f[i]]
  BY <1>1, <1>3
<1>7. Part(f, T) = [i \in T |-> f[i]] /\ Part(f, U) = g
  BY <1>3 DEF Part
<1> QED BY <1>1, <1>2, <1>4, <1>5, <1>6, <1>7

Adding(c, rates, n) == c = [k \in 0..n |-> IF k = 0 THEN 0 ELSE c[k - 1] + rates[k - 1]]
Cumulated(rates, n) == CHOOSE c : Adding(c, rates, n)

LEMMA CumulatedIs ==
  ASSUME NEW n \in Nat, NEW rates \in [0..n - 1 -> Int]
  PROVE  LET c == Cumulated(rates, n)
         IN  c \in [0..n -> Int] /\ c[0] = 0 /\ \A k \in 0..n - 1 : c[k + 1] = c[k] + rates[k]
<1>1. PICK step : step = [z \in (1..n) \X Int |-> z[2] + rates[z[1] - 1]]
  OBVIOUS
<1>2. \A k \in 1..n : k - 1 \in 0..n - 1 /\ rates[k - 1] \in Int
  <2>1. \A k \in 1..n : k - 1 \in 0..n - 1
    OBVIOUS
  <2> QED BY <2>1
<1>3. /\ step \in [(1..n) \X Int -> Int]
      /\ \A k \in 1..n : \A x \in Int : step[<<k, x>>] = x + rates[k - 1]
  <2>1. \A k \in 1..n : \A x \in Int : x + rates[k - 1] \in Int
    BY <1>2
  <2> QED BY <1>1, <2>1
<1>a. PICK zero \in Int : zero = 0
  OBVIOUS
<1>b. step \in [(1..n) \X Int -> Int]
  BY <1>3
<1>4. PICK h \in [0..n -> Int] : Goes(h, zero, step, n)
  BY <1>b, Recursion
<1>5. Adding(h, rates, n)
  <2>1. \A k \in 0..n : h[k] = IF k = 0 THEN 0 ELSE h[k - 1] + rates[k - 1]
    <3>1. h[0] = 0
      BY <1>a, <1>4 DEF Goes
    <3>2. ASSUME NEW k \in 1..n PROVE h[k] = h[k - 1] + rates[k - 1]
      <4>1. k - 1 \in 0..n
        OBVIOUS
      <4>2. h[k - 1] \in Int
        BY <1>4, <4>1
      <4> QED BY <1>3, <1>4, <4>2 DEF Goes
    <3> QED BY <3>1, <3>2
  <2> QED BY <1>4, <2>1 DEF Adding
<1>6. PICK c : c = Cumulated(rates, n)
  OBVIOUS
<1>7. Adding(c, rates, n)
  BY <1>5, <1>6 DEF Cumulated
<1>8. c[0] = 0 /\ \A k \in 0..n - 1 : c[k + 1] = c[k] + rates[k]
  <2>1. c[0] = 0
    BY <1>7 DEF Adding
  <2>2. ASSUME NEW k \in 0..n - 1 PROVE c[k + 1] = c[k] + rates[k]
    <3>1. k + 1 \in 0..n /\ k + 1 # 0 /\ k + 1 - 1 = k
      OBVIOUS
    <3>2. c[k + 1] = c[k + 1 - 1] + rates[k + 1 - 1]
      BY <1>7, <3>1 DEF Adding
    <3> QED BY <3>1, <3>2
  <2> QED BY <2>1, <2>2
<1> DEFINE X == {k \in 0..n : c[k] \in Int}
<1>9. 0 \in X
  BY <1>8
<1>10. ASSUME NEW i \in 0..(n - 1), i \in X PROVE i + 1 \in X
  <2>1. i + 1 \in 0..n /\ c[i] \in Int /\ rates[i] \in Int
    BY <1>10
  <2> QED BY <1>8, <2>1
<1> HIDE DEF X
<1>11. 0..n \subseteq X
  BY <1>9, <1>10, Upwards
<1>12. \A k \in 0..n : c[k] \in Int
  BY <1>11 DEF X
<1>13. c \in [0..n -> Int]
  <2>1. c = [k \in 0..n |-> IF k = 0 THEN 0 ELSE c[k - 1] + rates[k - 1]]
    BY <1>7 DEF Adding
  <2>2. DOMAIN c = 0..n /\ c = [k \in 0..n |-> c[k]]
    BY <2>1
  <2> QED BY <1>12, <2>2
<1> QED BY <1>6, <1>8, <1>13

LEMMA RatesSum ==
  ASSUME NEW n \in Nat, NEW rates \in [0..n - 1 -> Int], NEW c \in [0..n -> Int], c[0] = 0,
         \A k \in 0..n - 1 : c[k + 1] = c[k] + rates[k], NEW m \in 0..n
  PROVE  SumOf([i \in 0..m - 1 |-> rates[i]]) = c[m]
<1> DEFINE X == {k \in 0..n : SumOf([i \in 0..k - 1 |-> rates[i]]) = c[k]}
<1>1. 0 \in X
  <2>1. PICK f : f = [i \in 0..0 - 1 |-> rates[i]]
    OBVIOUS
  <2>2. DOMAIN f = {} /\ f = [x \in {} |-> f[x]]
    BY <2>1
  <2>3. SumOf(f) = 0
    BY <2>2, SumNone
  <2> QED BY <2>1, <2>3
<1>2. ASSUME NEW k \in 0..(n - 1), k \in X PROVE k + 1 \in X
  <2>1. k \in 0..n /\ k + 1 \in 0..n /\ k \in 0..n - 1 /\ SumOf([i \in 0..k - 1 |-> rates[i]]) = c[k]
    BY <1>2
  <2>2. PICK T : T = 0..k - 1
    OBVIOUS
  <2>3. PICK D : D = 0..n - 1
    OBVIOUS
  <2>4. IsFiniteSet(T)
    BY <2>2, FS_Interval
  <2>5. T \in SUBSET D /\ k \in D /\ k \notin T /\ T \cup {k} = 0..k /\ rates \in [D -> Int]
    BY <2>1, <2>2, <2>3
  <2>6. PICK U : U = 0..k /\ OneMore(D, rates, T, k, U)
    BY <2>4, <2>5 DEF OneMore
  <2>a. SumOf(Part(rates, U)) = rates[k] + SumOf(Part(rates, T))
    BY <2>6, SumMore
  <2>7. PICK a \in Int, b \in Int : a = c[k] /\ b = rates[k] /\ c[k + 1] = a + b
    BY <2>1
  <2>8. SumOf([i \in 0..k |-> rates[i]]) = b + a
    BY <2>1, <2>2, <2>6, <2>a, <2>7 DEF Part
  <2>9. k + 1 - 1 = k
    OBVIOUS
  <2> QED BY <2>1, <2>7, <2>8, <2>9
<1> HIDE DEF X
<1>3. 0..n \subseteq X
  BY <1>1, <1>2, Upwards
<1> QED BY <1>3 DEF X

LEMMA AscendingOfFirst ==
  ASSUME NEW m \in Nat
  PROVE  Ascending(0..m - 1) = [k \in 1..m |-> k - 1]
<1>1. PICK D : D = 0..m - 1
  OBVIOUS
<1>2. D \in SUBSET Int /\ IsFiniteSet(D) /\ Cardinality(D) = m
  <2>1. IsFiniteSet(0..m - 1) /\ Cardinality(0..m - 1) = IF 0 > m - 1 THEN 0 ELSE m - 1 - 0 + 1
    BY FS_Interval
  <2>2. 0..m - 1 \in SUBSET Int
    OBVIOUS
  <2>3. (IF 0 > m - 1 THEN 0 ELSE m - 1 - 0 + 1) = m
    OBVIOUS
  <2> QED BY <1>1, <2>1, <2>2, <2>3
<1>3. PICK s : s = Ascending(D)
  OBVIOUS
<1>4. Lists(s, D, m) /\ Upward(s, m)
  BY <1>2, <1>3, AscendingIs
<1>5. s \in [1..m -> D]
  BY <1>4 DEF Lists
(* The k-th is at least k - 1, and at most: m - k greater ones follow.     *)
<1>6. \A k \in 1..m : s[k] \in Nat /\ s[k] <= m - 1
  BY <1>1, <1>5
<1> DEFINE X == {i \in 0..m : i = 0 \/ s[i] >= i - 1}
<1>7. 0 \in X
  OBVIOUS
<1>8. ASSUME NEW i \in 0..(m - 1), i \in X PROVE i + 1 \in X
  <2>1. i + 1 \in 1..m /\ i + 1 \in 0..m
    OBVIOUS
  <2>2. CASE i = 0
    BY <1>6, <2>1, <2>2
  <2>3. CASE i # 0
    <3>1. i \in 1..m /\ s[i] >= i - 1 /\ i < i + 1
      BY <1>8, <2>3
    <3>2. s[i] < s[i + 1]
      BY <1>4, <2>1, <3>1 DEF Upward
    <3> QED BY <1>6, <2>1, <3>1, <3>2
  <2> QED BY <2>2, <2>3
<1> HIDE DEF X
<1>9. 0..m \subseteq X
  BY <1>7, <1>8, Upwards
<1>10. \A k \in 1..m : s[k] >= k - 1
  <2>1. \A k \in 1..m : k \in 0..m /\ k # 0
    OBVIOUS
  <2> QED BY <1>9, <2>1 DEF X
<1> DEFINE Y == {i \in 0..m : i = 0 \/ s[m - i + 1] <= m - i}
<1>11. 0 \in Y
  OBVIOUS
<1>12. ASSUME NEW i \in 0..(m - 1), i \in Y PROVE i + 1 \in Y
  <2>1. i + 1 \in 0..m /\ m - i \in 1..m /\ m - (i + 1) + 1 = m - i /\ m - (i + 1) = m - i - 1
    OBVIOUS
  <2>2. CASE i = 0
    BY <1>6, <2>1, <2>2
  <2>3. CASE i # 0
    <3>1. m - i + 1 \in 1..m /\ s[m - i + 1] <= m - i /\ m - i < m - i + 1
      BY <1>12, <2>3
    <3>2. s[m - i] < s[m - i + 1]
      BY <1>4, <2>1, <3>1 DEF Upward
    <3>3. s[m - i] <= m - i - 1
      BY <1>6, <2>1, <3>1, <3>2
    <3> QED BY <2>1, <3>3
  <2> QED BY <2>2, <2>3
<1> HIDE DEF Y
<1>13. 0..m \subseteq Y
  BY <1>11, <1>12, Upwards
<1>14. \A k \in 1..m : s[k] <= k - 1
  <2> SUFFICES ASSUME NEW k \in 1..m PROVE s[k] <= k - 1
    OBVIOUS
  <2>1. m - k + 1 \in 0..m /\ m - k + 1 # 0 /\ m - (m - k + 1) + 1 = k /\ m - (m - k + 1) = k - 1
    OBVIOUS
  <2>2. m - k + 1 \in Y
    BY <1>13, <2>1
  <2> QED BY <2>1, <2>2 DEF Y
<1>15. \A k \in 1..m : s[k] = k - 1
  BY <1>6, <1>10, <1>14
<1>16. s = [k \in 1..m |-> k - 1]
  BY <1>5, <1>15
<1> QED BY <1>1, <1>3, <1>16

(* What the trades taken make, when the next may begin at point past.      *)
PastOf(t) == IF t = << >> THEN 0 ELSE Last(t) + Horizon
Collects(t, R, collects, pays, c, premiums) ==
  /\ t \in Seq(Int) /\ Range(t) = R /\ IsFiniteSet(R)
  /\ SumOf([i \in R |-> collects[i]]) = c[PastOf(t)]
  /\ t # << >> => SumOf([i \in R |-> pays[i]]) = premiums[PastOf(t)] - premiums[0]

LEMMA RangeOfMore ==
  ASSUME NEW t \in Seq(Int), NEW i \in Int
  PROVE  Range(Append(t, i)) = Range(t) \cup {i} /\ Last(Append(t, i)) = i /\ Append(t, i) # << >>
<1>1. PICK m \in Nat : m = Len(t) /\ DOMAIN t = 1..m
  OBVIOUS
<1>a. PICK u : u = Append(t, i)
  OBVIOUS
<1>2. /\ u = Append(t, i) /\ u \in Seq(Int) /\ Len(u) = m + 1 /\ u[m + 1] = i
      /\ \A a \in 1..m : u[a] = t[a]
  BY <1>1, <1>a
<1>3. DOMAIN u = 1..m + 1
  BY <1>2
<1>4. \A x : x \in Range(u) <=> \E a \in 1..m + 1 : x = u[a]
  BY <1>3 DEF Range
<1>5. \A x : x \in Range(t) <=> \E a \in 1..m : x = t[a]
  BY <1>1 DEF Range
<1>6. PICK R, Q : R = Range(u) /\ Q = Range(t)
  OBVIOUS
<1>7. R = Q \cup {i}
  <2>1. ASSUME NEW x \in R PROVE x \in Q \cup {i}
    <3>1. PICK a \in 1..m + 1 : x = u[a]
      BY <1>4, <1>6, <2>1
    <3>2. CASE a = m + 1
      BY <1>2, <3>1, <3>2
    <3>3. CASE a # m + 1
      <4>1. a \in 1..m
        BY <3>3
      <4> QED BY <1>2, <1>5, <1>6, <3>1, <4>1
    <3> QED BY <3>2, <3>3
  <2>2. ASSUME NEW x \in Q PROVE x \in R
    <3>1. PICK a \in 1..m : x = t[a]
      BY <1>5, <1>6, <2>2
    <3>2. a \in 1..m + 1
      OBVIOUS
    <3> QED BY <1>2, <1>4, <1>6, <3>1, <3>2
  <2>3. i \in R
    <3>1. m + 1 \in 1..m + 1
      OBVIOUS
    <3> QED BY <1>2, <1>4, <1>6, <3>1
  <2> QED BY <2>1, <2>2, <2>3
<1>8. Last(u) = i /\ u # << >>
  BY <1>2 DEF Last
<1> QED BY <1>2, <1>6, <1>7, <1>8

LEMMA Telescope == \A a, b, d \in Int : (a - b) + (b - d) = a - d
  OBVIOUS

(* The trades of a series, and what is made of those taken of the first k. *)
LEMMA MadeStep ==
  ASSUME NEW n \in Nat, NEW m \in Nat, m + Horizon <= n,
         NEW c \in [0..n -> Int], NEW premiums \in [0..n - 1 -> Int],
         NEW collects \in [0..m - 1 -> Int], NEW pays \in [0..m - 1 -> Int],
         \A i \in 0..m - 1 : /\ collects[i] = c[i + Horizon] - c[i]
                             /\ pays[i] = premiums[i + Horizon] - premiums[i],
         NEW k \in 0..m - 1, NEW t, NEW R \in SUBSET (0..k - 1),
         Collects(t, R, collects, pays, c, premiums), PastOf(t) \in k..n
  PROVE  \E Q \in SUBSET (0..k) : Collects(Take(t, k), Q, collects, pays, c, premiums)
                                   /\ PastOf(Take(t, k)) \in k + 1..n
<1>1. PICK H \in Nat \ {0} : H = Horizon
  BY StudyAssumption
<1>2. t \in Seq(Int) /\ Range(t) = R /\ IsFiniteSet(R)
  BY DEF Collects
<1>3. CASE t = << >> \/ k >= Last(t) + H
  <2>1. PICK u : u = Append(t, k)
    OBVIOUS
  <2>2. Take(t, k) = u
    BY <1>1, <1>3, <2>1 DEF Take
  <2>3. PastOf(t) = k
    <3>1. PastOf(t) \in Int /\ PastOf(t) >= k
      OBVIOUS
    <3>2. CASE t = << >>
      BY <3>1, <3>2 DEF PastOf
    <3>3. CASE t # << >>
      BY <1>1, <1>3, <3>1, <3>3 DEF PastOf
    <3> QED BY <3>2, <3>3
  <2>4. PICK Q : Q = R \cup {k}
    OBVIOUS
  <2>5. k \in Int
    OBVIOUS
  <2>6. Range(u) = Q /\ PastOf(u) = k + H /\ u \in Seq(Int) /\ u # << >>
    <3>1. Range(u) = Range(t) \cup {k} /\ Last(u) = k /\ u # << >>
      BY <1>2, <2>1, <2>5, RangeOfMore
    <3>2. u \in Seq(Int)
      BY <1>2, <2>1, <2>5
    <3> QED BY <1>1, <1>2, <2>4, <3>1, <3>2 DEF PastOf
  <2>7. PICK D : D = 0..m - 1
    OBVIOUS
  <2>8. R \in SUBSET D /\ k \in D /\ k \notin R /\ collects \in [D -> Int] /\ pays \in [D -> Int]
    BY <2>7
  <2>9. SumOf(Part(collects, Q)) = collects[k] + SumOf(Part(collects, R)) /\ IsFiniteSet(Q)
    <3>1. OneMore(D, collects, R, k, Q)
      BY <1>2, <2>4, <2>8 DEF OneMore
    <3> QED BY <3>1, SumMore
  <2>10. SumOf(Part(pays, Q)) = pays[k] + SumOf(Part(pays, R))
    <3>1. OneMore(D, pays, R, k, Q)
      BY <1>2, <2>4, <2>8 DEF OneMore
    <3> QED BY <3>1, SumMore
  <2>11. SumOf(Part(collects, R)) = c[k]
    BY <2>3 DEF Collects, Part

  <2>13. PICK x \in Int, y \in Int : x = c[k] /\ y = c[k + H] /\ collects[k] = y - x
    <3>1. k \in 0..n /\ k + H \in 0..n
      BY <1>1
    <3>2. c[k] \in Int /\ c[k + H] \in Int
      BY <3>1
    <3> QED BY <1>1, <3>2
  <2>14. SumOf(Part(collects, Q)) = c[k + H]
    BY <2>9, <2>11, <2>13
  <2>15. SumOf(Part(pays, Q)) = premiums[k + H] - premiums[0]
    <3>1. CASE t = << >>
      <4>1. k = 0
        BY <2>3, <3>1 DEF PastOf
      <4>2. SumOf(Part(pays, R)) = 0
        <5>1. R = {}
          BY <4>1
        <5> QED BY <5>1, SumEmpty
      <4>3. pays[k] = premiums[k + H] - premiums[k] /\ pays[k] \in Int
        BY <1>1
      <4> QED BY <2>10, <4>1, <4>2, <4>3
    <3>2. CASE t # << >>
      <4>1. SumOf(Part(pays, R)) = premiums[k] - premiums[0]
        BY <2>3, <3>2 DEF Collects, Part
      <4>2. k \in 0..n - 1 /\ 0 \in 0..n - 1
        BY <1>1
      <4>3. PICK v \in Int, z \in Int : v = premiums[k] /\ z = premiums[0]
        BY <4>2
      <4>4. pays[k] = premiums[k + H] - v /\ pays[k] \in Int
        BY <1>1, <4>3
      <4>5. k + H \in 0..n - 1
        BY <1>1
      <4>6. PICK y1 \in Int : y1 = premiums[k + H]
        BY <4>5
      <4>7. PICK w \in Int, z1 \in Int : /\ w = v - z /\ w = SumOf(Part(pays, R))
                                         /\ z1 = y1 - v /\ z1 = pays[k]
        <5>1. v - z \in Int /\ SumOf(Part(pays, R)) = v - z
          BY <4>1, <4>3
        <5>2. y1 - v \in Int /\ pays[k] = y1 - v
          BY <4>3, <4>4, <4>6
        <5> QED BY <5>1, <5>2
      <4>8. SumOf(Part(pays, Q)) = z1 + w
        BY <2>10, <4>7
      <4>9. z1 + w = y1 - z
        <5>1. (y1 - v) + (v - z) = y1 - z
          BY Telescope
        <5> QED BY <4>7, <5>1
      <4> QED BY <4>3, <4>6, <4>8, <4>9
    <3> QED BY <3>1, <3>2
  <2>16. Collects(u, Q, collects, pays, c, premiums)
    BY <2>6, <2>9, <2>14, <2>15 DEF Collects, Part
  <2>17. Q \in SUBSET (0..k) /\ PastOf(u) \in k + 1..n
    <3>1. \A i \in R : i \in 0..k
      OBVIOUS
    <3>2. k \in 0..k /\ k + H \in k + 1..n
      BY <1>1
    <3> QED BY <2>4, <2>6, <3>1, <3>2
  <2> QED BY <2>2, <2>16, <2>17
<1>4. CASE ~(t = << >> \/ k >= Last(t) + H)
  <2>1. Take(t, k) = t
    BY <1>1, <1>4 DEF Take
  <2>2. PastOf(t) \in k + 1..n
    BY <1>1, <1>4 DEF PastOf
  <2>3. R \in SUBSET (0..k)
    OBVIOUS
  <2> QED BY <2>1, <2>2, <2>3
<1> QED BY <1>3, <1>4

(* The m trades of n points. *)
Made(n, m, collects, pays, c, premiums) ==
  /\ m > 0 => m + Horizon <= n
  /\ c \in [0..n -> Int] /\ c[0] = 0 /\ premiums \in [0..n - 1 -> Int]
  /\ collects \in [0..m - 1 -> Int] /\ pays \in [0..m - 1 -> Int]
  /\ \A i \in 0..m - 1 : /\ collects[i] = c[i + Horizon] - c[i]
                         /\ pays[i] = premiums[i + Horizon] - premiums[i]

LEMMA MadeIs ==
  ASSUME NEW n \in Nat, NEW m \in Nat, NEW c, NEW premiums, NEW collects, NEW pays,
         Made(n, m, collects, pays, c, premiums),
         NEW t, t = MarkIndependent(Ascending(0..m - 1))
  PROVE  Collects(t, Range(t), collects, pays, c, premiums) /\ PastOf(t) \in 0..n
<1>a. /\ m > 0 => m + Horizon <= n
      /\ c \in [0..n -> Int] /\ c[0] = 0 /\ premiums \in [0..n - 1 -> Int]
      /\ collects \in [0..m - 1 -> Int] /\ pays \in [0..m - 1 -> Int]
      /\ \A i \in 0..m - 1 : /\ collects[i] = c[i + Horizon] - c[i]
                             /\ pays[i] = premiums[i + Horizon] - premiums[i]
  BY DEF Made
<1>1. PICK s : s = [k \in 1..m |-> k - 1]
  OBVIOUS
<1>2. Ascending(0..m - 1) = s /\ s \in [1..m -> Int]
  BY <1>1, AscendingOfFirst
<1>3. PICK v : /\ v[0] = << >> /\ \A k \in 1..m : v[k] = Take(v[k - 1], s[k])
               /\ MarkIndependent(s) = v[m]
  BY <1>2, MarkedIs
<1> DEFINE X == {k \in 0..m : \E R \in SUBSET (0..k - 1) :
                   Collects(v[k], R, collects, pays, c, premiums) /\ PastOf(v[k]) \in k..n}
<1>4. 0 \in X
  <2>1. Collects(<< >>, {}, collects, pays, c, premiums) /\ PastOf(<< >>) = 0
    <3>1. PastOf(<< >>) = 0
      BY DEF PastOf
    <3>2. << >> \in Seq(Int) /\ Range(<< >>) = {} /\ IsFiniteSet({})
      BY FS_EmptySet DEF Range
    <3>3. SumOf([i \in {} |-> collects[i]]) = 0
      BY SumEmpty DEF Part
    <3> QED BY <1>a, <3>1, <3>2, <3>3 DEF Collects
  <2>2. 0 \in 0..m /\ {} \in SUBSET (0..0 - 1) /\ 0 \in 0..n
    OBVIOUS
  <2> QED BY <1>3, <2>1, <2>2
<1>5. ASSUME NEW k \in 0..m - 1, k \in X PROVE k + 1 \in X
  <2>1. PICK R \in SUBSET (0..k - 1) : Collects(v[k], R, collects, pays, c, premiums) /\ PastOf(v[k]) \in k..n
    BY <1>5
  <2>2. m + Horizon <= n
    BY <1>a
  <2>3. PICK Q \in SUBSET (0..k) : /\ Collects(Take(v[k], k), Q, collects, pays, c, premiums)
                                   /\ PastOf(Take(v[k], k)) \in k + 1..n
    BY <1>a, <2>1, <2>2, MadeStep
  <2>4. v[k + 1] = Take(v[k], k)
    <3>1. k + 1 \in 1..m /\ k + 1 - 1 = k
      OBVIOUS
    <3>2. s[k + 1] = k
      BY <1>1, <3>1
    <3>3. v[k + 1] = Take(v[k + 1 - 1], s[k + 1])
      BY <1>3, <3>1
    <3> QED BY <3>1, <3>2, <3>3
  <2>5. k + 1 \in 0..m /\ Q \in SUBSET (0..k + 1 - 1)
    OBVIOUS
  <2> QED BY <2>3, <2>4, <2>5
<1> HIDE DEF X
<1>6. 0..m \subseteq X
  BY <1>4, <1>5, Upwards
<1>7. m \in X
  BY <1>6
<1>8. PICK R : Collects(v[m], R, collects, pays, c, premiums) /\ PastOf(v[m]) \in m..n
  BY <1>7 DEF X
<1>9. t = v[m]
  BY <1>2, <1>3
<1>10. R = Range(t)
  BY <1>8, <1>9 DEF Collects
<1>11. PastOf(t) \in 0..n
  <2>1. m..n \subseteq 0..n
    OBVIOUS
  <2> QED BY <1>8, <1>9, <2>1
<1> QED BY <1>8, <1>9, <1>10, <1>11

(* The trades of rates and premiums. *)
LEMMA CarryTradesIs ==
  ASSUME NEW n \in Nat, NEW rates \in [0..n - 1 -> Int], NEW premiums \in [0..n - 1 -> Int],
         NEW c, c = Cumulated(rates, n)
  PROVE  CarryTrades(rates, premiums) =
           [i \in 0..n - Horizon - 1 |->
              [collected |-> c[i + Horizon] - c[i], basis |-> premiums[i + Horizon] - premiums[i]]]
<1>1. Cardinality(DOMAIN rates) = n
  <2>1. Cardinality(0..n - 1) = n
    <3>1. 0 \in Int /\ n - 1 \in Int
      OBVIOUS
    <3>2. Cardinality(0..n - 1) = IF 0 > n - 1 THEN 0 ELSE (n - 1) - 0 + 1
      BY <3>1, FS_Interval
    <3> QED BY <3>2
  <2> QED BY <2>1
<1> QED BY <1>1 DEF CarryTrades, Cumulated, Adding

LEMMA RollsIs ==
  ASSUME NEW n \in Nat, NEW rates \in [0..n - 1 -> Int], NEW premiums \in [0..n - 1 -> Int]
  PROVE  Rolls(rates, premiums)
<1>1. PICK H \in Nat \ {0} : H = Horizon
  BY StudyAssumption
<1>2. PICK c : c = Cumulated(rates, n)
  OBVIOUS
<1>3. c \in [0..n -> Int] /\ c[0] = 0 /\ \A k \in 0..n - 1 : c[k + 1] = c[k] + rates[k]
  BY <1>2, CumulatedIs
<1>4. PICK m \in Nat : 0..m - 1 = 0..n - H - 1 /\ (m > 0 => m + H <= n)
  <2>1. CASE n >= H
    <3>1. PICK a \in Nat : a = n - H
      BY <2>1
    <3>2. a - 1 = n - H - 1 /\ a + H <= n
      BY <3>1
    <3>3. 0..a - 1 = 0..n - H - 1
      BY <3>2
    <3> QED BY <3>2, <3>3
  <2>2. CASE n < H
    <3>1. 0..0 - 1 = 0..n - H - 1
      BY <2>2
    <3> QED BY <3>1
  <2> QED BY <2>1, <2>2
<1>5. PICK D : D = 0..m - 1
  OBVIOUS
<1>6. PICK made : made = [i \in D |-> [collected |-> c[i + H] - c[i], basis |-> premiums[i + H] - premiums[i]]]
  OBVIOUS
<1>7. CarryTrades(rates, premiums) = made
  <2>1. CarryTrades(rates, premiums) =
          [i \in 0..n - Horizon - 1 |->
             [collected |-> c[i + Horizon] - c[i], basis |-> premiums[i + Horizon] - premiums[i]]]
    BY <1>2, CarryTradesIs
  <2>2. 0..n - Horizon - 1 = D
    BY <1>1, <1>4, <1>5
  <2> QED BY <1>1, <1>6, <2>1, <2>2
<1>8. PICK collects, pays : collects = [i \in D |-> c[i + H] - c[i]] /\ pays = [i \in D |-> premiums[i + H] - premiums[i]]
  OBVIOUS
<1>9. collects \in [D -> Int] /\ pays \in [D -> Int]
  <2>1. ASSUME NEW i \in D PROVE c[i + H] - c[i] \in Int /\ premiums[i + H] - premiums[i] \in Int
    <3>1. i \in 0..n - 1 /\ i + H \in 0..n - 1
      BY <1>4, <1>5
    <3>2. i \in 0..n /\ i + H \in 0..n
      BY <3>1
    <3>3. c[i] \in Int /\ c[i + H] \in Int
      BY <1>3, <3>2
    <3>4. premiums[i] \in Int /\ premiums[i + H] \in Int
      BY <3>1
    <3> QED BY <3>3, <3>4
  <2> QED BY <1>8, <2>1
<1>10. \A i \in D : collects[i] = c[i + H] - c[i] /\ pays[i] = premiums[i + H] - premiums[i]
  BY <1>8
<1>11. PICK t : t = MarkIndependent(Ascending(D))
  OBVIOUS
<1>12. PICK R : R = Range(t)
  OBVIOUS
<1>13. Collects(t, R, collects, pays, c, premiums) /\ PastOf(t) \in 0..n
  <2>1. collects \in [0..m - 1 -> Int] /\ pays \in [0..m - 1 -> Int]
    BY <1>5, <1>9
  <2>2. \A i \in 0..m - 1 : /\ collects[i] = c[i + Horizon] - c[i]
                            /\ pays[i] = premiums[i + Horizon] - premiums[i]
    BY <1>1, <1>5, <1>10
  <2>3. m > 0 => m + Horizon <= n
    BY <1>1, <1>4
  <2>4. t = MarkIndependent(Ascending(0..m - 1))
    BY <1>5, <1>11
  <2>5. c \in [0..n -> Int] /\ c[0] = 0
    BY <1>3
  <2>6. Made(n, m, collects, pays, c, premiums)
    BY <2>1, <2>2, <2>3, <2>5 DEF Made
  <2>7. Collects(t, Range(t), collects, pays, c, premiums) /\ PastOf(t) \in 0..n
    BY <2>4, <2>6, MadeIs
  <2> QED BY <1>12, <2>7
<1>14. R \subseteq D
  <2>1. D \in SUBSET Int /\ IsFiniteSet(D)
    BY <1>5, FS_Interval
  <2>2. Independent(D, R)
    BY <1>11, <1>12, <2>1, SampleIs
  <2> QED BY <2>2 DEF Independent
<1>15. /\ [i \in R |-> made[i].collected] = [i \in R |-> collects[i]]
       /\ [i \in R |-> made[i].basis] = [i \in R |-> pays[i]]
  <2>1. \A i \in D : made[i].collected = collects[i] /\ made[i].basis = pays[i]
    BY <1>6, <1>8
  <2> QED BY <1>14, <2>1
<1>16. PICK past \in 0..n : past = PastOf(t)
  BY <1>13
<1>17. SumOf([i \in 0..past - 1 |-> rates[i]]) = c[past]
  BY <1>3, RatesSum
<1>18. SumOf([i \in R |-> made[i].collected]) = SumOf([i \in 0..past - 1 |-> rates[i]])
  BY <1>13, <1>15, <1>16, <1>17 DEF Collects
<1>19. t # << >> => SumOf([i \in R |-> made[i].basis]) = premiums[past] - premiums[0]
  BY <1>13, <1>15, <1>16 DEF Collects
<1>20. DOMAIN made = D
  BY <1>6
<1>21. past = IF t = << >> THEN 0 ELSE Last(t) + Horizon
  BY <1>16 DEF PastOf
<1> QED BY <1>7, <1>11, <1>12, <1>18, <1>19, <1>20, <1>21 DEF Rolls

(* Bars at which a signal fires and funding settled at any times, rates    *)
(* and premiums of any n points, and closes of any symbols on any days.    *)
Sampled(about, x) ==
  \/ /\ about = "firing"
     /\ x.bars \in Nat /\ x.fires \in SUBSET (0..x.bars - 1) /\ x.funding \in FiniteInts
  \/ /\ about = "carry"
     /\ \E n \in Nat : x.rates \in [0..n - 1 -> Int] /\ x.premiums \in [0..n - 1 -> Int]
  \/ about = "universe" /\ Quoted(x)

SampleSpec ==
  /\ job \in {"firing", "carry", "universe"} /\ input = Nothing
  /\ [][job' = job /\ Sampled(job, input')]_<<job, input>>

(* "The maximal non-overlapping subsample" (_mark_independent): for any    *)
(* bars, firings, funding, rates, premiums, closes, horizon and windows,   *)
(* no two independent observations of a study share any of their future,   *)
(* no other choice of such has more, and none has seen its own future;     *)
(* carry rolled over collects every rate once; and what a rebalance buys   *)
(* outdid, between the same two days, what it sells.  It takes two symbols *)
(* to rebalance: of one alone, the same is bought and sold.                *)
THEOREM SamplesHold == ASSUME 2 <= MinSymbols PROVE SampleSpec => []SamplesAreIndependent
<1> DEFINE Valued == job \in {"firing", "carry", "universe"} /\ (input = Nothing \/ Sampled(job, input))
<1>1. job \in {"firing", "carry", "universe"} /\ input = Nothing => Valued
  OBVIOUS
<1>2. Valued /\ [job' = job /\ Sampled(job, input')]_<<job, input>> => Valued'
  <2>1. Valued /\ job' = job /\ Sampled(job, input') => Valued'
    BY DEF Sampled, Quoted
  <2>2. Valued /\ job' = job /\ input' = input => Valued'
    BY DEF Sampled, Quoted
  <2> QED BY <2>1, <2>2
<1>3. Valued => SamplesAreIndependent
  <2> SUFFICES ASSUME Valued, input # Nothing PROVE SamplesAreIndependent
    BY DEF SamplesAreIndependent, Of
  <2>1. Sampled(job, input)
    OBVIOUS
  <2>2. CASE job = "firing"
    <3>1. input.bars \in Nat /\ input.fires \in SUBSET (0..input.bars - 1) /\ input.funding \in FiniteInts
      BY <2>1, <2>2 DEF Sampled
    <3>2. PICK st : st = Study(input.bars, input.fires, input.funding)
      OBVIOUS
    <3>3. /\ Independent({st.all[k].index : k \in DOMAIN st.all}, Range(st.independent))
          /\ \A k \in DOMAIN st.all : Unpeeking(st.all[k], input.bars, input.funding)
      BY <3>1, <3>2, StudyIs DEF FiniteInts
    <3> QED BY <2>2, <3>2, <3>3 DEF SamplesAreIndependent, Of
  <2>3. CASE job = "carry"
    <3>1. Rolls(input.rates, input.premiums)
      BY <2>1, <2>3, RollsIs DEF Sampled
    <3> QED BY <2>3, <3>1 DEF SamplesAreIndependent, Of
  <2>4. CASE job = "universe"
    <3>1. Quoted(input)
      BY <2>1, <2>4 DEF Sampled
    <3>2. PICK rb : rb = Rebalances(input)
      OBVIOUS
    <3>3. /\ Independent({rb.all[k].index : k \in DOMAIN rb.all}, Range(rb.independent))
          /\ \A k \in DOMAIN rb.all : Aligned(input, rb.all[k])
      BY <3>1, <3>2, RebalancesIs
    <3> QED BY <2>4, <3>2, <3>3 DEF SamplesAreIndependent, Of
  <2> QED BY <2>2, <2>3, <2>4
<1> QED BY <1>1, <1>2, <1>3, PTL DEF SampleSpec
=============================================================================
