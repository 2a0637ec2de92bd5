--------------------------- MODULE MarketFeedProofs ---------------------------
(***************************************************************************)
(* Theorems about the candle feed, for any intervals and lengths, any      *)
(* number of trades, lost connections and crashes: the topic of candles is *)
(* what CandleTopic promises, a closed candle is final, and the window an  *)
(* agent analyses is the end of the topic.                                 *)
(*                                                                         *)
(* What the invariant adds, per interval: no candle is closed at or beyond *)
(* the one held back, nor at or beyond the current slot (Ordered); and a   *)
(* candle that is held, closed or under way has its final content, or is   *)
(* known to have missed an update, or the update is under way (Content).   *)
(***************************************************************************)
EXTENDS MarketFeed, FiniteSetTheorems, SequenceTheorems, TLAPS

CandleFrame == [channel : {"candle"}, interval : Intervals, open : Nat, ver : Nat,
                valid : BOOLEAN]
TopicCandle == [interval : Intervals, open : Nat, ver : Nat, closed : BOOLEAN]

Typed ==
  /\ trades \in Seq(Nat)
  /\ Slot \in Nat /\ \A k \in DOMAIN trades : trades[k] <= Slot
  /\ candles \in Seq(TopicCandle)
  /\ wire \in Seq(CandleFrame \cup {Control})
  /\ held \in [Intervals -> CandleFrame \cup {Nothing}]
  /\ \A i \in Intervals : held[i] # Nothing => held[i].interval = i

(* An update of interval i, and where the updates under way are. *)
IsUpdate(f, i) == Yields(f) /\ f.valid /\ f.interval = i
Updates(i) == {k \in DOMAIN wire : IsUpdate(wire[k], i)}

ClosedOnes(i) == {k \in DOMAIN candles : candles[k].closed /\ candles[k].interval = i}
ClosedBelow(i, o) == \A k \in ClosedOnes(i) : candles[k].open < o

Ordered(i) ==
  /\ ClosedBelow(i, OpenOf(i, Slot))
  /\ held[i] # Nothing => held[i].open <= OpenOf(i, Slot) /\ ClosedBelow(i, held[i].open)
  /\ \A k \in Updates(i) : /\ wire[k].open <= OpenOf(i, Slot)
                           /\ held[i] = Nothing => ClosedBelow(i, wire[k].open)

(* Trade v is the last of the candle of i that opens at o. *)
Final(i, o, v) ==
  /\ v \in DOMAIN trades /\ OpenOf(i, trades[v]) = o
  /\ \A k \in DOMAIN trades : OpenOf(i, trades[k]) = o => k <= v
Settled(i, f) == Final(i, f.open, f.ver) \/ <<i, f.open>> \in missed

Content(i) ==
  /\ \A k \in ClosedOnes(i) : Settled(i, candles[k])
  /\ \A k \in Updates(i) : Settled(i, wire[k])
  /\ \A j, k \in Updates(i) : j < k => <<i, wire[k].open>> \in missed
  /\ held[i] # Nothing => \/ Settled(i, held[i])
                          \/ \E k \in Updates(i) : wire[k].open = held[i].open

Inv == Typed /\ \A i \in Intervals : Ordered(i) /\ Content(i)

-----------------------------------------------------------------------------
(* Slots, frames and orders of intervals. *)

LEMMA Floor ==
  ASSUME NEW L \in Nat \ {0}, NEW a \in Nat, NEW b \in Nat, a <= b
  PROVE  a - (a % L) \in Nat /\ a - (a % L) <= b - (b % L)
  OBVIOUS

LEMMA OpenIs ==
  ASSUME NEW i \in Intervals, NEW a \in Nat
  PROVE  /\ OpenOf(i, a) \in Nat
         /\ \A b \in Nat : a <= b => OpenOf(i, a) <= OpenOf(i, b)
<1>1. Length[i] \in Nat \ {0}
  BY FeedAssumption DEF Intervals
<1> QED BY <1>1, Floor DEF OpenOf

LEMMA FrameIs ==
  ASSUME NEW i \in Intervals, NEW slot \in Nat, NEW n \in Nat
  PROVE  /\ Frame(i, slot, n) \in CandleFrame
         /\ IsUpdate(Frame(i, slot, n), i)
         /\ Frame(i, slot, n).open = OpenOf(i, slot) /\ Frame(i, slot, n).ver = n
         /\ Frame(i, slot, n).interval = i
         /\ Garbled(Frame(i, slot, n)) \in CandleFrame
         /\ ~Garbled(Frame(i, slot, n)).valid
  BY OpenIs DEF Frame, CandleFrame, IsUpdate, Yields, Garbled

LEMMA SomeFrame == \A f \in CandleFrame : f # Nothing
  BY DEF CandleFrame, Nothing

LEMMA ControlIs == ~Yields(Control)
  BY DEF Yields, Control

(* One frame per interval, in some order. *)
LEMMA FramesAre ==
  ASSUME NEW slot \in Nat, NEW n \in Nat, NEW frames \in Frames(slot, n)
  PROVE  /\ frames \in Seq(CandleFrame)
         /\ \A k \in DOMAIN frames :
              \E i \in Intervals : frames[k] = Frame(i, slot, n)
         /\ \A j, k \in DOMAIN frames : frames[j].interval = frames[k].interval => j = k
         /\ \A i \in Intervals : \E k \in DOMAIN frames : frames[k] = Frame(i, slot, n)
<1> DEFINE D == 1..Cardinality(Intervals)
<1>1. IsFiniteSet(Intervals) /\ Cardinality(Intervals) \in Nat
  BY FeedAssumption, FS_CardinalityType DEF Intervals
<1>2. PICK order \in SetToSeqs(Intervals) : frames = [k \in D |-> Frame(order[k], slot, n)]
  BY DEF Frames
<1>3. order \in [D -> Intervals] /\ \A j, k \in D : j # k => order[j] # order[k]
  BY <1>2 DEF SetToSeqs
<1>4. \A i \in Intervals : \E k \in D : order[k] = i
  <2>1. order \in Injection(D, Intervals)
    BY <1>3 DEF Injection, IsInjective
  <2>2. IsFiniteSet(D) /\ Cardinality(D) = Cardinality(Intervals)
    BY <1>1, FS_Interval
  <2>3. order \in Surjection(D, Intervals)
    BY <1>1, <2>1, <2>2, FS_Injection
  <2> QED BY <2>3 DEF Surjection
<1>5. frames \in Seq(CandleFrame) /\ DOMAIN frames = D
  <2>1. \A k \in D : Frame(order[k], slot, n) \in CandleFrame
    BY <1>3, FrameIs
  <2> QED BY <1>1, <1>2, <2>1
<1>6. \A k \in D : frames[k] = Frame(order[k], slot, n) /\ frames[k].interval = order[k]
  BY <1>2, <1>3, FrameIs
<1> HIDE DEF D
<1> QED BY <1>3, <1>4, <1>5, <1>6

(* The latest slot is that of the newest trade. *)
LEMMA SlotIs ==
  ASSUME NEW q \in Seq(Nat), NEW slot \in Nat, \A k \in DOMAIN q : q[k] <= slot,
         \E k \in DOMAIN q : q[k] = slot
  PROVE  Max(Range(q) \cup {0}) = slot
<1>1. slot \in Range(q) \cup {0} /\ \A y \in Range(q) \cup {0} : y \in Nat /\ slot >= y
  BY DEF Range
<1> DEFINE S == Range(q) \cup {0}
<1>2. \A x \in S : (\A y \in S : x >= y) => x = slot
  BY <1>1
<1>3. \E x \in S : \A y \in S : x >= y
  BY <1>1
<1> HIDE DEF S
<1>4. Max(S) = slot
  BY <1>2, <1>3 DEF Max
<1> QED BY <1>4 DEF S

LEMMA Joined ==
  ASSUME NEW S, NEW p \in Seq(S), NEW q \in Seq(S)
  PROVE  /\ p \o q \in Seq(S) /\ Len(p) \in Nat /\ Len(q) \in Nat
         /\ DOMAIN p = 1..Len(p) /\ DOMAIN q = 1..Len(q)
         /\ Len(p \o q) = Len(p) + Len(q) /\ DOMAIN (p \o q) = 1..Len(p) + Len(q)
         /\ \A k \in DOMAIN p : k \in DOMAIN (p \o q) /\ (p \o q)[k] = p[k]
         /\ \A k \in DOMAIN q : (p \o q)[Len(p) + k] = q[k]
         /\ \A k \in DOMAIN (p \o q) :
              \/ k \in DOMAIN p
              \/ k - Len(p) \in DOMAIN q /\ (p \o q)[k] = q[k - Len(p)]
<1>1. /\ p \o q \in Seq(S) /\ Len(p) \in Nat /\ Len(q) \in Nat
      /\ DOMAIN p = 1..Len(p) /\ DOMAIN q = 1..Len(q) /\ Len(p \o q) = Len(p) + Len(q)
  OBVIOUS
<1>2. DOMAIN (p \o q) = 1..Len(p) + Len(q)
  BY <1>1
<1>3. \A k \in 1..Len(p) + Len(q) :
        (p \o q)[k] = IF k <= Len(p) THEN p[k] ELSE q[k - Len(p)]
  BY <1>1
<1> QED BY <1>1, <1>2, <1>3

LEMMA InvInit == FeedInit => Inv
<1> SUFFICES ASSUME FeedInit PROVE Inv
  OBVIOUS
<1>1. trades = << >> /\ candles = << >> /\ wire = << >> /\ held = NoCandles
  BY DEF FeedInit, ConnectionInit
<1>2. Slot = 0
  <2>1. Range(trades) \cup {0} = {0}
    BY <1>1 DEF Range
  <2> QED BY <2>1 DEF Slot, Max
<1>3. \A i \in Intervals : held[i] = Nothing
  BY <1>1 DEF NoCandles
<1>4. Typed
  BY <1>1, <1>2, <1>3 DEF Typed, NoCandles
<1>5. \A i \in Intervals : ClosedOnes(i) = {} /\ Updates(i) = {}
  BY <1>1 DEF ClosedOnes, Updates
<1> QED BY <1>3, <1>4, <1>5 DEF Inv, Ordered, Content, ClosedBelow

-----------------------------------------------------------------------------
(* The exchange: new trades in a slot, or one of it and a late one. *)

New == DOMAIN trades' \ DOMAIN trades

Extended(slot) ==
  /\ trades' \in Seq(Nat) /\ Slot' = slot
  /\ \A k \in DOMAIN trades : k \in DOMAIN trades' /\ trades'[k] = trades[k]
  /\ \A k \in New : trades'[k] \in Slot..slot

(* What is sent of the new trades, or known to be missed of them. *)
Arrives(i, slot) ==
  /\ \A k \in Updates(i)' : /\ wire'[k].open \in OpenOf(i, Slot)..OpenOf(i, slot)
                            /\ Settled(i, wire[k])'
  /\ \A j, k \in Updates(i)' : j < k => <<i, wire'[k].open>> \in missed'
  /\ \A n \in New : \/ <<i, OpenOf(i, trades'[n])>> \in missed'
                    \/ \E k \in Updates(i)' : wire'[k].open = OpenOf(i, trades'[n])

LEMMA FinalKept ==
  ASSUME NEW slot, Extended(slot), NEW i, NEW o, NEW v, Final(i, o, v),
         \A n \in New : OpenOf(i, trades'[n]) # o
  PROVE  Final(i, o, v)'
  BY DEF Extended, Final, New

LEMMA SettledKept ==
  ASSUME NEW slot, Extended(slot), missed \subseteq missed', NEW i, NEW f, Settled(i, f),
         \A n \in New : OpenOf(i, trades'[n]) # f.open
  PROVE  Settled(i, f)'
  BY FinalKept DEF Settled

LEMMA ClosedTyped ==
  ASSUME Typed, NEW i
  PROVE  \A k \in ClosedOnes(i) : /\ k \in DOMAIN candles /\ candles[k] \in TopicCandle
                                  /\ candles[k].open \in Nat
<1>1. ASSUME NEW k \in ClosedOnes(i) PROVE k \in DOMAIN candles /\ candles[k] \in TopicCandle
  BY <1>1 DEF ClosedOnes, Typed
<1> QED BY <1>1 DEF TopicCandle

LEMMA SameClosed ==
  ASSUME UNCHANGED candles, NEW i
  PROVE  ClosedOnes(i)' = ClosedOnes(i) /\ \A o : ClosedBelow(i, o) => ClosedBelow(i, o)'
  BY DEF ClosedOnes, ClosedBelow

LEMMA TradesOrdered ==
  ASSUME Typed, Typed', NEW slot \in Nat, Slot <= slot, Slot' = slot,
         UNCHANGED <<held, candles>>,
         NEW i \in Intervals, Ordered(i), Arrives(i, slot)
  PROVE  Ordered(i)'
<1>1. /\ OpenOf(i, Slot) \in Nat /\ OpenOf(i, slot) \in Nat
      /\ OpenOf(i, Slot) <= OpenOf(i, slot)
  BY OpenIs DEF Typed
<1>2. ClosedOnes(i)' = ClosedOnes(i) /\ \A k \in ClosedOnes(i) : candles[k].open \in Nat
  BY SameClosed, ClosedTyped
<1>3. ASSUME NEW o \in Nat, OpenOf(i, Slot) <= o PROVE ClosedBelow(i, o)'
  BY <1>1, <1>2, <1>3 DEF Ordered, ClosedBelow
<1>4. \A o : ClosedBelow(i, o) => ClosedBelow(i, o)'
  BY SameClosed
<1>5. ClosedBelow(i, OpenOf(i, slot))'
  BY <1>1, <1>3 DEF ClosedBelow
<1>6. held[i] # Nothing => held[i].open <= OpenOf(i, slot) /\ ClosedBelow(i, held[i].open)'
  <2>1. held[i] # Nothing => held[i].open \in Nat
    BY DEF Typed, CandleFrame
  <2> QED BY <1>1, <1>4, <2>1 DEF Ordered
<1>7. ASSUME NEW k \in Updates(i)'
      PROVE  wire'[k].open <= OpenOf(i, slot) /\ ClosedBelow(i, wire[k].open)'
  BY <1>1, <1>3, <1>7 DEF Arrives
<1> QED BY <1>5, <1>6, <1>7 DEF Ordered

LEMMA TradesContent ==
  ASSUME Typed, NEW slot \in Nat, Slot <= slot, Extended(slot),
         UNCHANGED <<held, candles>>, missed \subseteq missed', wire = << >>,
         NEW i \in Intervals, Ordered(i), Content(i), Arrives(i, slot)
  PROVE  Content(i)'
<1>1. OpenOf(i, Slot) \in Nat /\ \A n \in New : OpenOf(i, trades'[n]) \in Nat
                                                /\ OpenOf(i, Slot) <= OpenOf(i, trades'[n])
  <2>1. \A n \in New : trades'[n] \in Nat /\ Slot <= trades'[n]
    BY DEF Extended, Typed
  <2> QED BY <2>1, OpenIs DEF Typed
<1>2. /\ ClosedOnes(i)' = ClosedOnes(i) /\ \A k \in ClosedOnes(i) : candles[k].open \in Nat
      /\ Updates(i) = {}
  <2>1. Updates(i) = {}
    BY DEF Updates
  <2> QED BY <2>1, SameClosed, ClosedTyped
<1>3. ASSUME NEW k \in ClosedOnes(i) PROVE Settled(i, candles[k])'
  <2>1. PICK c : c = candles[k]
    OBVIOUS
  <2>2. Settled(i, c) /\ \A n \in New : OpenOf(i, trades'[n]) # c.open
    BY <1>1, <1>2, <2>1 DEF Ordered, ClosedBelow, Content
  <2>3. Settled(i, c)'
    BY <2>2, SettledKept
  <2> QED BY <2>1, <2>3 DEF Settled, Final
<1>4. ASSUME held[i] # Nothing
      PROVE  Settled(i, held[i])' \/ \E k \in Updates(i)' : wire'[k].open = held'[i].open
  <2>1. PICK h : h = held[i]
    OBVIOUS
  <2>2. Settled(i, h)
    BY <1>2, <1>4, <2>1 DEF Content
  <2>3. CASE \A n \in New : OpenOf(i, trades'[n]) # h.open
    <3>1. Settled(i, h)'
      BY <2>2, <2>3, SettledKept
    <3> QED BY <2>1, <3>1
  <2>4. CASE \E n \in New : OpenOf(i, trades'[n]) = h.open
    <3>1. <<i, h.open>> \in missed' \/ \E k \in Updates(i)' : wire'[k].open = h.open
      BY <2>4 DEF Arrives
    <3> QED BY <2>1, <3>1 DEF Settled
  <2> QED BY <2>3, <2>4
<1>5. /\ \A k \in Updates(i)' : Settled(i, wire[k])'
      /\ \A j, k \in Updates(i)' : j < k => <<i, wire'[k].open>> \in missed'
  BY DEF Arrives
<1>6. \A k \in ClosedOnes(i)' : Settled(i, candles[k])'
  BY <1>2, <1>3
<1>7. (held[i] # Nothing => \/ Settled(i, held[i])
                            \/ \E k \in Updates(i) : wire[k].open = held[i].open)'
  BY <1>4
<1> QED BY <1>5, <1>6, <1>7 DEF Content

LEMMA TradesKeep ==
  ASSUME Inv, NEW slot \in Nat, Slot <= slot, Extended(slot), UNCHANGED <<held, candles>>,
         missed \subseteq missed', wire = << >>, wire' \in Seq(CandleFrame \cup {Control}),
         \A k \in DOMAIN trades' : trades'[k] <= slot,
         \A i \in Intervals : Arrives(i, slot)
  PROVE  Inv'
<1>1. Typed'
  BY DEF Inv, Typed, Extended
<1>2. \A i \in Intervals : Ordered(i)' /\ Content(i)'
  BY <1>1, TradesOrdered, TradesContent DEF Inv, Extended
<1> QED BY <1>1, <1>2 DEF Inv

LEMMA OneMore ==
  ASSUME Typed, NEW slot \in Nat, Slot <= slot, trades' = Append(trades, slot)
  PROVE  /\ Extended(slot) /\ \A k \in DOMAIN trades' : trades'[k] <= slot
         /\ Len(trades) + 1 \in Nat /\ New = {Len(trades) + 1}
         /\ DOMAIN trades' = 1..Len(trades) + 1 /\ trades'[Len(trades) + 1] = slot
<1>1. /\ Len(trades) \in Nat /\ DOMAIN trades = 1..Len(trades)
      /\ trades' \in Seq(Nat) /\ DOMAIN trades' = 1..Len(trades) + 1
      /\ trades'[Len(trades) + 1] = slot
      /\ \A k \in DOMAIN trades : trades'[k] = trades[k]
  BY DEF Typed
<1>2. New = {Len(trades) + 1}
  BY <1>1 DEF New
<1>3. \A k \in DOMAIN trades' : trades'[k] <= slot
  BY <1>1 DEF Typed
<1>4. Slot' = slot
  <2>1. \E k \in DOMAIN trades' : trades'[k] = slot
    BY <1>1
  <2>2. Max(Range(trades') \cup {0}) = slot
    BY <1>1, <1>3, <2>1, SlotIs
  <2> QED BY <2>2 DEF Slot
<1>5. slot \in Slot..slot
  BY DEF Typed
<1> QED BY <1>1, <1>2, <1>3, <1>4, <1>5 DEF Extended

(* All updates of the new trade are under way. *)
LEMMA FramesArrive ==
  ASSUME Typed, NEW slot \in Nat, Slot <= slot, trades' = Append(trades, slot),
         wire' \in Frames(slot, Len(trades) + 1), NEW i \in Intervals
  PROVE  Arrives(i, slot)
<1> DEFINE n == Len(trades) + 1
           x == OpenOf(i, slot)
<1>1. /\ n \in Nat /\ New = {n} /\ DOMAIN trades' = 1..n /\ trades'[n] = slot
  BY OneMore
<1>2. /\ OpenOf(i, Slot) \in Nat /\ x \in Nat /\ OpenOf(i, Slot) <= x
  BY OpenIs DEF Typed
<1>3. /\ \A k \in DOMAIN wire' : \E j \in Intervals : wire'[k] = Frame(j, slot, n)
      /\ \A j, k \in DOMAIN wire' : wire'[j].interval = wire'[k].interval => j = k
      /\ \A j \in Intervals : \E k \in DOMAIN wire' : wire'[k] = Frame(j, slot, n)
  BY <1>1, FramesAre
<1>4. \A k \in Updates(i)' : /\ k \in DOMAIN wire' /\ wire'[k].interval = i
                             /\ wire'[k].open = x /\ wire'[k].ver = n
  BY <1>1, <1>3, FrameIs DEF Updates, IsUpdate
<1>5. \E k \in Updates(i)' : wire'[k].open = x
  <2>1. PICK k \in DOMAIN wire' : wire'[k] = Frame(i, slot, n)
    BY <1>3
  <2>2. IsUpdate(wire'[k], i) /\ wire'[k].open = x
    BY <1>1, <2>1, FrameIs
  <2> QED BY <2>2 DEF Updates, IsUpdate
<1>6. /\ n \in DOMAIN trades' /\ OpenOf(i, trades'[n]) = x
      /\ \A k \in DOMAIN trades' : OpenOf(i, trades'[k]) = x => k <= n
  BY <1>1
<1> HIDE DEF n, x
<1>7. \A k \in Updates(i)' : Settled(i, wire[k])'
  BY <1>4, <1>6 DEF Settled, Final
<1>8. \A k \in Updates(i)' : wire'[k].open \in OpenOf(i, Slot)..x
  BY <1>2, <1>4
<1>9. \A j, k \in Updates(i)' : ~(j < k)
  <2>1. \A k \in DOMAIN wire' : k \in Int
    BY <1>1, FramesAre DEF n
  <2> QED BY <1>3, <1>4, <2>1
<1>10. \A k \in New : \E j \in Updates(i)' : wire'[j].open = OpenOf(i, trades'[k])
  BY <1>1, <1>5 DEF x
<1> QED BY <1>7, <1>8, <1>9, <1>10 DEF Arrives, x

LEMMA TradeKeeps ==
  ASSUME Inv, NEW slot \in Slot..MaxSlot, wire = << >>, Trade(slot), UNCHANGED <<held, candles>>
  PROVE  Inv'
<1> DEFINE n == Len(trades) + 1
<1>1. Typed /\ slot \in Nat /\ Slot <= slot /\ trades' = Append(trades, slot)
  BY FeedAssumption DEF Inv, Typed, Trade
<1>2. n \in Nat /\ Extended(slot) /\ New = {n} /\ trades'[n] = slot
      /\ \A k \in DOMAIN trades' : trades'[k] <= slot
  BY <1>1, OneMore
<1>3. PICK frames \in Frames(slot, n) : Sent(frames)
  BY DEF Trade
<1>4. /\ frames \in Seq(CandleFrame)
      /\ \A i \in Intervals : \E k \in DOMAIN frames : frames[k] = Frame(i, slot, n)
  BY <1>1, <1>2, FramesAre
<1>5. CASE conn = "open"
  <2>1. wire' = frames /\ missed' = missed
    BY <1>3, <1>4, <1>5 DEF Sent
  <2>2. \A i \in Intervals : Arrives(i, slot)
    BY <1>1, <1>3, <2>1, FramesArrive
  <2>3. wire' \in Seq(CandleFrame \cup {Control})
    BY <1>4, <2>1
  <2> QED BY <1>1, <1>2, <2>1, <2>2, <2>3, TradesKeep
<1>6. CASE conn # "open"
  <2>1. wire' = wire /\ missed' = missed \cup {<<f.interval, f.open>> : f \in Range(frames)}
    BY <1>3, <1>6 DEF Sent
  <2>2. \A i \in Intervals : <<i, OpenOf(i, slot)>> \in missed'
    <3> SUFFICES ASSUME NEW i \in Intervals PROVE <<i, OpenOf(i, slot)>> \in missed'
      OBVIOUS
    <3>1. PICK k \in DOMAIN frames : frames[k] = Frame(i, slot, n)
      BY <1>4
    <3>2. frames[k] \in Range(frames)
      BY DEF Range
    <3>3. frames[k].interval = i /\ frames[k].open = OpenOf(i, slot)
      BY <1>1, <1>2, <3>1, FrameIs
    <3> QED BY <2>1, <3>2, <3>3
  <2>3. \A i \in Intervals : Updates(i)' = {}
    BY <2>1 DEF Updates
  <2>4. \A i \in Intervals : Arrives(i, slot)
    BY <1>2, <2>2, <2>3 DEF Arrives
  <2>5. wire' \in Seq(CandleFrame \cup {Control}) /\ missed \subseteq missed'
    BY <1>1, <2>1 DEF Typed
  <2> QED BY <1>1, <1>2, <2>4, <2>5, TradesKeep
<1> QED BY <1>5, <1>6

LEMMA GarbledTradeKeeps ==
  ASSUME Inv, NEW slot \in Slot..MaxSlot, wire = << >>, GarbledTrade(slot),
         UNCHANGED <<held, candles>>
  PROVE  Inv'
<1> DEFINE n == Len(trades) + 1
<1>1. Typed /\ slot \in Nat /\ Slot <= slot /\ trades' = Append(trades, slot)
  BY FeedAssumption DEF Inv, Typed, GarbledTrade
<1>2. n \in Nat /\ Extended(slot) /\ New = {n} /\ trades'[n] = slot
      /\ \A k \in DOMAIN trades' : trades'[k] <= slot
  BY <1>1, OneMore
<1>3. PICK j \in Intervals : wire' = wire \o <<Control, Garbled(Frame(j, slot, n))>>
  BY DEF GarbledTrade
<1>4. PICK g : g = Garbled(Frame(j, slot, n))
  OBVIOUS
<1>5. g \in CandleFrame /\ ~g.valid
  BY <1>1, <1>2, <1>4, FrameIs
<1>6. wire' = <<Control, g>>
  BY <1>3, <1>4
<1>7. wire' \in Seq(CandleFrame \cup {Control})
  BY <1>5, <1>6
<1>8. \A i \in Intervals : Updates(i)' = {}
  <2>1. \A k \in DOMAIN wire' : wire'[k] = Control \/ wire'[k] = g
    BY <1>6
  <2> QED BY <1>5, <2>1, ControlIs DEF Updates, IsUpdate
<1>9. missed \subseteq missed' /\ \A i \in Intervals : <<i, OpenOf(i, slot)>> \in missed'
  BY DEF GarbledTrade
<1>10. \A i \in Intervals : Arrives(i, slot)
  BY <1>2, <1>8, <1>9 DEF Arrives
<1> QED BY <1>1, <1>2, <1>7, <1>9, <1>10, TradesKeep

WithLate(slot) == trades' = trades \o <<slot, Slot>>

LEMMA TwoMore ==
  ASSUME Typed, NEW slot \in Nat, Slot < slot, WithLate(slot)
  PROVE  /\ Extended(slot) /\ \A k \in DOMAIN trades' : trades'[k] <= slot
         /\ Len(trades) \in Nat /\ New = {Len(trades) + 1, Len(trades) + 2}
         /\ DOMAIN trades' = 1..Len(trades) + 2
         /\ trades'[Len(trades) + 1] = slot /\ trades'[Len(trades) + 2] = Slot
<1>1. /\ Len(trades) \in Nat /\ DOMAIN trades = 1..Len(trades)
      /\ trades' \in Seq(Nat) /\ DOMAIN trades' = 1..Len(trades) + 2
      /\ trades'[Len(trades) + 1] = slot /\ trades'[Len(trades) + 2] = Slot
      /\ \A k \in DOMAIN trades : trades'[k] = trades[k]
  <2>1. PICK q : q = <<slot, Slot>>
    OBVIOUS
  <2>2. q \in Seq(Nat) /\ Len(q) = 2 /\ q[1] = slot /\ q[2] = Slot
    BY <2>1 DEF Typed
  <2>3. trades' = trades \o q /\ trades \in Seq(Nat)
    BY <2>1 DEF Typed, WithLate
  <2>4. /\ trades' \in Seq(Nat) /\ Len(trades) \in Nat
        /\ DOMAIN trades = 1..Len(trades) /\ DOMAIN trades' = 1..Len(trades) + 2
        /\ \A k \in DOMAIN trades : trades'[k] = trades[k]
        /\ \A k \in 1..2 : trades'[Len(trades) + k] = q[k]
    <3>1. DOMAIN q = 1..2
      BY <2>2
    <3>2. /\ trades \o q \in Seq(Nat) /\ Len(trades) \in Nat /\ DOMAIN trades = 1..Len(trades)
          /\ DOMAIN (trades \o q) = 1..Len(trades) + Len(q)
          /\ \A k \in DOMAIN trades : (trades \o q)[k] = trades[k]
          /\ \A k \in DOMAIN q : (trades \o q)[Len(trades) + k] = q[k]
      <4>1. q \in Seq(Nat) /\ trades \in Seq(Nat)
        BY <2>2, <2>3
      <4> QED BY <4>1, Joined
    <3> QED BY <2>2, <2>3, <3>1, <3>2
  <2> QED BY <2>2, <2>4
<1>2. New = {Len(trades) + 1, Len(trades) + 2}
  <2>1. \A k : k \in 1..Len(trades) + 2 /\ k \notin 1..Len(trades)
              <=> k = Len(trades) + 1 \/ k = Len(trades) + 2
    BY <1>1
  <2> QED BY <1>1, <2>1 DEF New
<1>3. \A k \in DOMAIN trades' : trades'[k] <= slot
  <2>1. \A k \in DOMAIN trades : trades'[k] \in Nat /\ trades'[k] <= Slot /\ Slot \in Nat
    BY <1>1 DEF Typed
  <2>2. \A k \in DOMAIN trades' : k \in DOMAIN trades \/ k \in New
    BY DEF New
  <2>3. Slot \in Nat
    BY DEF Typed
  <2> QED BY <1>1, <1>2, <2>1, <2>2, <2>3
<1>4. Slot' = slot
  <2>1. Len(trades) + 1 \in 1..Len(trades) + 2
    BY <1>1
  <2>2. Max(Range(trades') \cup {0}) = slot
    BY <1>1, <1>3, <2>1, SlotIs
  <2> QED BY <2>2 DEF Slot
<1>5. slot \in Slot..slot /\ Slot \in Slot..slot
  BY DEF Typed
<1> QED BY <1>1, <1>2, <1>3, <1>4, <1>5 DEF Extended

Follows(new, old) == wire' = new \o old

LEMMA LateFramesArrive ==
  ASSUME Typed, NEW slot \in Nat, Slot < slot, WithLate(slot),
         NEW new \in Frames(slot, Len(trades) + 1), NEW old \in Frames(Slot, Len(trades) + 2),
         Follows(new, old), NEW i \in Intervals, <<i, OpenOf(i, Slot)>> \in missed'
  PROVE  Arrives(i, slot)
<1> DEFINE n == Len(trades) + 1
           m == Len(trades) + 2
           x == OpenOf(i, slot)
           y == OpenOf(i, Slot)
<1>1. /\ n \in Nat /\ m \in Nat /\ m = n + 1 /\ New = {n, m} /\ DOMAIN trades' = 1..m
      /\ trades'[n] = slot /\ trades'[m] = Slot
  BY TwoMore
<1>2. x \in Nat /\ y \in Nat /\ y <= x
  BY OpenIs DEF Typed
<1>3. /\ new \in Seq(CandleFrame)
      /\ \A k \in DOMAIN new : \E j \in Intervals : new[k] = Frame(j, slot, n)
      /\ \A j, k \in DOMAIN new : new[j].interval = new[k].interval => j = k
      /\ \A j \in Intervals : \E k \in DOMAIN new : new[k] = Frame(j, slot, n)
  BY <1>1, FramesAre
<1>4. /\ old \in Seq(CandleFrame)
      /\ \A k \in DOMAIN old : \E j \in Intervals : old[k] = Frame(j, Slot, m)
  <2>1. Slot \in Nat /\ m \in Nat /\ old \in Frames(Slot, m)
    BY <1>1 DEF Typed
  <2> HIDE DEF m
  <2> QED BY <2>1, FramesAre
<1>5. /\ Len(new) \in Nat /\ DOMAIN new = 1..Len(new) /\ DOMAIN wire' \subseteq Nat
      /\ \A k \in DOMAIN new : k \in DOMAIN wire' /\ wire'[k] = new[k]
      /\ \A k \in DOMAIN wire' : k \in DOMAIN new
                                 \/ (k - Len(new) \in DOMAIN old /\ wire'[k] = old[k - Len(new)])
  <2>1. new \in Seq(CandleFrame) /\ old \in Seq(CandleFrame)
    BY <1>3, <1>4
  <2> QED BY <2>1, Joined DEF Follows
<1>6. \A k \in Updates(i)' : k \in DOMAIN wire' /\ wire'[k].interval = i
  BY DEF Updates, IsUpdate
<1>7. ASSUME NEW k \in Updates(i)', k \in DOMAIN new
      PROVE  wire'[k].open = x /\ wire'[k].ver = n
  <2>1. PICK j \in Intervals : wire'[k] = Frame(j, slot, n)
    BY <1>3, <1>5, <1>7
  <2> QED BY <1>1, <1>6, <1>7, <2>1, FrameIs
<1>8. ASSUME NEW k \in Updates(i)', k \notin DOMAIN new PROVE wire'[k].open = y
  <2>1. PICK j \in Intervals : wire'[k] = Frame(j, Slot, m)
    BY <1>4, <1>5, <1>6, <1>8
  <2>2. Slot \in Nat
    BY DEF Typed
  <2>3. Frame(j, Slot, m).interval = j /\ Frame(j, Slot, m).open = OpenOf(j, Slot)
    BY <1>1, <2>2, FrameIs
  <2>4. j = i
    BY <1>6, <1>8, <2>1, <2>3
  <2> QED BY <2>1, <2>3, <2>4
<1>9. \E k \in Updates(i)' : wire'[k].open = x
  <2>1. PICK k \in DOMAIN new : wire'[k] = Frame(i, slot, n) /\ k \in DOMAIN wire'
    BY <1>3, <1>5
  <2>2. IsUpdate(wire'[k], i) /\ wire'[k].open = x
    BY <1>1, <2>1, FrameIs
  <2> QED BY <2>1, <2>2 DEF Updates, IsUpdate
<1>10. \/ <<i, x>> \in missed'
       \/ /\ n \in DOMAIN trades' /\ OpenOf(i, trades'[n]) = x
          /\ \A k \in DOMAIN trades' : OpenOf(i, trades'[k]) = x => k <= n
  <2>1. n \in DOMAIN trades' /\ \A k \in DOMAIN trades' : k <= n \/ k = m
    BY <1>1
  <2>2. CASE x = y
    BY <2>2
  <2>3. CASE x # y
    BY <1>1, <2>1, <2>3
  <2> QED BY <2>2, <2>3
<1>11. <<i, y>> \in missed'
  OBVIOUS
<1>12. \A k \in New : \/ <<i, OpenOf(i, trades'[k])>> \in missed'
                      \/ \E j \in Updates(i)' : wire'[j].open = OpenOf(i, trades'[k])
  BY <1>1, <1>9, <1>11
<1> HIDE DEF n, x, y
<1>13. \A k \in Updates(i)' : Settled(i, wire[k])'
  BY <1>7, <1>8, <1>10, <1>11 DEF Settled, Final
<1>14. \A k \in Updates(i)' : wire'[k].open \in y..x
  BY <1>2, <1>7, <1>8
<1>15. \A j, k \in Updates(i)' : j < k => <<i, wire'[k].open>> \in missed'
  <2> SUFFICES ASSUME NEW j \in Updates(i)', NEW k \in Updates(i)', j < k
               PROVE  <<i, wire'[k].open>> \in missed'
    OBVIOUS
  <2>1. CASE k \in DOMAIN new
    <3>1. j \in DOMAIN wire' /\ k \in DOMAIN wire' /\ j \in Nat /\ k \in Nat /\ j >= 1
      BY <1>5, <1>6, <2>1
    <3>2. j \in DOMAIN new
      BY <1>5, <2>1, <3>1
    <3>3. new[j].interval = i /\ new[k].interval = i
      BY <1>5, <1>6, <2>1, <3>2
    <3>4. j = k
      BY <1>3, <2>1, <3>2, <3>3
    <3> QED BY <3>1, <3>4
  <2>2. CASE k \notin DOMAIN new
    BY <1>8, <1>11, <2>2
  <2> QED BY <2>1, <2>2
<1> QED BY <1>12, <1>13, <1>14, <1>15 DEF Arrives, x, y

LEMMA LateTradeKeeps ==
  ASSUME Inv, NEW slot \in Slot..MaxSlot, wire = << >>, LateTrade(slot),
         UNCHANGED <<held, candles>>
  PROVE  Inv'
<1>1. Typed /\ slot \in Nat /\ Slot < slot /\ WithLate(slot)
  BY FeedAssumption DEF Inv, Typed, LateTrade, WithLate
<1>2. Extended(slot) /\ \A k \in DOMAIN trades' : trades'[k] <= slot
      /\ Len(trades) + 1 \in Nat /\ Len(trades) + 2 \in Nat
  <2>1. Extended(slot) /\ Len(trades) \in Nat /\ \A k \in DOMAIN trades' : trades'[k] <= slot
    BY <1>1, TwoMore
  <2> QED BY <2>1
<1>3. PICK new \in Frames(slot, Len(trades) + 1), old \in Frames(Slot, Len(trades) + 2) :
        wire' = wire \o new \o old
  BY DEF LateTrade
<1>4. new \in Seq(CandleFrame) /\ old \in Seq(CandleFrame)
  BY <1>1, <1>2, <1>3, FramesAre DEF Typed
<1>5. wire' = new \o old
  BY <1>3, <1>4
<1>6. wire' \in Seq(CandleFrame \cup {Control})
  <2>1. PICK S : S = CandleFrame \cup {Control}
    OBVIOUS
  <2>2. new \in Seq(S) /\ old \in Seq(S)
    BY <1>4, <2>1
  <2>3. wire' \in Seq(S)
    BY <1>5, <2>2
  <2> QED BY <2>1, <2>3
<1>7. missed \subseteq missed' /\ \A i \in Intervals : <<i, OpenOf(i, Slot)>> \in missed'
  BY DEF LateTrade
<1>8. \A i \in Intervals : Arrives(i, slot)
  BY <1>1, <1>3, <1>5, <1>7, LateFramesArrive DEF Follows
<1>9. Slot <= slot
  BY <1>1 DEF Typed
<1> QED BY <1>1, <1>2, <1>6, <1>7, <1>8, <1>9, TradesKeep

LEMMA ExchangeKeeps == ASSUME Inv, Exchange PROVE Inv'
  BY TradeKeeps, GarbledTradeKeeps, LateTradeKeeps DEF Exchange, agent

-----------------------------------------------------------------------------
(* The connection and the agent: nothing is closed, but frames may be lost. *)

LEMMA SettledStays ==
  ASSUME UNCHANGED trades, missed \subseteq missed', NEW i, NEW f, Settled(i, f)
  PROVE  Settled(i, f)'
  BY DEF Settled, Final

LEMMA NothingClosed ==
  ASSUME Inv, UNCHANGED <<trades, held, candles>>, missed \subseteq missed',
         wire' = wire \/ (wire' = << >> /\ Lost \subseteq missed')
  PROVE  Inv'
<1>1. Typed
  BY DEF Inv
<1>2. Slot' = Slot
  BY DEF Slot
<1>3. Typed'
  <2>1. wire' \in Seq(CandleFrame \cup {Control})
    <3>1. << >> \in Seq(CandleFrame \cup {Control})
      OBVIOUS
    <3> QED BY <1>1, <3>1 DEF Typed
  <2> QED BY <1>1, <1>2, <2>1 DEF Typed
<1>4. SUFFICES ASSUME NEW i \in Intervals PROVE Ordered(i)' /\ Content(i)'
  BY <1>3 DEF Inv
<1>5. Ordered(i) /\ Content(i)
  BY DEF Inv
<1>6. /\ ClosedOnes(i)' = ClosedOnes(i)
      /\ \A o : ClosedBelow(i, o) => ClosedBelow(i, o)'
  BY SameClosed
<1>7. \A k \in Updates(i)' : k \in Updates(i) /\ wire' = wire
  BY DEF Updates
<1>8. Ordered(i)'
  BY <1>2, <1>5, <1>6, <1>7 DEF Ordered
<1>9. \A k \in ClosedOnes(i)' : Settled(i, candles[k])'
  <2> SUFFICES ASSUME NEW k \in ClosedOnes(i)' PROVE Settled(i, candles[k])'
    OBVIOUS
  <2>1. PICK c : c = candles[k]
    OBVIOUS
  <2>2. Settled(i, c)'
    BY <1>5, <1>6, <2>1, SettledStays DEF Content
  <2> QED BY <2>1, <2>2 DEF Settled, Final
<1>10. \A k \in Updates(i)' : Settled(i, wire[k])'
  <2> SUFFICES ASSUME NEW k \in Updates(i)' PROVE Settled(i, wire[k])'
    OBVIOUS
  <2>1. PICK f : f = wire[k]
    OBVIOUS
  <2>2. Settled(i, f)' /\ wire' = wire
    BY <1>5, <1>7, <2>1, SettledStays DEF Content
  <2> QED BY <2>1, <2>2 DEF Settled, Final
<1>11. \A j, k \in Updates(i)' : j < k => <<i, wire'[k].open>> \in missed'
  BY <1>5, <1>7 DEF Content
<1>12. ASSUME held[i] # Nothing
       PROVE  Settled(i, held[i])' \/ \E k \in Updates(i)' : wire'[k].open = held'[i].open
  <2>1. PICK h : h = held[i]
    OBVIOUS
  <2>2. CASE Settled(i, h)
    <3>1. Settled(i, h)'
      BY <2>2, SettledStays
    <3> QED BY <2>1, <3>1 DEF Settled, Final
  <2>3. CASE \E k \in Updates(i) : wire[k].open = h.open
    <3>1. PICK k \in Updates(i) : wire[k].open = h.open
      BY <2>3
    <3>2. CASE wire' = wire
      BY <2>1, <3>1, <3>2 DEF Updates
    <3>3. CASE Lost \subseteq missed'
      <4>1. wire[k] \in Range(wire) /\ Yields(wire[k]) /\ wire[k].interval = i
        BY DEF Updates, IsUpdate, Range
      <4>2. <<i, h.open>> \in missed'
        BY <3>1, <3>3, <4>1 DEF Lost
      <4> QED BY <2>1, <4>2 DEF Settled
    <3> QED BY <3>2, <3>3
  <2> QED BY <1>5, <1>12, <2>1, <2>2, <2>3 DEF Content
<1>13. (held[i] # Nothing => \/ Settled(i, held[i])
                             \/ \E k \in Updates(i) : wire[k].open = held[i].open)'
  BY <1>12
<1>14. Content(i)'
  BY <1>9, <1>10, <1>11, <1>13 DEF Content
<1> QED BY <1>8, <1>14

LEMMA ConnectionKeeps == ASSUME Inv, CollectorConnection PROVE Inv'
<1>1. wire' = wire \/ wire' = << >>
  <2>1. CASE Connect \/ ReceiveTimeout \/ Wake
    BY <2>1 DEF Connect, ReceiveTimeout, Wake
  <2>2. CASE Lose \/ GoSilent
    BY <2>2 DEF Lose, GoSilent
  <2> QED BY <2>1, <2>2 DEF CollectorConnection, Reconnection
<1>2. /\ UNCHANGED <<trades, held, candles>> /\ missed \subseteq missed'
      /\ wire' # wire => Lost \subseteq missed'
  BY DEF CollectorConnection
<1> QED BY <1>1, <1>2, NothingClosed

LEMMA OthersKeep ==
  ASSUME Inv, CollectorStarts \/ AgentReads \/ AgentRestarts \/ UNCHANGED feedVars
  PROVE  Inv'
<1>1. UNCHANGED <<trades, missed, held, candles, wire>>
  BY DEF CollectorStarts, OpenClient, AgentReads, AgentRestarts, feedVars, collector, connection
<1> QED BY <1>1, NothingClosed

-----------------------------------------------------------------------------
(* The collector takes a frame. *)

LEMMA FrameTaken ==
  ASSUME Typed, wire # << >>, wire' = Tail(wire)
  PROVE  /\ wire' \in Seq(CandleFrame \cup {Control}) /\ Head(wire) = wire[1] /\ 1 \in DOMAIN wire
         /\ \A i : \A k \in Updates(i)' : /\ k \in Nat \ {0} /\ k + 1 \in Updates(i)
                                          /\ wire'[k] = wire[k + 1]
         /\ \A i : \A k \in Updates(i) \ {1} : k - 1 \in Updates(i)' /\ wire'[k - 1] = wire[k]
<1> DEFINE S == CandleFrame \cup {Control}
<1>1. /\ wire \in Seq(S) /\ Len(wire) \in Nat \ {0} /\ DOMAIN wire = 1..Len(wire)
      /\ Head(wire) = wire[1]
  BY DEF Typed
<1> HIDE DEF S
<1>2. /\ wire' \in Seq(S) /\ Len(wire') = Len(wire) - 1 /\ DOMAIN wire' = 1..Len(wire')
      /\ \A k \in 1..Len(wire') : wire'[k] = wire[k + 1]
  BY <1>1, HeadTailProperties, LenProperties
<1>3. \A k \in DOMAIN wire' : k \in Nat \ {0} /\ k + 1 \in DOMAIN wire /\ wire'[k] = wire[k + 1]
  BY <1>1, <1>2
<1>4. \A k \in DOMAIN wire \ {1} : k - 1 \in DOMAIN wire' /\ wire'[k - 1] = wire[k]
  BY <1>1, <1>2
<1>5. \A i : \A k \in Updates(i)' : /\ k \in Nat \ {0} /\ k + 1 \in Updates(i)
                                    /\ wire'[k] = wire[k + 1]
  BY <1>3 DEF Updates, IsUpdate
<1>6. \A i : \A k \in Updates(i) \ {1} : k - 1 \in Updates(i)' /\ wire'[k - 1] = wire[k]
  BY <1>4 DEF Updates, IsUpdate
<1>7. wire' \in Seq(CandleFrame \cup {Control})
  BY <1>2 DEF S
<1>8. 1 \in DOMAIN wire
  BY <1>1
<1> QED BY <1>1, <1>5, <1>6, <1>7, <1>8

(* What is said of the updates still under way is kept. *)
LEMMA UpdatesAfter ==
  ASSUME Inv, UNCHANGED <<trades, missed>>, wire # << >>, wire' = Tail(wire),
         NEW i \in Intervals
  PROVE  /\ \A k \in Updates(i)' : Settled(i, wire[k])'
         /\ \A j, k \in Updates(i)' : j < k => <<i, wire'[k].open>> \in missed'
         /\ \A h : (Settled(i, h) \/ \E k \in Updates(i) \ {1} : wire[k].open = h.open)
                     => (Settled(i, h)' \/ \E k \in Updates(i)' : wire'[k].open = h.open)
<1>1. Typed /\ Content(i)
  BY DEF Inv
<1>2. /\ \A k \in Updates(i)' : /\ k \in Nat \ {0} /\ k + 1 \in Updates(i)
                                /\ wire'[k] = wire[k + 1]
      /\ \A k \in Updates(i) \ {1} : k - 1 \in Updates(i)' /\ wire'[k - 1] = wire[k]
  BY <1>1, FrameTaken
<1>3. \A f : Settled(i, f) => Settled(i, f)'
  BY SettledStays
<1>4. \A k \in Updates(i)' : Settled(i, wire[k])'
  <2> SUFFICES ASSUME NEW k \in Updates(i)' PROVE Settled(i, wire[k])'
    OBVIOUS
  <2>1. PICK f : f = wire'[k]
    OBVIOUS
  <2>2. Settled(i, f)'
    BY <1>1, <1>2, <1>3, <2>1 DEF Content
  <2> QED BY <2>1, <2>2 DEF Settled, Final
<1>5. \A j, k \in Updates(i)' : j < k => <<i, wire'[k].open>> \in missed'
  <2> SUFFICES ASSUME NEW j \in Updates(i)', NEW k \in Updates(i)', j < k
               PROVE  <<i, wire'[k].open>> \in missed'
    OBVIOUS
  <2>1. /\ j \in Nat /\ k \in Nat /\ j + 1 \in Updates(i) /\ k + 1 \in Updates(i)
        /\ wire'[k] = wire[k + 1]
    BY <1>2
  <2>2. j + 1 < k + 1
    BY <2>1
  <2> QED BY <1>1, <2>1, <2>2 DEF Content
<1>6. ASSUME NEW h, NEW k \in Updates(i) \ {1}, wire[k].open = h.open
      PROVE  \E u \in Updates(i)' : wire'[u].open = h.open
  BY <1>2, <1>6
<1> QED BY <1>3, <1>4, <1>5, <1>6

(* A frame that changes nothing: no update, or one of an older candle. *)
LEMMA FramePassed ==
  ASSUME Inv, UNCHANGED <<trades, missed, held, candles>>, wire # << >>, wire' = Tail(wire),
         \A i \in Intervals : 1 \in Updates(i) => held[i] # Nothing /\ wire[1].open < held[i].open
  PROVE  Inv'
<1>1. Typed /\ Slot' = Slot
  BY DEF Inv, Slot
<1>2. /\ wire' \in Seq(CandleFrame \cup {Control})
      /\ \A i : \A k \in Updates(i)' : k + 1 \in Updates(i) /\ wire'[k] = wire[k + 1]
  BY <1>1, FrameTaken
<1>3. Typed'
  BY <1>1, <1>2 DEF Typed
<1>4. SUFFICES ASSUME NEW i \in Intervals PROVE Ordered(i)' /\ Content(i)'
  BY <1>3 DEF Inv
<1>5. Ordered(i) /\ Content(i)
  BY DEF Inv
<1>6. /\ ClosedOnes(i)' = ClosedOnes(i)
      /\ \A o : ClosedBelow(i, o) => ClosedBelow(i, o)'
  BY SameClosed
<1>7. Ordered(i)'
  BY <1>1, <1>2, <1>5, <1>6 DEF Ordered
<1>8. \A k \in ClosedOnes(i)' : Settled(i, candles[k])'
  BY <1>5, <1>6 DEF Content, Settled, Final
<1>9. ASSUME held[i] # Nothing
      PROVE  Settled(i, held[i])' \/ \E k \in Updates(i)' : wire'[k].open = held'[i].open
  <2>1. PICK h : h = held[i]
    OBVIOUS
  <2>2. Settled(i, h) \/ \E k \in Updates(i) : wire[k].open = h.open
    BY <1>5, <1>9, <2>1 DEF Content
  <2>3. 1 \in Updates(i) => wire[1].open # h.open
    <3>1. 1 \in Updates(i) => wire[1] \in CandleFrame /\ h \in CandleFrame
      BY <1>1, <1>9, <2>1, ControlIs DEF Typed, Updates, IsUpdate
    <3>2. 1 \in Updates(i) => wire[1].open \in Nat /\ h.open \in Nat /\ wire[1].open < h.open
      BY <2>1, <3>1 DEF CandleFrame
    <3> QED BY <3>2
  <2>4. Settled(i, h) \/ \E k \in Updates(i) \ {1} : wire[k].open = h.open
    BY <2>2, <2>3
  <2>5. Settled(i, h)' \/ \E k \in Updates(i)' : wire'[k].open = h.open
    BY <2>4, UpdatesAfter
  <2> QED BY <2>1, <2>5 DEF Settled, Final
<1>10. (held[i] # Nothing => \/ Settled(i, held[i])
                             \/ \E k \in Updates(i) : wire[k].open = held[i].open)'
  BY <1>9
<1>11. Content(i)'
  BY <1>8, <1>10, UpdatesAfter DEF Content
<1> QED BY <1>7, <1>11

(* What handle_candle() publishes of update f, or a part of it. *)
Says(p, f) ==
  /\ p \in Seq(TopicCandle) /\ Len(p) <= 2
  /\ p # << >> => ~Stale(f)
  /\ \A k \in DOMAIN p :
       /\ p[k].interval = f.interval
       /\ p[k].closed => /\ k = 1 /\ Rolls(f)
                         /\ p[k].open = held[f.interval].open
                         /\ p[k].ver = held[f.interval].ver
       /\ ~p[k].closed => p[k].open = f.open
  /\ Len(p) = 2 => p[1].closed /\ ~p[2].closed

LEMMA CandleIs ==
  ASSUME NEW f \in CandleFrame, NEW b \in BOOLEAN
  PROVE  /\ Candle(f, b) \in TopicCandle /\ Candle(f, b).interval = f.interval
         /\ Candle(f, b).open = f.open /\ Candle(f, b).ver = f.ver /\ Candle(f, b).closed = b
  BY DEF CandleFrame, TopicCandle, Candle

LEMMA PublicationsAre ==
  ASSUME Typed, NEW f \in CandleFrame
  PROVE  Says(Publications(f), f)
<1>0. PICK p : p = Publications(f)
  OBVIOUS
<1>1. f.interval \in Intervals
  BY DEF CandleFrame
<1>2. PICK a, b : a = Candle(held[f.interval], TRUE) /\ b = Candle(f, FALSE)
  OBVIOUS
<1>3. /\ b \in TopicCandle /\ b.interval = f.interval /\ b.open = f.open /\ ~b.closed
  BY <1>2, CandleIs
<1>4. ASSUME Rolls(f)
      PROVE  /\ a \in TopicCandle /\ a.interval = f.interval /\ a.closed
             /\ a.open = held[f.interval].open /\ a.ver = held[f.interval].ver
  <2>1. held[f.interval] \in CandleFrame /\ held[f.interval].interval = f.interval
    BY <1>1, <1>4 DEF Typed, Rolls
  <2> QED BY <1>2, <2>1, CandleIs
<1>5. CASE Stale(f) \/ (~Rolls(f) /\ ~PublishUnclosed)
  <2>1. p = << >>
    BY <1>0, <1>5 DEF Publications
  <2>2. << >> \in Seq(TopicCandle) /\ Len(<< >>) = 0 /\ DOMAIN << >> = {}
    OBVIOUS
  <2> QED BY <1>0, <2>1, <2>2 DEF Says
<1>6. CASE ~Stale(f) /\ Rolls(f) /\ ~PublishUnclosed
  <2>1. p = <<a>>
    <3>1. p = <<a>> \o << >>
      BY <1>0, <1>2, <1>6 DEF Publications
    <3>2. <<a>> \in Seq(TopicCandle)
      BY <1>4, <1>6
    <3> QED BY <3>1, <3>2, ConcatEmptySeq
  <2>2. p \in Seq(TopicCandle) /\ Len(p) = 1 /\ DOMAIN p = {1} /\ p[1] = a
    BY <1>4, <1>6, <2>1
  <2>3. \A k \in DOMAIN p : k = 1 /\ p[k] = a
    BY <2>2
  <2>4. Len(p) <= 2 /\ Len(p) # 2
    BY <2>2
  <2> QED BY <1>0, <1>4, <1>6, <2>2, <2>3, <2>4 DEF Says
<1>7. CASE ~Stale(f) /\ ~Rolls(f) /\ PublishUnclosed
  <2>1. p = <<b>>
    <3>1. p = << >> \o <<b>>
      BY <1>0, <1>2, <1>7 DEF Publications
    <3>2. <<b>> \in Seq(TopicCandle)
      BY <1>3
    <3> QED BY <3>1, <3>2, ConcatEmptySeq
  <2>2. p \in Seq(TopicCandle) /\ Len(p) = 1 /\ DOMAIN p = {1} /\ p[1] = b
    BY <1>3, <2>1
  <2> QED BY <1>0, <1>3, <1>7, <2>2 DEF Says
<1>8. CASE ~Stale(f) /\ Rolls(f) /\ PublishUnclosed
  <2>1. PICK u, v : u = <<a>> /\ v = <<b>>
    OBVIOUS
  <2>2. /\ u \in Seq(TopicCandle) /\ Len(u) = 1 /\ DOMAIN u = {1} /\ u[1] = a
        /\ v \in Seq(TopicCandle) /\ Len(v) = 1 /\ DOMAIN v = {1} /\ v[1] = b
    BY <1>3, <1>4, <1>8, <2>1
  <2>3. p \in Seq(TopicCandle) /\ Len(p) = 2 /\ DOMAIN p = {1, 2} /\ p[1] = a /\ p[2] = b
    <3>1. p = u \o v
      BY <1>0, <1>2, <1>8, <2>1 DEF Publications
    <3>2. /\ u \o v \in Seq(TopicCandle) /\ Len(u \o v) = Len(u) + Len(v)
          /\ DOMAIN (u \o v) = 1..Len(u) + Len(v)
          /\ \A k \in DOMAIN u : (u \o v)[k] = u[k]
          /\ \A k \in DOMAIN v : (u \o v)[Len(u) + k] = v[k]
      BY <2>2, Joined
    <3> QED BY <2>2, <3>1, <3>2
  <2>4. \A k \in DOMAIN p : (k = 1 /\ p[k] = a) \/ (k = 2 /\ p[k] = b)
    BY <2>3
  <2>5. Len(p) <= 2
    BY <2>3
  <2> QED BY <1>0, <1>3, <1>4, <1>8, <2>3, <2>4, <2>5 DEF Says
<1> QED BY <1>5, <1>6, <1>7, <1>8, FeedAssumption

LEMMA PartSaid ==
  ASSUME NEW f, NEW p, Says(p, f), NEW n \in 0..Len(p)
  PROVE  Says(SubSeq(p, 1, n), f)
<1>1. p \in Seq(TopicCandle) /\ Len(p) \in Nat /\ DOMAIN p = 1..Len(p)
  BY DEF Says
<1>2. PICK q : q = SubSeq(p, 1, n)
  OBVIOUS
<1>3. /\ q \in Seq(TopicCandle) /\ Len(q) = n /\ DOMAIN q = 1..n
      /\ \A k \in 1..n : k \in DOMAIN p /\ q[k] = p[k]
  <2>1. \A k \in 1..n : k \in DOMAIN p /\ p[k] \in TopicCandle
    BY <1>1
  <2>2. /\ q \in Seq(TopicCandle) /\ Len(q) = IF 1 <= n THEN n - 1 + 1 ELSE 0
        /\ \A k \in 1..n - 1 + 1 : q[k] = p[1 + k - 1]
    BY <1>1, <1>2, <2>1, SubSeqProperties
  <2>3. Len(q) = n /\ \A k \in 1..n : k \in 1..n - 1 + 1 /\ 1 + k - 1 = k
    BY <1>1, <2>2
  <2>4. \A k \in 1..n : q[k] = p[k]
    BY <2>2, <2>3
  <2> QED BY <2>1, <2>2, <2>3, <2>4, LenProperties
<1>4. p = << >> => q = << >>
  BY <1>1, <1>3
<1>5. n <= 2 /\ (n = 2 => Len(p) = 2)
  BY <1>1 DEF Says
<1>6. Says(q, f)
  BY <1>3, <1>4, <1>5 DEF Says
<1> QED BY <1>2, <1>6

(* What is known of an update f of interval i when it is taken. *)
LEMMA UpdateTaken ==
  ASSUME Inv, NEW i \in Intervals, 1 \in Updates(i), NEW f, f = wire[1]
  PROVE  /\ f \in CandleFrame /\ f.interval = i /\ f.open \in Nat
         /\ f.open <= OpenOf(i, Slot) /\ Settled(i, f)
         /\ held[i] # Nothing => held[i] \in CandleFrame /\ held[i].open \in Nat
         /\ ~Stale(f) => ClosedBelow(i, f.open)
         /\ Rolls(f) => /\ held[i] # Nothing /\ held[i].open < f.open
                        /\ ClosedBelow(i, held[i].open) /\ Settled(i, held[i])
<1>1. Typed /\ Ordered(i) /\ Content(i)
  BY DEF Inv
<1>2. f \in CandleFrame /\ f.interval = i
  BY <1>1, ControlIs DEF Typed, Updates, IsUpdate
<1>3. f.open \in Nat
  BY <1>2 DEF CandleFrame
<1>4. held[i] # Nothing => held[i] \in CandleFrame /\ held[i].open \in Nat
  BY <1>1 DEF Typed, CandleFrame
<1>5. f.open <= OpenOf(i, Slot) /\ (held[i] = Nothing => ClosedBelow(i, f.open))
  BY <1>1 DEF Ordered
<1>6. ASSUME ~Stale(f) PROVE ClosedBelow(i, f.open)
  <2>1. CASE held[i] = Nothing
    BY <1>5, <2>1
  <2>2. CASE held[i] # Nothing
    <3>1. held[i].open <= f.open
      BY <1>2, <1>3, <1>4, <1>6, <2>2 DEF Stale
    <3>2. ClosedBelow(i, held[i].open)
      BY <1>1, <2>2 DEF Ordered
    <3>3. \A k \in ClosedOnes(i) : candles[k].open \in Nat
      BY <1>1, ClosedTyped
    <3> QED BY <1>3, <1>4, <2>2, <3>1, <3>2, <3>3 DEF ClosedBelow
  <2> QED BY <2>1, <2>2
<1>7. ASSUME Rolls(f)
      PROVE  /\ held[i] # Nothing /\ held[i].open < f.open
             /\ ClosedBelow(i, held[i].open) /\ Settled(i, held[i])
  <2>1. held[i] # Nothing /\ held[i].open < f.open
    BY <1>2, <1>3, <1>4, <1>7 DEF Rolls
  <2>2. ClosedBelow(i, held[i].open)
    BY <1>1, <2>1 DEF Ordered
  <2>3. CASE \E k \in Updates(i) : wire[k].open = held[i].open
    <3>1. PICK k \in Updates(i) : wire[k].open = held[i].open
      BY <2>3
    <3>2. k # 1
      BY <1>3, <1>4, <2>1, <3>1
    <3>3. 1 < k
      BY <1>1, <3>2 DEF Typed, Updates
    <3>4. <<i, held[i].open>> \in missed
      BY <1>1, <3>1, <3>3 DEF Content
    <3> QED BY <2>1, <2>2, <3>4 DEF Settled
  <2>4. CASE Settled(i, held[i])
    BY <2>1, <2>2, <2>4
  <2> QED BY <1>1, <2>1, <2>3, <2>4 DEF Content
<1>8. Settled(i, f)
  BY <1>1 DEF Content
<1> QED BY <1>2, <1>3, <1>4, <1>5, <1>6, <1>7, <1>8

(* The candles that are closed after f was said: those before, and the one *)
(* that f rolls over.                                                      *)
RolledOver(k, f) ==
  /\ Rolls(f) /\ k \in DOMAIN candles'
  /\ candles'[k].interval = f.interval /\ candles'[k].open = held[f.interval].open
  /\ candles'[k].ver = held[f.interval].ver

LEMMA ClosedAfter ==
  ASSUME Typed, NEW f, NEW p, Says(p, f), candles' = candles \o p, NEW j
  PROVE  /\ candles' \in Seq(TopicCandle)
         /\ \A k \in ClosedOnes(j)' :
              \/ k \in ClosedOnes(j) /\ candles'[k] = candles[k]
              \/ j = f.interval /\ RolledOver(k, f)
<1>1. candles \in Seq(TopicCandle) /\ p \in Seq(TopicCandle)
  BY DEF Typed, Says
<1>2. /\ candles' \in Seq(TopicCandle)
      /\ \A k \in DOMAIN candles : candles'[k] = candles[k]
      /\ \A k \in DOMAIN candles' :
              \/ k \in DOMAIN candles
              \/ k - Len(candles) \in DOMAIN p /\ candles'[k] = p[k - Len(candles)]
  BY <1>1, Joined
<1>3. ASSUME NEW k \in ClosedOnes(j)'
      PROVE  \/ k \in ClosedOnes(j) /\ candles'[k] = candles[k]
             \/ j = f.interval /\ RolledOver(k, f)
  <2>1. k \in DOMAIN candles' /\ candles'[k].closed /\ candles'[k].interval = j
    BY <1>3 DEF ClosedOnes
  <2>2. CASE k \in DOMAIN candles
    BY <1>2, <2>1, <2>2 DEF ClosedOnes
  <2>3. CASE k - Len(candles) \in DOMAIN p /\ candles'[k] = p[k - Len(candles)]
    BY <2>1, <2>3 DEF Says, RolledOver
  <2> QED BY <1>2, <2>1, <2>2, <2>3
<1> QED BY <1>2, <1>3

(* A closing keeps what is said of closed candles. *)
LEMMA ClosingKeeps ==
  ASSUME Inv, NEW i \in Intervals, 1 \in Updates(i), NEW f, f = wire[1],
         NEW p, Says(p, f), candles' = candles \o p,
         UNCHANGED trades, missed \subseteq missed', NEW j \in Intervals
  PROVE  /\ \A k \in ClosedOnes(j)' : Settled(j, candles[k])'
         /\ \A o \in Nat : (ClosedBelow(j, o) /\ (j = i /\ Rolls(f) => held[i].open < o))
                             => ClosedBelow(j, o)'
         /\ ClosedBelow(j, OpenOf(j, Slot))'
<1>1. /\ Typed /\ Ordered(j) /\ Content(j) /\ Slot' = Slot
      /\ f.interval = i /\ f.open \in Nat /\ f.open <= OpenOf(i, Slot)
      /\ Rolls(f) => held[i].open \in Nat /\ held[i].open < f.open /\ Settled(i, held[i])
  BY UpdateTaken DEF Inv, Slot
<1>2. \A k \in ClosedOnes(j)' :
        \/ k \in ClosedOnes(j) /\ candles'[k] = candles[k]
        \/ j = i /\ RolledOver(k, f)
  BY <1>1, ClosedAfter
<1>3. ASSUME NEW k \in ClosedOnes(j)' PROVE Settled(j, candles[k])'
  <2>1. PICK c : c = candles'[k]
    OBVIOUS
  <2>2. Settled(j, c)
    <3>1. CASE k \in ClosedOnes(j) /\ candles'[k] = candles[k]
      BY <1>1, <2>1, <3>1 DEF Content
    <3>2. CASE j = i /\ RolledOver(k, f)
      BY <1>1, <2>1, <3>2 DEF RolledOver, Settled
    <3> QED BY <1>2, <3>1, <3>2
  <2>3. Settled(j, c)'
    BY <2>2, SettledStays
  <2> QED BY <2>1, <2>3 DEF Settled, Final
<1>4. ASSUME NEW o \in Nat, ClosedBelow(j, o), j = i /\ Rolls(f) => held[i].open < o
      PROVE  ClosedBelow(j, o)'
  BY <1>1, <1>2, <1>4 DEF ClosedBelow, RolledOver
<1>5. ClosedBelow(j, OpenOf(j, Slot))'
  <2>1. PICK o : o = OpenOf(j, Slot)
    OBVIOUS
  <2>2. o \in Nat
    BY <1>1, <2>1, OpenIs DEF Typed
  <2>3. j = i /\ Rolls(f) => held[i].open < o
    BY <1>1, <2>1, <2>2
  <2>4. ClosedBelow(j, o)'
    BY <1>1, <1>4, <2>1, <2>2, <2>3 DEF Ordered
  <2>5. o = OpenOf(j, Slot)'
    BY <1>1, <2>1 DEF OpenOf
  <2> QED BY <2>4, <2>5 DEF ClosedBelow
<1> QED BY <1>3, <1>4, <1>5

(* An update is kept, and what it says is published. *)
LEMMA UpdateKept ==
  ASSUME Inv, NEW i \in Intervals, 1 \in Updates(i), NEW f, f = wire[1], ~Stale(f),
         NEW p, Says(p, f), candles' = candles \o p, held' = [held EXCEPT ![i] = f],
         UNCHANGED <<trades, missed>>, wire # << >>, wire' = Tail(wire)
  PROVE  Inv'
<1>1. /\ Typed /\ Slot' = Slot
      /\ f \in CandleFrame /\ f.interval = i /\ f.open \in Nat /\ f # Nothing
      /\ f.open <= OpenOf(i, Slot) /\ Settled(i, f) /\ ClosedBelow(i, f.open)
      /\ Rolls(f) => held[i].open < f.open
  BY UpdateTaken, SomeFrame DEF Inv, Slot
<1>2. /\ wire' \in Seq(CandleFrame \cup {Control})
      /\ \A j : \A k \in Updates(j)' : k + 1 \in Updates(j) /\ wire'[k] = wire[k + 1]
  BY <1>1, FrameTaken
<1>3. candles' \in Seq(TopicCandle)
  BY <1>1, ClosedAfter
<1>4. /\ held' \in [Intervals -> CandleFrame \cup {Nothing}] /\ held'[i] = f
      /\ \A j \in Intervals \ {i} : held'[j] = held[j]
  BY <1>1 DEF Typed
<1>5. Typed'
  BY <1>1, <1>2, <1>3, <1>4 DEF Typed
<1>6. SUFFICES ASSUME NEW j \in Intervals PROVE Ordered(j)' /\ Content(j)'
  BY <1>5 DEF Inv
<1>7. Ordered(j) /\ Content(j)
  BY DEF Inv
<1>8. /\ \A k \in ClosedOnes(j)' : Settled(j, candles[k])'
      /\ \A o \in Nat : (ClosedBelow(j, o) /\ (j = i /\ Rolls(f) => held[i].open < o))
                          => ClosedBelow(j, o)'
      /\ ClosedBelow(j, OpenOf(j, Slot))'
  BY ClosingKeeps
<1>9. \A k \in Updates(j)' : wire'[k].open <= OpenOf(j, Slot)
  BY <1>2, <1>7 DEF Ordered
<1>10. CASE j = i
  <2>1. ClosedBelow(i, f.open)'
    BY <1>1, <1>8, <1>10
  <2>2. Ordered(i)'
    BY <1>1, <1>4, <1>8, <1>9, <1>10, <2>1 DEF Ordered, ClosedBelow
  <2>3. Settled(i, f)'
    BY <1>1, SettledStays
  <2>4. Settled(i, held[i])'
    BY <1>4, <2>3 DEF Settled, Final
  <2>5. Content(i)'
    BY <1>8, <1>10, <2>4, UpdatesAfter DEF Content
  <2> QED BY <1>10, <2>2, <2>5
<1>11. CASE j # i
  <2>1. \A k \in Updates(j)' : wire'[k].open \in Nat
    BY <1>2, ControlIs DEF Updates, IsUpdate, CandleFrame
  <2>2. \A o \in Nat : ClosedBelow(j, o) => ClosedBelow(j, o)'
    BY <1>8, <1>11
  <2>3. held[j] # Nothing => held[j].open \in Nat
    BY <1>1 DEF Typed, CandleFrame
  <2>4. held'[j] # Nothing => held'[j].open <= OpenOf(j, Slot) /\ ClosedBelow(j, held[j].open)'
    BY <1>4, <1>7, <1>11, <2>2, <2>3 DEF Ordered, ClosedBelow
  <2>5. ASSUME NEW k \in Updates(j)', held'[j] = Nothing PROVE ClosedBelow(j, wire[k].open)'
    <3>1. PICK o : o = wire'[k].open
      OBVIOUS
    <3>2. o \in Nat /\ ClosedBelow(j, o)
      <4>1. k + 1 \in Updates(j) /\ wire[k + 1].open = o /\ held[j] = Nothing
        BY <1>2, <1>4, <1>11, <2>5, <3>1
      <4> QED BY <1>7, <2>1, <3>1, <4>1 DEF Ordered
    <3>3. ClosedBelow(j, o)'
      BY <2>2, <3>2
    <3> QED BY <3>1, <3>3 DEF ClosedBelow
  <2>6. Ordered(j)'
    BY <1>1, <1>8, <1>9, <2>4, <2>5 DEF Ordered
  <2>7. ASSUME held'[j] # Nothing
        PROVE  Settled(j, held[j])' \/ \E k \in Updates(j)' : wire'[k].open = held'[j].open
    <3>1. PICK h : h = held[j]
      OBVIOUS
    <3>2. held'[j] = h /\ h # Nothing
      BY <1>4, <1>11, <2>7, <3>1
    <3>3. 1 \notin Updates(j)
      BY <1>1, <1>11 DEF Updates, IsUpdate
    <3>4. Settled(j, h) \/ \E k \in Updates(j) \ {1} : wire[k].open = h.open
      BY <1>7, <3>1, <3>2, <3>3 DEF Content
    <3>5. Settled(j, h)' \/ \E k \in Updates(j)' : wire'[k].open = h.open
      BY <3>4, UpdatesAfter
    <3> QED BY <3>2, <3>5 DEF Settled, Final
  <2>8. (held[j] # Nothing => \/ Settled(j, held[j])
                              \/ \E k \in Updates(j) : wire[k].open = held[j].open)'
    BY <2>7
  <2>9. Content(j)'
    BY <1>8, <2>8, UpdatesAfter DEF Content
  <2> QED BY <2>6, <2>9
<1> QED BY <1>10, <1>11

LEMMA CollectKeeps == ASSUME Inv, Collect PROVE Inv'
<1>1. /\ wire # << >> /\ wire' = Tail(wire) /\ UNCHANGED <<trades, missed>>
  BY DEF Collect, Recv
<1>2. PICK f : f = wire[1]
  OBVIOUS
<1>3. Head(wire) = f /\ 1 \in DOMAIN wire /\ f \in CandleFrame \cup {Control}
  BY <1>1, <1>2, FrameTaken DEF Inv, Typed
<1>4. CASE ~(Yields(f) /\ f.valid)
  <2>1. \A i \in Intervals : 1 \notin Updates(i)
    BY <1>2, <1>4 DEF Updates, IsUpdate
  <2>2. UNCHANGED <<held, candles>>
    BY <1>3, <1>4 DEF Collect
  <2> QED BY <1>1, <2>1, <2>2, FramePassed
<1>5. CASE Yields(f) /\ f.valid
  <2>1. PICK i \in Intervals : i = f.interval
    BY <1>3, <1>5, ControlIs DEF CandleFrame
  <2>2. f \in CandleFrame /\ 1 \in Updates(i)
    BY <1>2, <1>3, <1>5, <2>1, ControlIs DEF Updates, IsUpdate
  <2>3. candles' = candles \o Publications(f) /\ Keep(f)
    BY <1>3, <1>5 DEF Collect, HandleCandle
  <2>4. CASE Stale(f)
    <3>1. UNCHANGED <<held, candles>>
      <4>1. candles' = candles \o << >> /\ held' = held
        BY <2>3, <2>4 DEF Publications, Keep
      <4>2. candles \in Seq(TopicCandle)
        BY DEF Inv, Typed
      <4> QED BY <4>1, <4>2, ConcatEmptySeq
    <3>2. \A j \in Intervals : 1 \in Updates(j) => j = i
      BY <1>2, <2>1 DEF Updates, IsUpdate
    <3>3. held[i] # Nothing /\ wire[1].open < held[i].open
      BY <1>2, <2>1, <2>4 DEF Stale
    <3> QED BY <1>1, <3>1, <3>2, <3>3, FramePassed
  <2>5. CASE ~Stale(f)
    <3>1. Says(Publications(f), f)
      BY <2>2, PublicationsAre DEF Inv
    <3>2. held' = [held EXCEPT ![i] = f]
      BY <2>1, <2>3, <2>5 DEF Keep
    <3> QED BY <1>1, <1>2, <2>2, <2>3, <2>5, <3>1, <3>2, UpdateKept
  <2> QED BY <2>4, <2>5
<1> QED BY <1>4, <1>5

(* A publish raises: a part of what the update says is on the topic, the   *)
(* open candles are forgotten.                                             *)
LEMMA UpdateLost ==
  ASSUME Inv, NEW i \in Intervals, 1 \in Updates(i), NEW f, f = wire[1],
         NEW p, Says(p, f), candles' = candles \o p, held' = NoCandles,
         UNCHANGED trades, missed \subseteq missed', wire' = << >>
  PROVE  Inv'
<1>1. Typed /\ Slot' = Slot /\ f.interval = i
  BY UpdateTaken DEF Inv, Slot
<1>2. candles' \in Seq(TopicCandle)
  BY <1>1, ClosedAfter
<1>3. /\ held' \in [Intervals -> CandleFrame \cup {Nothing}]
      /\ \A j \in Intervals : held'[j] = Nothing /\ Updates(j)' = {}
  BY DEF NoCandles, Updates
<1>4. wire' \in Seq(CandleFrame \cup {Control})
  OBVIOUS
<1>5. Typed'
  BY <1>1, <1>2, <1>3, <1>4 DEF Typed
<1>6. SUFFICES ASSUME NEW j \in Intervals PROVE Ordered(j)' /\ Content(j)'
  BY <1>5 DEF Inv
<1>7. /\ \A k \in ClosedOnes(j)' : Settled(j, candles[k])'
      /\ ClosedBelow(j, OpenOf(j, Slot))'
  BY ClosingKeeps
<1>8. Ordered(j)'
  BY <1>3, <1>7 DEF Ordered
<1>9. Content(j)'
  BY <1>3, <1>7 DEF Content
<1> QED BY <1>8, <1>9

(* What a crash finds in the collector's hands. *)
LEMMA Failing ==
  ASSUME Typed, CollectorFails
  PROVE  \E f, p : /\ f = wire[1] /\ f.interval \in Intervals /\ 1 \in Updates(f.interval)
                   /\ Says(p, f) /\ candles' = candles \o p
<1>1. wire # << >> /\ Yields(Head(wire)) /\ Head(wire).valid
  BY DEF CollectorFails
<1>2. PICK f : f = wire[1]
  OBVIOUS
<1>3. Head(wire) = f /\ 1 \in DOMAIN wire /\ f \in CandleFrame
  <2>1. wire \in Seq(CandleFrame \cup {Control}) /\ Len(wire) \in Nat \ {0}
    BY <1>1 DEF Typed
  <2>2. Head(wire) = f /\ 1 \in DOMAIN wire /\ wire[1] \in CandleFrame \cup {Control}
    BY <1>2, <2>1
  <2> QED BY <1>1, <1>2, <2>2, ControlIs
<1>4. PICK q : q = Publications(f)
  OBVIOUS
<1>5. Says(q, f)
  BY <1>3, <1>4, PublicationsAre
<1>6. PICK n \in 0..Len(q) : candles' = candles \o SubSeq(q, 1, n)
  BY <1>3, <1>4 DEF CollectorFails
<1>7. Says(SubSeq(q, 1, n), f)
  BY <1>5, PartSaid
<1>8. f.interval \in Intervals /\ 1 \in Updates(f.interval)
  BY <1>1, <1>2, <1>3 DEF Updates, IsUpdate, CandleFrame
<1> QED BY <1>2, <1>6, <1>7, <1>8

LEMMA FailKeeps == ASSUME Inv, CollectorFails PROVE Inv'
<1>1. PICK f, p : /\ f = wire[1] /\ f.interval \in Intervals /\ 1 \in Updates(f.interval)
                  /\ Says(p, f) /\ candles' = candles \o p
  BY Failing DEF Inv
<1>2. /\ wire' = << >> /\ held' = NoCandles /\ missed \subseteq missed' /\ UNCHANGED trades
  BY DEF CollectorFails, CloseClient
<1> QED BY <1>1, <1>2, UpdateLost

LEMMA InvNext == Inv /\ [FeedNext]_feedVars => Inv'
  BY ExchangeKeeps, CollectKeeps, FailKeeps, ConnectionKeeps, OthersKeep DEF FeedNext

LEMMA Invariance == FeedSpec => []Inv
  BY InvInit, InvNext, PTL DEF FeedSpec

-----------------------------------------------------------------------------
(* "True once the exchange has finalised the candle" (Candle.is_closed): a *)
(* closed candle has the content the exchange ended it with, whatever the  *)
(* outages and crashes, unless an update of it was lost or came late.      *)
THEOREM ClosedStaysFinal == FeedSpec => []ClosedIsFinal
<1>1. Inv => ClosedIsFinal
  <2> SUFFICES ASSUME Inv, NEW k \in DOMAIN candles, candles[k].closed
               PROVE  \/ candles[k].ver = FinalVersion(candles[k].interval, candles[k].open)
                      \/ <<candles[k].interval, candles[k].open>> \in missed
    BY DEF ClosedIsFinal
  <2>1. PICK c, i, o, v : c = candles[k] /\ i = c.interval /\ o = c.open /\ v = c.ver
    OBVIOUS
  <2>2. i \in Intervals
    <3>1. c \in TopicCandle
      BY <2>1 DEF Inv, Typed
    <3> QED BY <2>1, <3>1 DEF TopicCandle
  <2>3. Final(i, o, v) \/ <<i, o>> \in missed
    BY <2>1, <2>2 DEF Inv, Content, ClosedOnes, Settled
  <2>4. ASSUME Final(i, o, v) PROVE v = FinalVersion(i, o)
    <3>1. /\ v \in DOMAIN trades /\ OpenOf(i, trades[v]) = o
          /\ \A j \in DOMAIN trades : j \in Nat /\ (OpenOf(i, trades[j]) = o => j <= v)
      BY <2>4 DEF Final, Inv, Typed
    <3>2. \A w \in DOMAIN trades :
            (/\ OpenOf(i, trades[w]) = o
             /\ \A j \in DOMAIN trades : OpenOf(i, trades[j]) = o => j <= w) => w = v
      BY <3>1
    <3> QED BY <3>1, <3>2 DEF FinalVersion
  <2> QED BY <2>1, <2>3, <2>4
<1> QED BY <1>1, Invariance, PTL

-----------------------------------------------------------------------------
(* The refinement. *)

(* What an update says is new on the topic, in the order of open times. *)
LEMMA TopicGrows ==
  ASSUME Inv, NEW f, f.interval \in Intervals, 1 \in Updates(f.interval), f = wire[1],
         NEW p, Says(p, f), candles' = candles \o p
  PROVE  [Topic!TopicNext]_candles
<1> DEFINE i == f.interval
           n == Len(candles)
           new == SubSeq(candles', n + 1, Len(candles'))
<1>1. candles \in Seq(TopicCandle) /\ p \in Seq(TopicCandle) /\ Len(p) <= 2
  BY DEF Inv, Typed, Says
<1>2. CASE p = << >>
  <2>1. candles' = candles
    BY <1>1, <1>2, ConcatEmptySeq
  <2> QED BY <2>1
<1>3. CASE p # << >>
  <2>1. /\ f \in CandleFrame /\ f.open \in Nat /\ ClosedBelow(i, f.open)
        /\ Rolls(f) => /\ held[i].open \in Nat /\ held[i].open < f.open
                       /\ ClosedBelow(i, held[i].open)
    BY <1>3, UpdateTaken DEF Says
  <2>2. /\ candles' \in Seq(TopicCandle) /\ n \in Nat /\ Len(p) \in Nat \ {0}
        /\ Len(candles') = n + Len(p) /\ DOMAIN candles' = 1..n + Len(p)
        /\ DOMAIN candles = 1..n /\ DOMAIN p = 1..Len(p)
        /\ \A k \in 1..n : candles'[k] = candles[k]
        /\ \A k \in 1..Len(p) : candles'[n + k] = p[k]
    <3>1. Len(p) \in Nat \ {0}
      BY <1>1, <1>3
    <3> QED BY <1>1, <3>1, Joined
  <2>3. SubSeq(candles', 1, n) = candles
    <3>1. /\ SubSeq(candles', 1, n) \in Seq(TopicCandle)
          /\ Len(SubSeq(candles', 1, n)) = IF 1 <= n THEN n - 1 + 1 ELSE 0
          /\ \A k \in 1..n - 1 + 1 : SubSeq(candles', 1, n)[k] = candles'[1 + k - 1]
      BY <2>2, SubSeqProperties
    <3>2. Len(SubSeq(candles', 1, n)) = n /\ \A k \in 1..n : k \in 1..n - 1 + 1 /\ 1 + k - 1 = k
      BY <2>2, <3>1
    <3>3. \A k \in 1..n : SubSeq(candles', 1, n)[k] = candles[k]
      BY <2>2, <3>1, <3>2
    <3> QED BY <1>1, <3>1, <3>2, <3>3, SeqEqual
  <2>4. Len(new) = Len(p) /\ \A k \in 1..Len(p) : new[k] = p[k]
    <3>1. \A k \in n + 1..n + Len(p) : candles'[k] \in TopicCandle
      BY <2>2
    <3>2. /\ Len(new) = IF n + 1 <= n + Len(p) THEN n + Len(p) - (n + 1) + 1 ELSE 0
          /\ \A k \in 1..n + Len(p) - (n + 1) + 1 : new[k] = candles'[n + 1 + k - 1]
      BY <2>2, <3>1, SubSeqProperties
    <3>3. Len(new) = Len(p)
      BY <2>2, <3>2
    <3>4. \A k \in 1..Len(p) : k \in 1..n + Len(p) - (n + 1) + 1 /\ n + 1 + k - 1 = n + k
      BY <2>2
    <3> QED BY <2>2, <3>2, <3>3, <3>4
  <2>5. DOMAIN new = 1..Len(p)
    <3>1. new \in Seq(TopicCandle)
      BY <2>2, SubSeqProperties
    <3> QED BY <2>4, <3>1
  <2> HIDE DEF new
  <2>6. \A o \in Nat : ClosedBelow(i, o) => ~Topic!ClosedUpTo(i, o)
    <3>1. \A k \in ClosedOnes(i) : candles[k].open \in Nat
      BY ClosedTyped DEF Inv
    <3> QED BY <3>1 DEF ClosedBelow, ClosedOnes, Topic!ClosedUpTo
  <2>7. ASSUME NEW k \in DOMAIN new
        PROVE  new[k].interval \in Intervals /\ ~Topic!ClosedUpTo(new[k].interval, new[k].open)
    <3>1. PICK c : c = p[k] /\ new[k] = c /\ k \in DOMAIN p
      BY <2>2, <2>4, <2>5, <2>7
    <3>2. /\ c.interval = i
          /\ c.closed => Rolls(f) /\ c.open = held[i].open
          /\ ~c.closed => c.open = f.open
      BY <3>1 DEF Says
    <3>3. c.open \in Nat /\ ClosedBelow(i, c.open)
      BY <2>1, <3>2
    <3> QED BY <2>6, <3>1, <3>2, <3>3
  <2>8. ASSUME Len(new) = 2
        PROVE  /\ new[1].interval = new[2].interval /\ new[1].closed /\ ~new[2].closed
               /\ new[1].open < new[2].open
    <3>1. new[1] = p[1] /\ new[2] = p[2] /\ 1 \in DOMAIN p /\ 2 \in DOMAIN p /\ Len(p) = 2
      BY <2>2, <2>4, <2>8
    <3> QED BY <2>1, <3>1 DEF Says
  <2>9. Len(new) \in 1..2
    BY <1>1, <2>2, <2>4
  <2>10. Topic!TopicNext
    BY <2>3, <2>7, <2>8, <2>9 DEF Topic!TopicNext, new
  <2> QED BY <2>10
<1> QED BY <1>2, <1>3

LEMMA CollectRefines == ASSUME Inv, Collect PROVE [Topic!TopicNext]_candles
<1>1. wire # << >> /\ wire' = Tail(wire)
  BY DEF Collect, Recv
<1>2. PICK f : f = wire[1]
  OBVIOUS
<1>3. Head(wire) = f /\ 1 \in DOMAIN wire /\ f \in CandleFrame \cup {Control}
  BY <1>1, <1>2, FrameTaken DEF Inv, Typed
<1>4. CASE ~(Yields(f) /\ f.valid)
  BY <1>3, <1>4 DEF Collect
<1>5. CASE Yields(f) /\ f.valid
  <2>1. /\ f \in CandleFrame /\ f.interval \in Intervals /\ 1 \in Updates(f.interval)
    BY <1>2, <1>3, <1>5, ControlIs DEF Updates, IsUpdate, CandleFrame
  <2>2. candles' = candles \o Publications(f)
    BY <1>3, <1>5 DEF Collect, HandleCandle
  <2>3. Says(Publications(f), f)
    BY <2>1, PublicationsAre DEF Inv
  <2> QED BY <1>2, <2>1, <2>2, <2>3, TopicGrows
<1> QED BY <1>4, <1>5

(* Every step of the feed is a step of the topic or leaves it alone.       *)
LEMMA StepOfTopic == Inv /\ [FeedNext]_feedVars => [Topic!TopicNext]_candles
<1> SUFFICES ASSUME Inv, [FeedNext]_feedVars PROVE [Topic!TopicNext]_candles
  OBVIOUS
<1>1. CASE Collect
  BY <1>1, CollectRefines
<1>2. CASE CollectorFails
  BY <1>2, Failing, TopicGrows DEF Inv
<1>3. CASE Exchange \/ CollectorStarts \/ CollectorConnection \/ AgentReads \/ AgentRestarts
           \/ UNCHANGED feedVars
  BY <1>3 DEF Exchange, CollectorStarts, CollectorConnection, AgentReads, AgentRestarts, feedVars
<1> QED BY <1>1, <1>2, <1>3 DEF FeedNext

(* Per interval candles are closed in the order of their open times, each  *)
(* once, and nothing more is said of a candle once it is closed: every     *)
(* step of the collector, the exchange and the agents is a step of         *)
(* CandleTopic or leaves the topic alone.                                  *)
THEOREM TopicRefined == FeedSpec => TopicKeepsPromise
<1>1. FeedInit => Topic!TopicInit
  BY DEF FeedInit, Topic!TopicInit
<1> QED BY <1>1, StepOfTopic, Invariance, PTL DEF FeedSpec, TopicKeepsPromise, Topic!TopicSpec

-----------------------------------------------------------------------------
(* The window of an agent.  Closed candles stand on the topic in the order *)
(* of their open times (Rising), so the candle an agent reads next is      *)
(* later than the newest it kept, is stored and never replaces another;    *)
(* what it kept ends with the last one it read (Reading).                  *)

Rising(i) == \A j, k \in ClosedOnes(i) : j < k => candles[j].open < candles[k].open

Builders == [candles : [TrackedIntervals -> Seq(TopicCandle)], book : {Nothing}, tape : {<< >>}]

Reading ==
  /\ origin \in Nat /\ position \in Nat /\ origin <= position /\ position <= Len(candles)
  /\ builder \in Builders
  /\ \A i \in TrackedIntervals :
       builder.candles[i] # << >> =>
         \E k \in ClosedRead(i) : Newest(builder.candles[i]) = candles[k]

Following == Inv /\ (\A i : Rising(i)) /\ Reading /\ WindowEndsTopic

(* A step of the topic adds one candle or two, of which at most the first  *)
(* is closed.                                                              *)
LEMMA TopicStep ==
  ASSUME Typed, Typed', Topic!TopicNext
  PROVE  /\ Len(candles) \in Nat /\ DOMAIN candles = 1..Len(candles)
         /\ Len(candles') > Len(candles) /\ DOMAIN candles' = 1..Len(candles')
         /\ \A k \in DOMAIN candles : candles'[k] = candles[k]
         /\ \A k \in DOMAIN candles' \ DOMAIN candles :
              candles'[k].closed =>
                /\ k = Len(candles) + 1
                /\ ~Topic!ClosedUpTo(candles'[k].interval, candles'[k].open)
<1> DEFINE n == Len(candles)
           m == Len(candles')
           new == SubSeq(candles', n + 1, m)
<1>1. /\ candles \in Seq(TopicCandle) /\ candles' \in Seq(TopicCandle)
      /\ n \in Nat /\ m \in Nat /\ DOMAIN candles = 1..n /\ DOMAIN candles' = 1..m
  BY DEF Typed
<1>2. /\ SubSeq(candles', 1, n) = candles /\ Len(new) \in 1..2
      /\ \A k \in DOMAIN new : ~Topic!ClosedUpTo(new[k].interval, new[k].open)
      /\ Len(new) = 2 => ~new[2].closed
  BY DEF Topic!TopicNext
<1>3. \A k \in 1..m : candles'[k] \in TopicCandle
  BY <1>1
<1>4. n < m
  <2>1. CASE m <= n
    <3>1. new = << >>
      BY <1>1, <2>1, SubSeqEmpty
    <3> QED BY <1>2, <3>1
  <2> QED BY <1>1, <2>1
<1>5. /\ new \in Seq(TopicCandle) /\ Len(new) = m - n
      /\ \A k \in 1..m - n : new[k] = candles'[n + k]
  <2>1. /\ new \in Seq(TopicCandle)
        /\ Len(new) = IF n + 1 <= m THEN m - (n + 1) + 1 ELSE 0
        /\ \A k \in 1..m - (n + 1) + 1 : new[k] = candles'[n + 1 + k - 1]
    <3>1. n + 1 \in 1..m + 1 /\ m \in n..m
      BY <1>1, <1>4
    <3>2. \A k \in n + 1..m : candles'[k] \in TopicCandle
      BY <1>1, <1>3
    <3> QED BY <1>1, <3>1, <3>2, SubSeqProperties
  <2> HIDE DEF new, n, m
  <2>2. \A k \in 1..m - n : k \in 1..m - (n + 1) + 1 /\ n + 1 + k - 1 = n + k
    BY <1>1
  <2>3. Len(new) = m - n
    BY <1>1, <1>4, <2>1
  <2> QED BY <2>1, <2>2, <2>3
<1>6. \A k \in 1..n : candles'[k] = candles[k]
  <2>1. \A k \in 1..n : SubSeq(candles', 1, n)[k] = candles'[k]
    BY <1>1, <1>3, <1>4
  <2> QED BY <1>2, <2>1
<1>7. DOMAIN new = 1..m - n
  BY <1>5
<1> HIDE DEF new
<1>8. ASSUME NEW k \in DOMAIN candles' \ DOMAIN candles, candles'[k].closed
      PROVE  /\ k = n + 1
             /\ ~Topic!ClosedUpTo(candles'[k].interval, candles'[k].open)
  <2>1. k - n \in DOMAIN new /\ new[k - n] = candles'[k]
    BY <1>1, <1>4, <1>5, <1>7, <1>8
  <2>2. ~(k - n = 2 /\ Len(new) = 2)
    BY <1>2, <1>8, <2>1
  <2>3. k \in Nat /\ n < k /\ k <= m
    BY <1>1, <1>8
  <2>4. m - n \in 1..2 /\ ~(k - n = 2 /\ m - n = 2)
    BY <1>2, <1>5, <2>2
  <2> HIDE DEF n, m
  <2>5. k = n + 1
    BY <1>1, <2>3, <2>4
  <2> QED BY <1>2, <2>1, <2>5 DEF n
<1> QED BY <1>1, <1>4, <1>6, <1>8

LEMMA RisingKept ==
  ASSUME Typed, Typed', [Topic!TopicNext]_candles, NEW i, Rising(i)
  PROVE  Rising(i)'
<1>1. CASE UNCHANGED candles
  BY <1>1 DEF Rising, ClosedOnes
<1>2. CASE Topic!TopicNext
  <2> SUFFICES ASSUME NEW j \in ClosedOnes(i)', NEW k \in ClosedOnes(i)', j < k
               PROVE  candles'[j].open < candles'[k].open
    BY DEF Rising
  <2>1. /\ Len(candles) \in Nat /\ DOMAIN candles = 1..Len(candles)
        /\ Len(candles') > Len(candles) /\ DOMAIN candles' = 1..Len(candles')
        /\ \A x \in DOMAIN candles : candles'[x] = candles[x]
        /\ \A x \in DOMAIN candles' \ DOMAIN candles :
             candles'[x].closed =>
                /\ x = Len(candles) + 1
                /\ ~Topic!ClosedUpTo(candles'[x].interval, candles'[x].open)
    BY <1>2, TopicStep
  <2>2. /\ j \in DOMAIN candles' /\ candles'[j].closed /\ candles'[j].interval = i
        /\ k \in DOMAIN candles' /\ candles'[k].closed /\ candles'[k].interval = i
    BY DEF ClosedOnes
  <2>3. j \in DOMAIN candles
    <3>1. PICK n : n = Len(candles)
      OBVIOUS
    <3>2. /\ n \in Nat /\ j \in Nat /\ k \in Nat /\ j >= 1
          /\ j \in 1..n \/ j = n + 1
          /\ k \in 1..n \/ k = n + 1
      BY <2>1, <2>2, <3>1
    <3> QED BY <2>1, <3>1, <3>2
  <2>4. candles'[j] = candles[j] /\ candles[j].closed /\ candles[j].interval = i
    BY <2>1, <2>2, <2>3
  <2>5. CASE k \in DOMAIN candles
    <3>1. candles'[k] = candles[k] /\ j \in ClosedOnes(i) /\ k \in ClosedOnes(i)
      BY <2>1, <2>2, <2>3, <2>4, <2>5 DEF ClosedOnes
    <3> QED BY <2>4, <3>1 DEF Rising
  <2>6. CASE k \notin DOMAIN candles
    <3>1. ~Topic!ClosedUpTo(i, candles'[k].open)
      BY <2>1, <2>2, <2>6
    <3>2. ~(candles[j].open >= candles'[k].open)
      BY <2>3, <2>4, <3>1 DEF Topic!ClosedUpTo
    <3>3. candles[j].open \in Nat /\ candles'[k].open \in Nat
      <4>1. candles[j] \in TopicCandle /\ candles'[k] \in TopicCandle
        BY <2>2, <2>3 DEF Typed
      <4> QED BY <4>1 DEF TopicCandle
    <3> QED BY <2>4, <3>2, <3>3
  <2> QED BY <2>5, <2>6
<1> QED BY <1>1, <1>2

LEMMA ReadIs ==
  ASSUME Inv, Reading, NEW i
  PROVE  /\ ClosedRead(i) \in SUBSET Nat /\ IsFiniteSet(ClosedRead(i))
         /\ \A k \in ClosedRead(i) : k \in ClosedOnes(i) /\ k <= position
<1>1. DOMAIN candles = 1..Len(candles) /\ Len(candles) \in Nat
  BY DEF Inv, Typed
<1>2. ClosedRead(i) \in SUBSET (origin + 1..position) /\ origin + 1 \in Int /\ position \in Int
  BY DEF ClosedRead, Reading
<1>3. IsFiniteSet(origin + 1..position)
  BY <1>2, FS_Interval
<1>4. IsFiniteSet(ClosedRead(i))
  BY <1>2, <1>3, FS_Subset
<1> QED BY <1>1, <1>2, <1>4 DEF ClosedRead, ClosedOnes, Reading

(* What follows a candle that was read, when one more is. *)
LEMMA OneMoreRead ==
  ASSUME NEW S \in SUBSET Nat, IsFiniteSet(S), NEW p \in Nat, \A s \in S : s < p
  PROVE  /\ Cardinality(S) \in Nat /\ Cardinality(S \cup {p}) = Cardinality(S) + 1
         /\ After(p, S \cup {p}) = 0
         /\ \A k \in S : /\ After(k, S) \in Nat /\ After(k, S) < Cardinality(S)
                         /\ After(k, S \cup {p}) = After(k, S) + 1
<1>1. Cardinality(S) \in Nat /\ Cardinality(S \cup {p}) = Cardinality(S) + 1
  BY FS_CardinalityType, FS_AddElement
<1>2. After(p, S \cup {p}) = 0
  <2>1. \A j \in S \cup {p} : j \in Nat /\ ~(j > p)
    OBVIOUS
  <2>2. {j \in S \cup {p} : j > p} = {}
    BY <2>1
  <2> QED BY <2>2, FS_EmptySet DEF After
<1>3. ASSUME NEW k \in S
      PROVE  /\ After(k, S) \in Nat /\ After(k, S) < Cardinality(S)
             /\ After(k, S \cup {p}) = After(k, S) + 1
  <2> DEFINE later == {j \in S : j > k}
  <2>1. later \in SUBSET S /\ later # S /\ p \notin later
    <3>1. k \notin later
      OBVIOUS
    <3> QED BY <3>1
  <2>2. {j \in S \cup {p} : j > k} = later \cup {p}
    OBVIOUS
  <2>3. IsFiniteSet(later) /\ Cardinality(later) <= Cardinality(S) /\ Cardinality(later) # Cardinality(S)
    BY <2>1, FS_Subset
  <2>4. Cardinality(later) \in Nat /\ Cardinality(later \cup {p}) = Cardinality(later) + 1
    BY <2>1, <2>3, FS_CardinalityType, FS_AddElement
  <2> HIDE DEF later
  <2>5. Cardinality(later) < Cardinality(S)
    BY <1>1, <2>3, <2>4
  <2> QED BY <2>2, <2>4, <2>5 DEF After, later
<1> QED BY <1>1, <1>2, <1>3

(* The window moved on by one candle. *)
Moved(u, w, c, m) ==
  /\ u = KeepLast(MaxCandles, Append(w, c))
  /\ Len(u) = IF m + 1 < MaxCandles THEN m + 1 ELSE MaxCandles
  /\ Len(u) > 0 /\ u[Len(u)] = c
  /\ \A a \in Nat : a + 1 < MaxCandles /\ a < m => u[Len(u) - (a + 1)] = w[Len(w) - a]

LEMMA LastKept ==
  ASSUME NEW w \in Seq(TopicCandle), NEW c \in TopicCandle, NEW m \in Nat,
         Len(w) = IF m < MaxCandles THEN m ELSE MaxCandles
  PROVE  \E u \in Seq(TopicCandle) : Moved(u, w, c, m)
<1> DEFINE v == Append(w, c)
           u == KeepLast(MaxCandles, v)
           n == Len(w)
<1>0. MaxCandles \in Nat /\ MaxCandles > 0
  BY ContextAssumption
<1>1. /\ v \in Seq(TopicCandle) /\ n \in Nat /\ Len(v) = n + 1 /\ v[n + 1] = c
      /\ \A k \in 1..n : v[k] = w[k]
      /\ \A k \in 1..n + 1 : v[k] \in TopicCandle
  BY AppendProperties, LenProperties
<1> HIDE DEF v
<1>2. CASE m < MaxCandles
  <2>1. u = v /\ n = m
    BY <1>0, <1>1, <1>2 DEF KeepLast
  <2>2. Len(v) = IF m + 1 < MaxCandles THEN m + 1 ELSE MaxCandles
    BY <1>0, <1>1, <1>2, <2>1
  <2>3. ASSUME NEW a \in Nat, a + 1 < MaxCandles, a < m PROVE v[Len(v) - (a + 1)] = w[n - a]
    <3>1. Len(v) - (a + 1) = n - a /\ n - a \in 1..n
      BY <1>1, <2>1, <2>3
    <3> QED BY <1>1, <3>1
  <2>4. v[Len(v)] = c /\ Len(v) > 0
    BY <1>1
  <2> QED BY <1>1, <2>1, <2>2, <2>3, <2>4 DEF v, Moved
<1>3. CASE ~(m < MaxCandles)
  <2>1. n = MaxCandles /\ u = SubSeq(v, 2, n + 1)
    BY <1>0, <1>1, <1>3 DEF KeepLast
  <2>2. u \in Seq(TopicCandle) /\ Len(u) = n /\ \A k \in 1..n : u[k] = v[k + 1]
    <3>1. \A k \in 2..n + 1 : v[k] \in TopicCandle
      BY <1>1
    <3>2. 2 \in 1..Len(v) + 1 /\ n + 1 \in 1..Len(v) /\ 2 <= n + 1
      BY <1>0, <1>1, <2>1
    <3>3. /\ u \in Seq(TopicCandle) /\ Len(u) = IF 2 <= n + 1 THEN n + 1 - 2 + 1 ELSE 0
          /\ \A k \in 1..n + 1 - 2 + 1 : u[k] = v[2 + k - 1]
      BY <1>1, <2>1, <3>1, <3>2, SubSeqProperties
    <3>4. \A k \in 1..n : k \in 1..n + 1 - 2 + 1 /\ 2 + k - 1 = k + 1
      BY <1>1
    <3>5. Len(u) = n
      BY <1>1, <3>2, <3>3
    <3> QED BY <3>3, <3>4, <3>5
  <2> HIDE DEF u
  <2>3. Len(u) = IF m + 1 < MaxCandles THEN m + 1 ELSE MaxCandles
    BY <1>0, <1>3, <2>1, <2>2
  <2>4. ASSUME NEW a \in Nat, a + 1 < MaxCandles, a < m PROVE u[Len(u) - (a + 1)] = w[n - a]
    <3>1. /\ Len(u) - (a + 1) = n - (a + 1) /\ n - (a + 1) \in 1..n
          /\ n - (a + 1) + 1 = n - a /\ n - a \in 1..n
      BY <1>0, <1>1, <2>1, <2>2, <2>4
    <3> QED BY <1>1, <2>2, <3>1
  <2>5. u[Len(u)] = c /\ Len(u) > 0
    BY <1>0, <1>1, <2>1, <2>2
  <2> QED BY <2>2, <2>3, <2>4, <2>5 DEF u, v, Moved
<1> QED BY <1>2, <1>3

LEMMA WindowMoves ==
  ASSUME NEW S \in SUBSET Nat, IsFiniteSet(S), NEW p \in Nat, \A s \in S : s < p,
         NEW w \in Seq(TopicCandle), Ends(w, S), candles[p] \in TopicCandle
  PROVE  \E u \in Seq(TopicCandle) :
           /\ u = KeepLast(MaxCandles, Append(w, candles[p]))
           /\ u # << >> /\ Newest(u) = candles[p] /\ Ends(u, S \cup {p})
<1>1. /\ Cardinality(S) \in Nat /\ Cardinality(S \cup {p}) = Cardinality(S) + 1
      /\ After(p, S \cup {p}) = 0
      /\ \A k \in S : /\ After(k, S) \in Nat /\ After(k, S) < Cardinality(S)
                      /\ After(k, S \cup {p}) = After(k, S) + 1
  BY OneMoreRead
<1>2. PICK c, m : c = candles[p] /\ m = Cardinality(S)
  OBVIOUS
<1>3. /\ c \in TopicCandle /\ m \in Nat /\ MaxCandles \in Nat
      /\ Len(w) = IF m < MaxCandles THEN m ELSE MaxCandles
  BY <1>1, <1>2, ContextAssumption DEF Ends
<1>4. PICK u \in Seq(TopicCandle) : Moved(u, w, c, m)
  BY <1>3, LastKept
<1>5. ASSUME NEW k \in S \cup {p}, After(k, S \cup {p}) < MaxCandles
      PROVE  u[Len(u) - After(k, S \cup {p})] = candles[k]
  <2>1. CASE k = p
    <3>1. After(k, S \cup {p}) = 0 /\ Len(u) - 0 = Len(u)
      BY <1>1, <2>1, LenProperties
    <3> QED BY <1>2, <1>4, <2>1, <3>1 DEF Moved
  <2>2. CASE k \in S
    <3>1. PICK a \in Nat : a = After(k, S) /\ a < m /\ After(k, S \cup {p}) = a + 1
      BY <1>1, <1>2, <2>2
    <3>2. a + 1 < MaxCandles /\ a < MaxCandles
      BY <1>3, <1>5, <3>1
    <3>3. w[Len(w) - a] = candles[k]
      BY <2>2, <3>1, <3>2 DEF Ends
    <3> QED BY <1>4, <3>1, <3>2, <3>3 DEF Moved
  <2> QED BY <2>1, <2>2
<1>6. Ends(u, S \cup {p})
  BY <1>1, <1>2, <1>4, <1>5 DEF Ends, Moved
<1>7. u # << >> /\ Newest(u) = c
  BY <1>4 DEF Newest, Moved
<1> QED BY <1>2, <1>4, <1>6, <1>7 DEF Moved

(* One candle read: what is behind it stands. *)
LEMMA ReadKeeps == ASSUME Following, AgentReads PROVE Reading' /\ WindowEndsTopic'
<1> DEFINE p == position + 1
<1>0. PICK c, j : c = candles[p] /\ j = c.interval
  OBVIOUS
<1>1. /\ Inv /\ Reading /\ WindowEndsTopic /\ \A i : Rising(i)
      /\ position \in Nat /\ origin \in Nat /\ origin <= position
      /\ builder \in Builders /\ UNCHANGED <<candles, origin>>
      /\ position' = p /\ position < Len(candles)
      /\ builder' = AddCandle(builder, c)
      /\ analysed' = IF Stores(builder, c) /\ IsTrigger(c.interval)
                     THEN [trigger |-> c, context |-> Build(builder')] ELSE analysed
  BY <1>0 DEF Following, AgentReads, Reading
<1>2. /\ p \in DOMAIN candles /\ c \in TopicCandle /\ c.open \in Nat /\ c.closed \in BOOLEAN
      /\ c = candles[p] /\ j = c.interval
      /\ p \in Nat /\ p <= Len(candles) /\ origin <= p
  <2>1. candles \in Seq(TopicCandle)
    BY <1>1 DEF Inv, Typed
  <2>2. p \in DOMAIN candles /\ c \in TopicCandle /\ p <= Len(candles) /\ origin <= p /\ p \in Nat
    BY <1>0, <1>1, <2>1
  <2> QED BY <1>0, <2>2 DEF TopicCandle
<1>3. \A i : ClosedRead(i)' = IF c.closed /\ i = j THEN ClosedRead(i) \cup {p} ELSE ClosedRead(i)
  BY <1>1, <1>2 DEF ClosedRead
<1>4. CASE ~(c.closed /\ j \in TrackedIntervals)
  <2>1. ~Stores(builder, c)
    BY <1>2, <1>4 DEF Stores
  <2>2. builder' = builder /\ analysed' = analysed
    BY <1>1, <2>1 DEF AddCandle
  <2>3. \A i \in TrackedIntervals : ClosedRead(i)' = ClosedRead(i)
    BY <1>3, <1>4
  <2>4. Reading'
    BY <1>1, <1>2, <2>2, <2>3 DEF Reading
  <2>5. WindowEndsTopic'
    BY <1>1, <2>2, <2>3 DEF WindowEndsTopic, Ends
  <2> QED BY <2>4, <2>5
<1>5. CASE c.closed /\ j \in TrackedIntervals
  <2>1. PICK w : w = builder.candles[j]
    OBVIOUS
  <2>2. w \in Seq(TopicCandle) /\ builder.candles \in [TrackedIntervals -> Seq(TopicCandle)]
    BY <1>1, <1>5, <2>1 DEF Builders
  <2>3. ASSUME w # << >> PROVE Newest(w).open < c.open
    <3>1. PICK k \in ClosedRead(j) : Newest(w) = candles[k]
      BY <1>1, <1>5, <2>1, <2>3 DEF Reading
    <3>2. k \in ClosedOnes(j) /\ k <= position /\ k \in Nat
      BY <1>1, ReadIs
    <3>3. p \in ClosedOnes(j)
      BY <1>2, <1>5 DEF ClosedOnes
    <3>4. k < p
      BY <1>1, <3>2
    <3> QED BY <1>1, <1>2, <3>1, <3>2, <3>3, <3>4 DEF Rising
  <2>4. w # << >> => Newest(w).open \in Nat
    <3>1. ASSUME w # << >> PROVE Newest(w) \in TopicCandle
      BY <2>2, <3>1, LenProperties DEF Newest
    <3> QED BY <3>1 DEF TopicCandle
  <2>5. Stores(builder, c) /\ ~Repeats(w, c)
    BY <1>2, <1>5, <2>1, <2>3, <2>4 DEF Stores, Repeats
  <2>6. PICK u \in Seq(TopicCandle) :
             /\ u = KeepLast(MaxCandles, Append(w, c))
             /\ u # << >> /\ Newest(u) = c /\ Ends(u, ClosedRead(j) \cup {p})
    <3>1. /\ ClosedRead(j) \in SUBSET Nat /\ IsFiniteSet(ClosedRead(j))
          /\ \A k \in ClosedRead(j) : k < p
      <4>1. /\ ClosedRead(j) \in SUBSET Nat /\ IsFiniteSet(ClosedRead(j))
            /\ \A k \in ClosedRead(j) : k <= position
        BY <1>1, ReadIs
      <4> QED BY <1>1, <4>1
    <3>2. Ends(w, ClosedRead(j))
      BY <1>1, <1>5, <2>1 DEF WindowEndsTopic
    <3> QED BY <1>2, <2>2, <3>1, <3>2, WindowMoves
  <2>7. /\ builder' \in Builders
        /\ builder'.candles = [builder.candles EXCEPT ![j] = u]
    <3>1. builder' = [builder EXCEPT !.candles[j] = u]
      BY <1>1, <1>2, <2>1, <2>5, <2>6 DEF AddCandle, WithCandle
    <3>2. builder.candles \in [TrackedIntervals -> Seq(TopicCandle)]
          /\ [builder.candles EXCEPT ![j] = u] \in [TrackedIntervals -> Seq(TopicCandle)]
      BY <1>5, <2>2, <2>6
    <3>3. builder' = [builder EXCEPT !.candles = [builder.candles EXCEPT ![j] = u]]
      BY <1>1, <3>1 DEF Builders
    <3> QED BY <1>1, <3>2, <3>3 DEF Builders
  <2>8. builder'.candles[j] = u /\ \A i \in TrackedIntervals \ {j} : builder'.candles[i] = builder.candles[i]
    BY <1>5, <2>2, <2>7
  <2>9. ClosedRead(j)' = ClosedRead(j) \cup {p} /\ \A i : i # j => ClosedRead(i)' = ClosedRead(i)
    BY <1>3, <1>5
  <2>10. Reading'
    <3>1. ASSUME NEW i \in TrackedIntervals, builder'.candles[i] # << >>
          PROVE  \E k \in ClosedRead(i)' : Newest(builder'.candles[i]) = candles[k]
      <4>1. CASE i = j
        <5>1. p \in ClosedRead(i)'
          BY <1>3, <1>5, <4>1
        <5>2. builder'.candles[i] = u /\ Newest(u) = candles[p]
          BY <1>2, <2>6, <2>8, <4>1
        <5> QED BY <5>1, <5>2
      <4>2. CASE i # j
        BY <1>1, <2>8, <2>9, <3>1, <4>2 DEF Reading
      <4> QED BY <4>1, <4>2
    <3> QED BY <1>1, <1>2, <2>7, <3>1 DEF Reading
  <2>11. \A i \in TrackedIntervals : Ends(builder.candles[i], ClosedRead(i))'
    <3>1. ASSUME NEW i \in TrackedIntervals PROVE Ends(builder'.candles[i], ClosedRead(i)')
      <4>1. CASE i = j
        <5>1. ClosedRead(i)' = ClosedRead(j) \cup {p}
          BY <1>3, <1>5, <4>1
        <5>2. builder'.candles[i] = u
          BY <2>8, <4>1
        <5> QED BY <2>6, <5>1, <5>2
      <4>2. CASE i # j
        BY <1>1, <2>8, <2>9, <4>2 DEF WindowEndsTopic
      <4> QED BY <4>1, <4>2
    <3> QED BY <1>1, <3>1 DEF Ends
  <2>12. ASSUME analysed' # Nothing
         PROVE  Newest(CandlesFor(analysed'.context, analysed'.trigger.interval)) = analysed'.trigger
    <3>1. CASE IsTrigger(c.interval)
      <4>1. analysed'.trigger = c /\ analysed'.context = Build(builder')
        BY <1>1, <2>5, <3>1
      <4>2. Build(builder').candles = [i \in {x \in TrackedIntervals : builder'.candles[x] # << >>}
                                         |-> builder'.candles[i]]
        BY <2>7 DEF Build, Builders
      <4>3. CandlesFor(Build(builder'), j) = u
        BY <1>5, <2>6, <2>8, <4>2 DEF CandlesFor
      <4> QED BY <1>2, <2>6, <4>1, <4>3
    <3>2. CASE ~IsTrigger(c.interval)
      <4>1. analysed' = analysed
        BY <1>1, <3>2
      <4> QED BY <1>1, <2>12, <4>1 DEF WindowEndsTopic
    <3> QED BY <3>1, <3>2
  <2> QED BY <2>10, <2>11, <2>12 DEF WindowEndsTopic
<1> QED BY <1>4, <1>5

LEMMA NothingRead ==
  ASSUME NEW i \in TrackedIntervals
  PROVE  EmptyBuilder \in Builders /\ EmptyBuilder.candles[i] = << >> /\ Ends(<< >>, {})
<1>1. MaxCandles \in Nat /\ MaxCandles > 0 /\ Cardinality({}) = 0
  BY ContextAssumption, FS_EmptySet
<1> QED BY <1>1 DEF EmptyBuilder, Builders, Ends

LEMMA RestartKeeps == ASSUME Following, AgentRestarts PROVE Reading' /\ WindowEndsTopic'
<1>1. PICK p \in 0..position : position' = p /\ origin' = p
  BY DEF AgentRestarts
<1>2. /\ Reading /\ builder' = EmptyBuilder /\ analysed' = Nothing /\ UNCHANGED candles
      /\ position \in Nat /\ position <= Len(candles) /\ Len(candles) \in Nat
  BY LenProperties DEF Following, AgentRestarts, Reading, Inv, Typed
<1>3. \A i : ClosedRead(i)' = {}
  <2>1. origin' + 1..position' = {}
    BY <1>1, <1>2
  <2> QED BY <2>1 DEF ClosedRead
<1>4. \A i \in TrackedIntervals : builder'.candles[i] = << >> /\ Ends(<< >>, {}) /\ Ends(<< >>, {})'
  <2>1. \A i \in TrackedIntervals : builder'.candles[i] = << >> /\ Ends(<< >>, {})
    BY <1>2, NothingRead
  <2> QED BY <2>1 DEF Ends
<1>5. builder' \in Builders
  BY <1>2 DEF Builders, EmptyBuilder
<1>6. position' \in Nat /\ position' <= Len(candles) /\ origin' = position'
  BY <1>1, <1>2
<1>7. Reading'
  BY <1>2, <1>4, <1>5, <1>6 DEF Reading
<1> QED BY <1>2, <1>3, <1>4, <1>7 DEF WindowEndsTopic, Ends

(* What happens to the topic behind the agent's back is behind its position. *)
LEMMA TopicMovesOn ==
  ASSUME Following, Typed', [Topic!TopicNext]_candles, UNCHANGED agent
  PROVE  Reading' /\ WindowEndsTopic'
<1>1. /\ Inv /\ Reading /\ WindowEndsTopic
      /\ UNCHANGED <<position, origin, builder, analysed>>
  BY DEF Following, agent
<1>2. /\ Len(candles) \in Nat /\ Len(candles) <= Len(candles')  /\ Len(candles') \in Nat
      /\ DOMAIN candles = 1..Len(candles) /\ \A k \in DOMAIN candles : candles'[k] = candles[k]
  <2>1. CASE UNCHANGED candles
    BY <1>1, <2>1, LenProperties DEF Inv, Typed
  <2>2. CASE Topic!TopicNext
    <3>1. Len(candles) \in Nat /\ Len(candles') \in Nat
      BY <1>1, LenProperties DEF Inv, Typed
    <3> QED BY <1>1, <2>2, <3>1, TopicStep DEF Inv
  <2> QED BY <2>1, <2>2
<1>3. \A k \in origin + 1..position : k \in DOMAIN candles
  BY <1>1, <1>2 DEF Reading
<1>4. \A i : ClosedRead(i)' = ClosedRead(i) /\ \A k \in ClosedRead(i) : candles'[k] = candles[k]
  BY <1>1, <1>2, <1>3 DEF ClosedRead
<1>5. Reading'
  BY <1>1, <1>2, <1>4 DEF Reading
<1>6. \A i \in TrackedIntervals : Ends(builder.candles[i], ClosedRead(i))'
  <2>1. ASSUME NEW i \in TrackedIntervals PROVE Ends(builder.candles[i], ClosedRead(i))'
    <3>1. Ends(builder.candles[i], ClosedRead(i))
      BY <1>1 DEF WindowEndsTopic
    <3> QED BY <1>1, <1>4, <3>1 DEF Ends
  <2> QED BY <2>1
<1> QED BY <1>1, <1>5, <1>6 DEF WindowEndsTopic

LEMMA FollowingInit == FeedInit => Following
<1> SUFFICES ASSUME FeedInit PROVE Following
  OBVIOUS
<1>1. /\ candles = << >> /\ position = 0 /\ origin = 0 /\ builder = EmptyBuilder
      /\ analysed = Nothing
  BY DEF FeedInit
<1>2. \A i : ClosedRead(i) = {} /\ ClosedOnes(i) = {}
  BY <1>1 DEF ClosedRead, ClosedOnes
<1>3. builder \in Builders /\ \A i \in TrackedIntervals : builder.candles[i] = << >> /\ Ends(<< >>, {})
  <2>1. builder \in Builders
    BY <1>1 DEF Builders, EmptyBuilder
  <2> QED BY <1>1, <2>1, NothingRead
<1>4. Reading
  BY <1>1, <1>3 DEF Reading
<1>5. WindowEndsTopic
  BY <1>1, <1>2, <1>3 DEF WindowEndsTopic
<1> QED BY <1>2, <1>4, <1>5, InvInit DEF Following, Rising

LEMMA FollowingNext == Following /\ [FeedNext]_feedVars => Following'
<1> SUFFICES ASSUME Following, [FeedNext]_feedVars PROVE Following'
  OBVIOUS
<1>1. Inv' /\ [Topic!TopicNext]_candles
  BY InvNext, StepOfTopic DEF Following
<1>2. \A i : Rising(i)'
  BY <1>1, RisingKept DEF Following, Inv
<1>3. Reading' /\ WindowEndsTopic'
  <2>1. CASE AgentReads
    BY <2>1, ReadKeeps
  <2>2. CASE AgentRestarts
    BY <2>2, RestartKeeps
  <2>3. CASE Exchange \/ Collect \/ CollectorFails \/ CollectorStarts \/ CollectorConnection
             \/ UNCHANGED feedVars
    <3>1. UNCHANGED agent
      BY <2>3 DEF Exchange, Collect, CollectorFails, CollectorStarts, CollectorConnection, feedVars
    <3> QED BY <1>1, <3>1, TopicMovesOn DEF Inv
  <2> QED BY <2>1, <2>2, <2>3 DEF FeedNext
<1> QED BY <1>1, <1>2, <1>3 DEF Following

(* What an agent analyses is the end of the topic: per interval the last   *)
(* MaxCandles closed candles its process has read, each in its place, and  *)
(* the window of the trigger ends with the candle that triggered: none is  *)
(* skipped, doubled or out of order, whatever the outages of the client    *)
(* and the restarts of collector and agent.                                *)
THEOREM WindowIsEndOfTopic == FeedSpec => []WindowEndsTopic
<1>1. Following => WindowEndsTopic
  BY DEF Following
<1> QED BY <1>1, FollowingInit, FollowingNext, PTL DEF FeedSpec
===============================================================================
