----------------------- MODULE PortfolioManagerProofs -----------------------
(***************************************************************************)
(* Theorems about the portfolio manager, for any symbols, prices, sizes    *)
(* and fees and any number of fills, failing statements, stops, crashes    *)
(* and restarts, with a database or without: cash is what was realised     *)
(* less the fees, a saved baseline stands all day, the tables follow the   *)
(* tracker, positions are the net of the fills and equity is marked to     *)
(* market.                                                                 *)
(*                                                                         *)
(* TablesFollow speaks of the moments at which no statement waits.  It is  *)
(* made inductive by what still separates the tables from the tracker at   *)
(* every point of the list of statements: Waiting.                         *)
(***************************************************************************)
EXTENDS PortfolioManager, SumsProofs

Fields == {"cash", "dayStart", "realized", "fees", "trades", "wins", "losses", "day"}

(* An account whose cash is accounted for. *)
Sound(a) ==
  /\ DOMAIN a = Fields
  /\ a.cash \in Int /\ a.realized \in Int /\ a.fees \in Int
  /\ a.cash = StartingEquity + a.realized - a.fees
  /\ a.day \in Nat /\ a.day <= today

Position == [direction : Directions, size : Nat \ {0}, entry : Int, mark : Int,
             realized : Int, fees : Int, levels : Levels \cup {Unprotected}]
Book(h) == DOMAIN h \subseteq Symbols /\ \A s \in DOMAIN h : h[s] \in Position

(* How far the tables follow the tracker: in all positions but for their   *)
(* marks, in all but that of one symbol, in the account but for its day.   *)
Plain(r) == [r EXCEPT !.mark = 0]
Settled(a) == [a EXCEPT !.dayStart = 0, !.day = 1]
Followed == DOMAIN table = DOMAIN holdings /\ \A x \in DOMAIN holdings : Plain(table[x]) = Plain(holdings[x])
FollowedBut(s) ==
  /\ DOMAIN table \ {s} = DOMAIN holdings \ {s}
  /\ \A x \in DOMAIN holdings \ {s} : Plain(table[x]) = Plain(holdings[x])
Recorded(n) == starts = 1 => closures + n = built

(* The statements of a fill, or of a start, that may still wait, and what  *)
(* they lack.                                                              *)
Clean == up /\ connected /\ ~missed
Rebuilt == Followed /\ Settled(stateRow) = Settled(account) /\ Recorded(0)
Waiting ==
  \/ todo = << >> /\ (Clean => Rebuilt)
  \/ todo = <<SaveState>> /\ (Clean => Followed /\ Recorded(0))
  \/ todo = <<RecordClosure, SaveState>> /\ (Clean => Followed /\ Recorded(1))
  \/ \E s \in Symbols : /\ todo = <<SavePosition(holdings, s), SaveState>>
                        /\ (Clean => FollowedBut(s) /\ Recorded(0))
  \/ \E s \in Symbols : /\ todo = <<SavePosition(holdings, s), RecordClosure, SaveState>>
                        /\ (Clean => FollowedBut(s) /\ Recorded(1))
  \/ todo = <<Load, Resave>> /\ starts # 1
  \/ todo = <<Resave>> /\ starts # 1 /\ (Clean => Rebuilt)

(* The row is never ahead of the account, and agrees with it on the        *)
(* baseline of its day.                                                    *)
Agree(a, row) == row.day <= a.day /\ (row.day = a.day => a.dayStart = row.dayStart)
Dated == (up /\ connected /\ ~Loading) => Agree(account, stateRow)

(* The publications of a fill that may still wait. *)
Announced ==
  (Clean /\ starts = 1) =>
    \/ outbox \in {<< >>, <<"snapshot">>} /\ published = built
    \/ outbox = <<"closure", "snapshot">> /\ published + 1 = built

Typed ==
  /\ today \in Nat
  /\ Sound(account) /\ Sound(stateRow)
  /\ Book(holdings) /\ Book(table)
  /\ \A id \in DOMAIN orders : orders[id] \in Levels
  /\ log \in Seq(Fill) /\ position \in Nat /\ committed \in Nat
  /\ {closures, published, built, dbFailures} \subseteq Nat /\ starts \in Nat \ {0}
  /\ {up, connected, looping, missed} \subseteq BOOLEAN /\ (todo # << >> => up /\ connected /\ looping)

Inv == Typed /\ Waiting /\ Dated /\ Announced

LEMMA RollDayIs ==
  ASSUME NEW a, NEW h, Sound(a), today \in Nat
  PROVE  Sound(RollDay(a, h)) /\ Agree(RollDay(a, h), a)
<1>1. CASE a.day = today
  BY <1>1 DEF RollDay, Agree, Sound
<1>2. CASE a.day # today
  <2> DEFINE b == RollDay(a, h)
  <2>1. b = [a EXCEPT !.day = today, !.dayStart = Equity(a, h)]
    BY <1>2 DEF RollDay
  <2>2. /\ DOMAIN b = Fields /\ b.cash = a.cash /\ b.realized = a.realized /\ b.fees = a.fees
        /\ b.day = today
    BY <2>1 DEF Sound, Fields
  <2> HIDE DEF b
  <2>3. b.day > a.day /\ a.day \in Nat /\ b.day \in Nat /\ b.day <= today
    BY <1>2, <2>2 DEF Sound
  <2>4. Sound(b) /\ Agree(b, a)
    BY <2>2, <2>3 DEF Sound, Agree
  <2> QED BY <2>4 DEF b
<1> QED BY <1>1, <1>2

LEMMA AgreeAll ==
  ASSUME NEW a, NEW b, NEW c, Sound(a), Sound(b), Sound(c), Agree(a, b), Agree(b, c)
  PROVE  Agree(a, c)
  BY DEF Agree, Sound

LEMMA Product == \A a, b \in Int : a * b \in Int
  OBVIOUS

LEMMA FillTypes ==
  \A f \in Fill : /\ f.symbol \in Symbols /\ f.direction \in Directions
                  /\ f.size \in Nat \ {0} /\ f.price \in Nat \ {0} /\ f.fee \in Nat
<1>1. Sizes \subseteq Nat \ {0} /\ Prices \subseteq Nat \ {0} /\ Fees \subseteq Nat
  BY PortfolioAssumption
<1>2. \A f \in Fill : /\ f.symbol \in Symbols /\ f.direction \in Directions
                      /\ f.size \in Sizes /\ f.price \in Prices /\ f.fee \in Fees
  BY DEF Fill
<1> QED BY <1>1, <1>2

LEMMA RealizedIs ==
  ASSUME NEW h \in Position, NEW f \in Fill
  PROVE  Closed(h, f) \in Nat /\ Realized(h, f) \in Int
<1>1. /\ f.size \in Nat /\ f.price \in Int /\ h.size \in Nat /\ h.entry \in Int
  BY FillTypes DEF Position
<1>2. Closed(h, f) \in Nat
  BY <1>1 DEF Closed, Smaller
<1>3. Sign(h.direction) \in Int /\ f.price - h.entry \in Int
  BY <1>1 DEF Sign
<1>4. (f.price - h.entry) * Closed(h, f) \in Int
  BY <1>2, <1>3, Product
<1> QED BY <1>2, <1>3, <1>4, Product DEF Realized

(* What a fill does to the account: its cash stays accounted for. *)
LEMMA AccountAfterIs ==
  ASSUME NEW a, NEW h, NEW f \in Fill, Sound(a), Book(h), today \in Nat
  PROVE  Sound(AccountAfter(a, h, f)) /\ Agree(AccountAfter(a, h, f), a)
<1> DEFINE pnl == IF Opposes(h, f) THEN Realized(h[f.symbol], f) ELSE 0
           r == RollDay(a, h)
           b == AccountAfter(a, h, f)
<1>1. pnl \in Int /\ f.fee \in Int
  BY RealizedIs, FillTypes DEF Opposes, Book
<1>2. b = [r EXCEPT !.cash = @ - f.fee + pnl, !.fees = @ + f.fee, !.realized = @ + pnl,
                    !.trades = @ + 1, !.wins = IF pnl > 0 THEN @ + 1 ELSE @,
                    !.losses = IF pnl < 0 THEN @ + 1 ELSE @]
  BY DEF AccountAfter
<1>3. Sound(r) /\ Agree(r, a)
  BY RollDayIs
<1> HIDE DEF pnl, r, b
<1>4. /\ DOMAIN b = Fields /\ b.cash = r.cash - f.fee + pnl /\ b.fees = r.fees + f.fee
      /\ b.realized = r.realized + pnl /\ b.day = r.day /\ b.dayStart = r.dayStart
  BY <1>2, <1>3 DEF Sound, Fields
<1>5. StartingEquity \in Int
  BY PortfolioAssumption
<1>6. Sound(b) /\ Agree(b, a)
  BY <1>1, <1>3, <1>4, <1>5 DEF Sound, Agree
<1> QED BY <1>6 DEF b

LEMMA AddedIs ==
  ASSUME NEW h \in Position, NEW f \in Fill
  PROVE  Added(h, f) \in Position
<1> DEFINE n == h.size + f.size
           value == h.entry * h.size + f.price * f.size
           entry == value \div n
<1>1. /\ f.size \in Nat \ {0} /\ f.price \in Int /\ f.fee \in Int
      /\ h.size \in Nat \ {0} /\ h.entry \in Int /\ h.fees \in Int
  BY FillTypes DEF Position
<1>2. n \in Nat \ {0}
  BY <1>1
<1>3. h.entry * h.size \in Int /\ f.price * f.size \in Int
  BY <1>1, Product
<1>4. value \in Int
  BY <1>3
<1> HIDE DEF n, value
<1>5. entry \in Int
  BY <1>2, <1>4
<1> HIDE DEF entry
<1>6. Added(h, f) = [h EXCEPT !.size = n, !.entry = entry, !.mark = f.price, !.fees = h.fees + f.fee]
  BY DEF Added, Position, entry, value, n
<1>7. h.fees + f.fee \in Int
  BY <1>1
<1> QED BY <1>1, <1>2, <1>5, <1>6, <1>7 DEF Position

LEMMA ReducedIs ==
  ASSUME NEW h \in Position, NEW f \in Fill, ~(h.size <= f.size)
  PROVE  Reduced(h, f) \in Position
<1>1. /\ f.size \in Nat \ {0} /\ f.price \in Int /\ f.fee \in Int
      /\ h.size \in Nat \ {0} /\ h.fees \in Int /\ h.realized \in Int
  BY FillTypes DEF Position
<1>2. Realized(h, f) \in Int /\ Closed(h, f) = f.size
  BY <1>1, RealizedIs DEF Closed, Smaller
<1>3. h.size - f.size \in Nat \ {0} /\ h.realized + Realized(h, f) \in Int /\ h.fees + f.fee \in Int
  BY <1>1, <1>2
<1>4. Reduced(h, f) = [h EXCEPT !.size = h.size - f.size, !.mark = f.price,
                                !.realized = h.realized + Realized(h, f), !.fees = h.fees + f.fee]
  BY <1>2 DEF Reduced, Position
<1> QED BY <1>1, <1>3, <1>4 DEF Position

LEMMA OpenedIs ==
  ASSUME NEW f \in Fill, NEW n \in Nat \ {0}, NEW l \in Levels \cup {Unprotected}
  PROVE  Opened(f, n, l) \in Position
<1>1. f.direction \in Directions /\ f.price \in Int /\ f.fee \in Int
  BY FillTypes
<1> QED BY <1>1 DEF Opened, Position

(* A fill moves the position of its symbol, and no other. *)
LEMMA HoldingsAfterIs ==
  ASSUME NEW h, NEW f \in Fill, Book(h), \A id \in DOMAIN orders : orders[id] \in Levels
  PROVE  /\ Book(HoldingsAfter(h, f))
         /\ DOMAIN HoldingsAfter(h, f) \ {f.symbol} = DOMAIN h \ {f.symbol}
         /\ \A s \in DOMAIN h \ {f.symbol} : HoldingsAfter(h, f)[s] = h[s]
<1> DEFINE s == f.symbol
<1>1. s \in Symbols /\ f.size \in Nat \ {0}
  BY FillTypes
<1>2. \/ HoldingsAfter(h, f) = Without(h, s)
      \/ \E v \in Position : HoldingsAfter(h, f) = With(h, s, v)
  <2>1. CASE s \notin DOMAIN h
    <3>1. LevelsOf(f) \in Levels \cup {Unprotected}
      BY DEF LevelsOf
    <3> QED BY <1>1, <2>1, <3>1, OpenedIs DEF HoldingsAfter
  <2>2. CASE s \in DOMAIN h /\ ~Opposes(h, f)
    BY <2>2, AddedIs DEF HoldingsAfter, Book
  <2>3. CASE s \in DOMAIN h /\ Opposes(h, f)
    <3>1. h[s] \in Position /\ h[s].size \in Nat
      BY <2>3 DEF Book, Position
    <3>2. CASE ~GoesFlat(h, f)
      <4>1. Reduced(h[s], f) \in Position
        BY <2>3, <3>1, <3>2, ReducedIs DEF GoesFlat
      <4> QED BY <2>3, <3>2, <4>1 DEF HoldingsAfter
    <3>3. CASE GoesFlat(h, f) /\ f.size > h[s].size
      <4>1. f.size - h[s].size \in Nat \ {0}
        BY <1>1, <3>1, <3>3
      <4>2. Opened(f, f.size - h[s].size, Unprotected) \in Position
        BY <4>1, OpenedIs
      <4> QED BY <2>3, <3>3, <4>2 DEF HoldingsAfter
    <3>4. CASE GoesFlat(h, f) /\ ~(f.size > h[s].size)
      BY <2>3, <3>4 DEF HoldingsAfter
    <3> QED BY <3>2, <3>3, <3>4
  <2> QED BY <2>1, <2>2, <2>3
<1> HIDE DEF s
<1>3. CASE HoldingsAfter(h, f) = Without(h, s)
  BY <1>1, <1>3 DEF Without, Book, s
<1>4. CASE \E v \in Position : HoldingsAfter(h, f) = With(h, s, v)
  BY <1>1, <1>4 DEF With, Book, s
<1> QED BY <1>2, <1>3, <1>4

-----------------------------------------------------------------------------
(* The statements, one by one. *)

LEMMA SaveIs ==
  ASSUME NEW s \in Symbols, Execute(SavePosition(holdings, s)), holdings' = holdings,
         Book(holdings), Book(table)
  PROVE  /\ Book(table') /\ stateRow' = stateRow /\ closures' = closures
         /\ FollowedBut(s) => Followed'
<1>1. CASE s \in DOMAIN holdings
  <2>1. SavePosition(holdings, s) = [op |-> "save", symbol |-> s, row |-> holdings[s]]
    BY <1>1 DEF SavePosition
  <2>2. table' = With(table, s, holdings[s]) /\ stateRow' = stateRow /\ closures' = closures
    BY <2>1 DEF Execute
  <2> QED BY <1>1, <2>2 DEF With, Book, Followed, FollowedBut
<1>2. CASE s \notin DOMAIN holdings
  <2>1. SavePosition(holdings, s) = [op |-> "delete", symbol |-> s]
    BY <1>2 DEF SavePosition
  <2>2. table' = Without(table, s) /\ stateRow' = stateRow /\ closures' = closures
    BY <2>1 DEF Execute
  <2> QED BY <1>2, <2>2 DEF Without, Book, Followed, FollowedBut
<1> QED BY <1>1, <1>2

LEMMA OthersAre ==
  /\ Execute(RecordClosure) => table' = table /\ stateRow' = stateRow /\ closures' = closures + 1
  /\ Execute(SaveState) => table' = table /\ stateRow' = account /\ closures' = closures
  /\ Execute(Resave) => table' = table /\ stateRow' = account /\ closures' = closures
  /\ Execute(Load) => table' = table /\ stateRow' = stateRow /\ closures' = closures
  BY DEF Execute, RecordClosure, SaveState, Load, Resave

LEMMA SettledIs == \A a, h : Settled(RollDay(a, h)) = Settled(a)
  BY DEF Settled, RollDay

(* The head of the list of statements, by kind. *)
LEMMA Heads ==
  /\ SaveState.op = "state" /\ RecordClosure.op = "closure" /\ Load.op = "load" /\ Resave.op = "resave"
  /\ \A s : SavePosition(holdings, s).op \in {"save", "delete"}
<1>1. \A s : SavePosition(holdings, s).op \in {"save", "delete"}
  BY DEF SavePosition
<1> QED BY <1>1 DEF SaveState, RecordClosure, Load, Resave

LEMMA LoadingIs == Waiting /\ Loading => todo = <<Load, Resave>> /\ starts # 1
  BY Heads DEF Waiting, Loading

LEMMA InvInit == Init => Inv
<1> SUFFICES ASSUME Init PROVE Inv
  OBVIOUS
<1>1. StartingEquity \in Nat
  BY PortfolioAssumption
<1>2. Sound(Fresh) /\ today = 1
  BY <1>1 DEF Init, Fresh, Sound, Fields
<1>3. DOMAIN << >> = {} /\ << >> \in Seq(Fill)
  OBVIOUS
<1>4. /\ account = Fresh /\ stateRow = Fresh /\ holdings = << >> /\ table = << >> /\ orders = << >>
      /\ log = << >> /\ todo = << >> /\ outbox = << >> /\ position = 0 /\ committed = 0
      /\ closures = 0 /\ published = 0 /\ built = 0 /\ dbFailures = 0 /\ starts = 1
      /\ up = TRUE /\ connected = TRUE /\ looping = TRUE /\ missed = FALSE
  BY DEF Init
<1>5. {up, connected, looping, missed} \subseteq BOOLEAN
  BY <1>4
<1>6. Typed
  BY <1>2, <1>3, <1>4, <1>5 DEF Typed, Book
<1>7. Waiting /\ Announced
  BY <1>3, <1>4 DEF Waiting, Announced, Followed, Recorded, Rebuilt
<1>8. Dated
  BY <1>2, <1>4 DEF Dated, Agree, Sound
<1> QED BY <1>6, <1>7, <1>8 DEF Inv

LEMMA TakeFillKeeps == Inv /\ TakeFill => Inv'
<1> SUFFICES ASSUME Inv, TakeFill PROVE Inv'
  OBVIOUS
<1>1. PICK f \in Fill : f = log[position + 1]
  <2>1. position \in Nat /\ position < Len(log) /\ log \in Seq(Fill)
    BY DEF Inv, Typed, TakeFill
  <2>2. log[position + 1] \in Fill
    BY <2>1
  <2> QED BY <2>2
<1>2. /\ up /\ todo = << >> /\ position < Len(log) /\ position' = position + 1
      /\ UNCHANGED <<today, stateRow, table, closures, log, committed, published, dbFailures, starts>>
      /\ UNCHANGED <<up, connected, looping, missed>> /\ looping
      /\ account' = AccountAfter(account, holdings, f)
      /\ holdings' = HoldingsAfter(holdings, f)
      /\ orders' = Without(orders, f.order)
      /\ todo' = Statements(holdings, f) /\ outbox' = Publications(holdings, f)
      /\ built' = IF GoesFlat(holdings, f) THEN built + 1 ELSE built
  BY <1>1 DEF TakeFill, Taking, Idle, OnFill, Apply, tables, life
<1>3. f.symbol \in Symbols
  BY FillTypes
<1>4. Sound(account)' /\ Sound(stateRow)'
  <2>1. today \in Nat /\ Sound(account) /\ Sound(stateRow) /\ Book(holdings)
    BY DEF Inv, Typed
  <2>2. Sound(AccountAfter(account, holdings, f))
    BY <2>1, AccountAfterIs
  <2> QED BY <1>2, <2>1, <2>2 DEF Sound
<1>5. /\ Book(holdings') /\ Book(table')
      /\ DOMAIN holdings' \ {f.symbol} = DOMAIN holdings \ {f.symbol}
      /\ \A s \in DOMAIN holdings \ {f.symbol} : holdings'[s] = holdings[s]
  BY <1>2, <1>1, HoldingsAfterIs DEF Inv, Typed
<1>6. \A id \in DOMAIN orders' : orders'[id] \in Levels
  BY <1>2 DEF Inv, Typed, Without
<1>7. built' \in Nat /\ position' \in Nat
  BY <1>2 DEF Inv, Typed
<1>9. todo' = IF ~connected THEN << >>
              ELSE IF GoesFlat(holdings, f)
                   THEN <<SavePosition(holdings', f.symbol), RecordClosure, SaveState>>
                   ELSE <<SavePosition(holdings', f.symbol), SaveState>>
  BY <1>2 DEF Statements
<1>8. Typed'
  <2>1. (todo' # << >> => up' /\ connected' /\ looping') /\ {up, connected, looping, missed}' \subseteq BOOLEAN
    BY <1>2, <1>9 DEF Inv, Typed
  <2> QED BY <1>2, <1>4, <1>5, <1>6, <1>7, <2>1 DEF Inv, Typed
<1>10. Clean => Followed /\ Recorded(0)
  BY <1>2 DEF Inv, Waiting, Rebuilt
<1>11. (Clean' => Clean) /\ (Clean' => FollowedBut(f.symbol)')
  <2>1. Clean' => Clean
    BY <1>2 DEF Clean
  <2>2. Followed => FollowedBut(f.symbol)'
    BY <1>2, <1>5 DEF Followed, FollowedBut
  <2> QED BY <1>10, <2>1, <2>2
<1>12. Clean' => IF GoesFlat(holdings, f) THEN Recorded(1)' ELSE Recorded(0)'
  BY <1>2, <1>10, <1>11 DEF Recorded, Inv, Typed
<1>13. Waiting'
  BY <1>2, <1>3, <1>9, <1>11, <1>12 DEF Waiting, Clean
<1>14. (Clean /\ starts = 1) => published = built
  BY <1>2 DEF Inv, Announced, TakeFill, Taking, Idle
<1>15. Announced'
  BY <1>2, <1>11, <1>14 DEF Announced, Inv, Typed, Publications
<1>16. Dated'
  <2>1. today \in Nat /\ Sound(account) /\ Sound(stateRow) /\ Book(holdings)
    BY DEF Inv, Typed
  <2>2. Sound(account') /\ Agree(account', account)
    BY <1>2, <2>1, AccountAfterIs
  <2>3. connected => Agree(account, stateRow)
    BY <1>2 DEF Inv, Dated, Loading
  <2>4. connected => Agree(account', stateRow)
    BY <2>1, <2>2, <2>3, AgreeAll
  <2> QED BY <1>2, <2>4 DEF Dated
<1> QED BY <1>8, <1>13, <1>15, <1>16 DEF Inv

(* What the statement at the head stores, whatever follows it. *)
LEMMA ExecuteStores ==
  ASSUME Inv, todo # << >>, Execute(todo[1]), holdings' = holdings, today' = today
  PROVE  /\ Book(table') /\ Sound(stateRow)' /\ closures' \in Nat
         /\ stateRow' \in {account, stateRow}
         /\ Loading => stateRow' = stateRow
<1>1. closures \in Nat /\ Book(holdings) /\ Book(table) /\ Sound(account) /\ Sound(stateRow)
  BY DEF Inv, Typed
<1>2. \/ todo[1] \in {SaveState, RecordClosure, Load, Resave}
      \/ \E s \in Symbols : todo[1] = SavePosition(holdings, s)
  BY DEF Inv, Waiting
<1>3. CASE todo[1] \in {SaveState, RecordClosure, Load, Resave}
  <2>1. /\ table' = table /\ stateRow' \in {account, stateRow} /\ closures' \in Nat
        /\ Loading => stateRow' = stateRow
    BY <1>1, <1>3, OthersAre, Heads DEF Loading
  <2> QED BY <1>1, <2>1 DEF Sound
<1>4. ASSUME NEW s \in Symbols, todo[1] = SavePosition(holdings, s)
      PROVE  Book(table') /\ stateRow' = stateRow /\ closures' \in Nat
  BY <1>1, <1>4, SaveIs
<1> QED BY <1>1, <1>2, <1>3, <1>4 DEF Sound

LEMMA StatementKeeps == Inv /\ Statement => Inv'
<1> SUFFICES ASSUME Inv, Statement PROVE Inv'
  OBVIOUS
<1>1. /\ up /\ todo # << >> /\ Execute(todo[1]) /\ todo' = Tail(todo)
      /\ IF Loading THEN account' = stateRow /\ holdings' = table
         ELSE /\ account' = IF Len(todo) = 1 THEN RollDay(account, holdings) ELSE account
              /\ holdings' = holdings
      /\ UNCHANGED <<orders, today, outbox, log, position, committed, up, connected, looping, missed>>
      /\ UNCHANGED <<published, built, dbFailures, starts>>
  BY DEF Statement, Restore, bus, life, history
<1>2. /\ closures \in Nat /\ Book(holdings) /\ Book(table) /\ Sound(account) /\ Sound(stateRow)
      /\ today \in Nat /\ connected
  BY <1>1 DEF Inv, Typed
<1>3. Clean' = Clean /\ Announced'
  BY <1>1 DEF Inv, Announced, Clean
<1>4. ASSUME Book(table'), Book(holdings'), Sound(account)', Sound(stateRow)', closures' \in Nat PROVE Typed'
  BY <1>1, <1>2, <1>4 DEF Inv, Typed
<1>5. CASE todo = <<Load, Resave>>
  <2>1. Loading /\ Execute(Load) /\ todo' = <<Resave>> /\ starts # 1
    BY <1>1, <1>5, Heads DEF Loading, Inv, Waiting
  <2>2. /\ table' = table /\ stateRow' = stateRow /\ closures' = closures
        /\ account' = stateRow /\ holdings' = table
    BY <1>1, <2>1, OthersAre
  <2>3. Typed'
    BY <1>1, <1>2, <1>4, <2>2 DEF Sound
  <2>4. Waiting'
    BY <1>1, <2>1, <2>2 DEF Waiting, Rebuilt, Followed, Recorded
  <2>5. Dated'
    BY <1>2, <2>2 DEF Dated, Agree, Sound
  <2> QED BY <1>3, <2>3, <2>4, <2>5 DEF Inv
<1>6. CASE ~Loading
  <2>1. /\ holdings' = holdings
        /\ account' = IF Len(todo) = 1 THEN RollDay(account, holdings) ELSE account
    BY <1>1, <1>6
  <2>2. /\ Book(table') /\ Sound(stateRow)' /\ closures' \in Nat /\ stateRow' \in {account, stateRow}
    BY <1>1, <2>1, ExecuteStores
  <2>3. /\ Sound(account') /\ Agree(account', account) /\ Settled(account') = Settled(account)
    BY <1>2, <2>1, RollDayIs, SettledIs DEF Agree, Sound
  <2>4. Sound(account)'
    BY <1>1, <2>3 DEF Sound
  <2>5. Typed'
    BY <1>2, <1>4, <2>1, <2>2, <2>4
  <2>6. Dated'
    <3>1. Agree(account, stateRow) /\ Agree(account, account)
      BY <1>1, <1>2, <1>6 DEF Inv, Dated, Agree, Sound
    <3>2. Agree(account', stateRow')
      BY <1>2, <2>2, <2>3, <3>1, AgreeAll
    <3> QED BY <3>2 DEF Dated, Agree
  <2>7. CASE todo \in {<<SaveState>>, <<Resave>>}
    <3>1. todo' = << >> /\ table' = table /\ stateRow' = account /\ closures' = closures
      <4>1. CASE todo = <<SaveState>>
        <5>1. todo' = << >> /\ Execute(SaveState)
          BY <1>1, <4>1
        <5> QED BY <5>1, OthersAre
      <4>2. CASE todo = <<Resave>>
        <5>1. todo' = << >> /\ Execute(Resave)
          BY <1>1, <4>2
        <5> QED BY <5>1, OthersAre
      <4> QED BY <2>7, <4>1, <4>2
    <3>2. Clean => Followed /\ Recorded(0)
      BY <2>7, Heads DEF Inv, Waiting, Rebuilt
    <3>3. Waiting'
      BY <1>1, <1>3, <2>1, <2>3, <3>1, <3>2 DEF Waiting, Rebuilt, Followed, Recorded
    <3> QED BY <1>3, <2>5, <2>6, <3>3 DEF Inv
  <2>8. CASE todo = <<RecordClosure, SaveState>> /\ (Clean => Followed /\ Recorded(1))
    <3>1. Execute(RecordClosure) /\ todo' = <<SaveState>>
      BY <1>1, <2>8
    <3>2. table' = table /\ closures' = closures + 1
      BY <3>1, OthersAre
    <3>3. Waiting'
      BY <1>1, <1>2, <1>3, <2>1, <2>8, <3>1, <3>2 DEF Waiting, Followed, Recorded
    <3> QED BY <1>3, <2>5, <2>6, <3>3 DEF Inv
  <2>9. ASSUME NEW s \in Symbols, todo = <<SavePosition(holdings, s), SaveState>>,
               Clean => FollowedBut(s) /\ Recorded(0)
        PROVE  Inv'
    <3>1. Execute(SavePosition(holdings, s)) /\ todo' = <<SaveState>>
      BY <1>1, <2>9
    <3>2. closures' = closures /\ (FollowedBut(s) => Followed')
      BY <1>2, <2>1, <3>1, SaveIs
    <3>3. Waiting'
      BY <1>1, <1>3, <2>9, <3>1, <3>2 DEF Waiting, Recorded
    <3> QED BY <1>3, <2>5, <2>6, <3>3 DEF Inv
  <2>10. ASSUME NEW s \in Symbols, todo = <<SavePosition(holdings, s), RecordClosure, SaveState>>,
                Clean => FollowedBut(s) /\ Recorded(1)
         PROVE  Inv'
    <3>1. Execute(SavePosition(holdings, s)) /\ todo' = <<RecordClosure, SaveState>>
      BY <1>1, <2>10
    <3>2. closures' = closures /\ (FollowedBut(s) => Followed')
      BY <1>2, <2>1, <3>1, SaveIs
    <3>3. Waiting'
      BY <1>1, <1>3, <2>10, <3>1, <3>2 DEF Waiting, Recorded
    <3> QED BY <1>3, <2>5, <2>6, <3>3 DEF Inv
  <2>11. todo # <<Load, Resave>>
    BY <1>6, Heads DEF Loading
  <2> QED BY <1>1, <2>7, <2>8, <2>9, <2>10, <2>11 DEF Inv, Waiting
<1> QED BY <1>5, <1>6, LoadingIs DEF Inv

(* A statement fails or is refused: the tables of this process may be      *)
(* behind from now on.                                                     *)
LEMMA AbandonKeeps == Inv /\ (StatementFails \/ StatementRefused) => Inv'
<1> SUFFICES ASSUME Inv, StatementFails \/ StatementRefused PROVE Inv'
  OBVIOUS
<1>1. /\ up /\ todo # << >> /\ todo' = << >> /\ missed' = TRUE /\ up' = ~Starting
      /\ UNCHANGED <<account, holdings, orders, today>>
      /\ UNCHANGED <<log, position, committed, connected, looping, published, built, starts>>
      /\ dbFailures' \in Nat
  BY DEF StatementFails, StatementRefused, Abandon, memory, bus, history, Inv, Typed
<1>2. /\ Book(table') /\ Sound(stateRow)' /\ closures' \in Nat /\ stateRow' \in {account, stateRow}
  <2>1. CASE StatementFails
    BY <2>1, <1>1 DEF StatementFails, tables, Inv, Typed, Sound
  <2>2. CASE StatementRefused
    BY <2>2, <1>1, ExecuteStores DEF StatementRefused
  <2> QED BY <2>1, <2>2
<1>3. /\ today \in Nat /\ Sound(account)' /\ Book(holdings') /\ ~Clean'
      /\ {up, connected, looping, missed}' \subseteq BOOLEAN
  BY <1>1 DEF Inv, Typed, Sound, Clean, Starting
<1>4. Typed'
  BY <1>1, <1>2, <1>3 DEF Inv, Typed
<1>5. Dated'
  <2> SUFFICES ASSUME up', connected' PROVE Agree(account, stateRow')
    BY <1>1 DEF Dated
  <2>1. ~Loading
    BY <1>1 DEF Starting, Loading
  <2>2. Agree(account, stateRow) /\ Agree(account, account)
    BY <1>1, <2>1 DEF Inv, Dated, Typed, Agree, Sound
  <2> QED BY <1>2, <2>2
<1> QED BY <1>1, <1>3, <1>4, <1>5 DEF Inv, Waiting, Announced

LEMMA PublishKeeps == Inv /\ Publish => Inv'
<1> SUFFICES ASSUME Inv, Publish PROVE Inv'
  OBVIOUS
<1>1. /\ outbox # << >> /\ outbox' = Tail(outbox)
      /\ published' = IF outbox[1] = "closure" THEN published + 1 ELSE published
      /\ UNCHANGED <<account, holdings, orders, today, todo, stateRow, table, closures>>
      /\ UNCHANGED <<log, position, committed, up, connected, looping, missed, built, dbFailures, starts>>
      /\ published \in Nat
  BY DEF Publish, memory, tables, bus, life, Inv, Typed
<1>2. published' \in Nat
  BY <1>1
<1>3. Typed'
  BY <1>1, <1>2 DEF Inv, Typed, Sound, Book
<1>4. Waiting' /\ Dated'
  BY <1>1 DEF Inv, Waiting, Dated, Loading, Clean, Rebuilt, Followed, FollowedBut, Recorded
<1>5. Announced'
  <2> SUFFICES ASSUME Clean', starts' = 1
               PROVE  \/ outbox' \in {<< >>, <<"snapshot">>} /\ published' = built'
                      \/ outbox' = <<"closure", "snapshot">> /\ published' + 1 = built'
    BY DEF Announced
  <2>1. \/ outbox \in {<< >>, <<"snapshot">>} /\ published = built
        \/ outbox = <<"closure", "snapshot">> /\ published + 1 = built
    BY <1>1 DEF Inv, Announced, Clean
  <2>2. CASE outbox = <<"snapshot">> /\ published = built
    <3>1. outbox' = << >> /\ outbox[1] = "snapshot" /\ "snapshot" # "closure"
      BY <1>1, <2>2
    <3> QED BY <1>1, <2>2, <3>1
  <2>3. CASE outbox = <<"closure", "snapshot">> /\ published + 1 = built
    <3>1. outbox' = <<"snapshot">> /\ outbox[1] = "closure"
      BY <1>1, <2>3
    <3> QED BY <1>1, <2>3, <3>1
  <2> QED BY <1>1, <2>1, <2>2, <2>3
<1> QED BY <1>3, <1>4, <1>5 DEF Inv

LEMMA TakeBookKeeps == Inv /\ TakeBook => Inv'
<1> SUFFICES ASSUME Inv, TakeBook PROVE Inv'
  OBVIOUS
<1>1. PICK s \in Symbols, price \in Prices : OnBook(s, price)
  BY DEF TakeBook
<1> DEFINE marked == [holdings EXCEPT ![s].mark = price]
<1>2. /\ s \in DOMAIN holdings /\ holdings' = marked /\ orders' = orders
      /\ \/ account' = RollDay(account, marked) /\ outbox' = <<"snapshot">>
         \/ account' = account /\ outbox' = outbox
      /\ todo = << >> /\ outbox = << >> /\ up
      /\ UNCHANGED <<today, todo, stateRow, table, closures, log, position, committed>>
      /\ UNCHANGED <<up, connected, looping, missed, published, built, dbFailures, starts>>
  BY <1>1 DEF TakeBook, OnBook, Taking, Idle, tables, bus, life, history
<1>3. price \in Int
  BY PortfolioAssumption
<1>4. /\ Book(marked) /\ DOMAIN marked = DOMAIN holdings
      /\ \A x \in DOMAIN holdings : Plain(marked[x]) = Plain(holdings[x])
  <2>1. Book(holdings) /\ s \in DOMAIN holdings
    BY <1>2 DEF Inv, Typed
  <2>2. DOMAIN marked = DOMAIN holdings
    BY <2>1 DEF Book
  <2>3. \A x \in DOMAIN holdings : marked[x] = IF x = s THEN [holdings[x] EXCEPT !.mark = price]
                                                ELSE holdings[x]
    BY <2>1 DEF Book
  <2>4. \A x \in DOMAIN holdings : /\ holdings[x] \in Position
                                   /\ [holdings[x] EXCEPT !.mark = price] \in Position
                                   /\ Plain([holdings[x] EXCEPT !.mark = price]) = Plain(holdings[x])
    BY <1>3, <2>1 DEF Book, Position, Plain
  <2> HIDE DEF marked
  <2> QED BY <2>1, <2>2, <2>3, <2>4 DEF Book
<1> HIDE DEF marked
<1>5. Sound(account)' /\ Settled(account') = Settled(account) /\ Agree(account', account)
  <2>1. today' = today /\ today \in Nat /\ Sound(account)
    BY <1>2 DEF Inv, Typed
  <2> QED BY <1>2, <2>1, RollDayIs, SettledIs DEF Sound, Agree
<1>6. Typed'
  BY <1>2, <1>4, <1>5 DEF Inv, Typed, Sound
<1>7. Clean' = Clean
  BY <1>2 DEF Clean
<1>8. Clean => Rebuilt
  BY <1>2 DEF Inv, Waiting
<1>9. Waiting'
  BY <1>2, <1>4, <1>5, <1>7, <1>8 DEF Waiting, Rebuilt, Followed, Recorded
<1>10. Announced'
  BY <1>2, <1>7 DEF Inv, Announced
<1>11. Dated'
  <2>1. connected => Agree(account, stateRow)
    BY <1>2 DEF Inv, Dated, Loading
  <2>2. Sound(account) /\ Sound(stateRow) /\ Sound(account')
    BY <1>2, <1>5 DEF Inv, Typed, Sound
  <2>3. connected => Agree(account', stateRow)
    BY <1>5, <2>1, <2>2, AgreeAll
  <2> QED BY <1>2, <2>3 DEF Dated
<1> QED BY <1>6, <1>9, <1>10, <1>11 DEF Inv

LEMMA StartKeeps == Inv /\ Start => Inv'
<1> SUFFICES ASSUME Inv, Start PROVE Inv'
  OBVIOUS
<1>1. /\ ~up /\ up' = TRUE /\ looping' = TRUE /\ missed' = FALSE /\ connected' \in BOOLEAN
      /\ starts' = starts + 1 /\ position' = committed
      /\ account' = [Fresh EXCEPT !.day = today] /\ holdings' = << >> /\ orders' = << >>
      /\ todo' = IF connected' THEN <<Load, Resave>> ELSE << >>
      /\ UNCHANGED <<today, stateRow, table, closures, log, committed>>
      /\ UNCHANGED <<published, built, dbFailures>>
      /\ starts \in Nat \ {0} /\ today \in Nat /\ StartingEquity \in Nat
  BY PortfolioAssumption DEF Start, tables, Inv, Typed
<1>2. Sound(account)'
  BY <1>1 DEF Fresh, Sound, Fields
<1>3. starts' \in Nat \ {0} /\ starts' # 1
  BY <1>1
<1>4. {up, connected, looping, missed}' \subseteq BOOLEAN
  BY <1>1
<1>5. \A id \in DOMAIN orders' : orders'[id] \in Levels
  BY <1>1
<1>6. Sound(stateRow)' /\ Book(holdings') /\ Book(table')
  BY <1>1 DEF Inv, Typed, Sound, Book
<1>7. Typed'
  BY <1>1, <1>2, <1>3, <1>4, <1>5, <1>6 DEF Inv, Typed
<1>8. Waiting'
  BY <1>1, <1>3 DEF Waiting, Clean
<1>9. Announced'
  BY <1>3 DEF Announced
<1>10. Dated'
  BY <1>1, Heads DEF Dated, Loading
<1> QED BY <1>7, <1>8, <1>9, <1>10 DEF Inv

(* on_stop() saves the account as it is: no case of Waiting minds. *)
LEMMA StopSavesKeeps == Inv /\ StopSaves => Inv'
<1> SUFFICES ASSUME Inv, StopSaves PROVE Inv'
  OBVIOUS
<1>1. /\ stateRow' = IF connected THEN account ELSE stateRow
      /\ UNCHANGED <<account, holdings, orders, today, todo, outbox, table, closures>>
      /\ UNCHANGED <<log, position, committed, up, connected, looping, missed, published, built, dbFailures, starts>>
  BY DEF StopSaves, memory, bus, history
<1>2. Sound(stateRow)'
  BY <1>1 DEF Inv, Typed, Sound
<1>3. Typed'
  BY <1>1, <1>2 DEF Inv, Typed, Sound, Book
<1>4. Waiting'
  BY <1>1 DEF Inv, Waiting, Clean, Rebuilt, Followed, FollowedBut, Recorded
<1>5. Dated'
  BY <1>1 DEF Inv, Dated, Loading, Typed, Sound, Agree
<1>6. Announced'
  BY <1>1 DEF Inv, Announced, Clean
<1> QED BY <1>3, <1>4, <1>5, <1>6 DEF Inv

(* A process that is down leaves nothing to publish or to store. *)
LEMMA EndKeeps == Inv /\ (Crash \/ Exit) => Inv'
<1> SUFFICES ASSUME Inv, Crash \/ Exit PROVE Inv'
  OBVIOUS
<1>1. /\ up' = FALSE /\ todo' = << >>
      /\ committed' \in {position, committed}
      /\ UNCHANGED <<account, holdings, orders, today, stateRow, table, closures, log, position>>
      /\ UNCHANGED <<connected, looping, missed, published, built, dbFailures, starts>>
  BY DEF Crash, Exit, memory, tables, bus, history
<1>2. {up, connected, looping, missed}' \subseteq BOOLEAN /\ ~Clean'
  BY <1>1 DEF Clean, Inv, Typed
<1>3. Typed'
  BY <1>1, <1>2 DEF Inv, Typed, Sound, Book
<1> QED BY <1>1, <1>2, <1>3 DEF Inv, Waiting, Announced, Dated

(* The steps of stop() that leave the tables alone: the process may end.   *)
LEMMA StopKeeps == Inv /\ (AskStop \/ StopSaveFails \/ LeaveLoop) => Inv'
<1> SUFFICES ASSUME Inv, AskStop \/ StopSaveFails \/ LeaveLoop PROVE Inv'
  OBVIOUS
<1>1. /\ up /\ (todo # << >> => up' /\ looping')
      /\ UNCHANGED <<account, holdings, orders, today, outbox, stateRow, table, closures, log>>
      /\ UNCHANGED <<todo, committed, connected, missed, published, built, starts>>
  <2>1. CASE AskStop
    BY <2>1 DEF AskStop, memory, tables, bus, history, Inv, Typed
  <2>2. CASE StopSaveFails
    BY <2>2 DEF StopSaveFails, memory, tables, bus, history, Inv, Typed
  <2>3. CASE LeaveLoop
    BY <2>3 DEF LeaveLoop, Idle, memory, tables, bus, history
  <2> QED BY <2>1, <2>2, <2>3
<1>2. position' \in Nat /\ dbFailures' \in Nat
  <2>1. position \in Nat /\ log \in Seq(Fill) /\ dbFailures \in Nat
    BY DEF Inv, Typed
  <2> QED BY <2>1 DEF AskStop, StopSaveFails, LeaveLoop, Smaller, bus, history
<1>3. Typed'
  <2>1. Sound(account)' /\ Sound(stateRow)' /\ Book(holdings)' /\ Book(table)' /\ today' \in Nat
    BY <1>1 DEF Inv, Typed, Sound, Book
  <2>2. up' \in BOOLEAN /\ looping' \in BOOLEAN /\ connected' \in BOOLEAN /\ missed' \in BOOLEAN
    <3>1. up \in BOOLEAN /\ looping \in BOOLEAN /\ connected \in BOOLEAN /\ missed \in BOOLEAN
      BY DEF Inv, Typed
    <3> QED BY <1>1, <3>1 DEF AskStop, StopSaveFails, LeaveLoop
  <2>3. {up, connected, looping, missed}' \subseteq BOOLEAN
    BY <2>2
  <2>4. todo' # << >> => up' /\ connected' /\ looping'
    BY <1>1 DEF Inv, Typed
  <2> QED BY <1>1, <1>2, <2>1, <2>3, <2>4 DEF Inv, Typed
<1>5. Waiting'
  BY <1>1 DEF Inv, Waiting, Clean, Rebuilt, Followed, FollowedBut, Recorded
<1>6. Announced' /\ Dated'
  BY <1>1 DEF Inv, Announced, Dated, Loading, Clean
<1> QED BY <1>3, <1>5, <1>6 DEF Inv

(* What neither the tracker nor the tables notice. *)
LEMMA OtherKeeps == Inv /\ (NewFill \/ TakeOrder \/ AutoCommit \/ Midnight) => Inv'
<1> SUFFICES ASSUME Inv, NewFill \/ TakeOrder \/ AutoCommit \/ Midnight PROVE Inv'
  OBVIOUS
<1>1. /\ UNCHANGED <<account, holdings, todo, outbox, stateRow, table, closures, position>>
      /\ UNCHANGED <<up, connected, looping, missed, published, built, dbFailures, starts>>
  BY DEF NewFill, TakeOrder, OnOrder, AutoCommit, Midnight, memory, tables, bus, life, history
<1>2. today' \in Nat /\ today <= today'
  <2>1. today' = today \/ today' = today + 1
    BY DEF NewFill, TakeOrder, AutoCommit, Midnight
  <2> QED BY <2>1 DEF Inv, Typed
<1>3. \A id \in DOMAIN orders' : orders'[id] \in Levels
  <2>1. CASE TakeOrder
    BY <2>1 DEF TakeOrder, OnOrder, With, Inv, Typed
  <2>2. CASE NewFill \/ AutoCommit \/ Midnight
    BY <2>2 DEF NewFill, AutoCommit, Midnight, memory, Inv, Typed
  <2> QED BY <2>1, <2>2
<1>4. log' \in Seq(Fill) /\ committed' \in Nat
  <2>1. log \in Seq(Fill) /\ committed \in Nat /\ position \in Nat
    BY DEF Inv, Typed
  <2>2. CASE NewFill
    <3>1. PICK f \in Fill : log' = Append(log, f)
      BY <2>2 DEF NewFill
    <3> QED BY <2>1, <2>2, <3>1 DEF NewFill
  <2>3. CASE TakeOrder \/ AutoCommit \/ Midnight
    BY <2>1, <2>3 DEF TakeOrder, AutoCommit, Midnight, bus
  <2> QED BY <2>2, <2>3
<1>5. Sound(account)' /\ Sound(stateRow)'
  <2>1. today \in Nat /\ Sound(account) /\ Sound(stateRow)
    BY DEF Inv, Typed
  <2>2. account.day <= today' /\ stateRow.day <= today'
    BY <1>2, <2>1 DEF Sound
  <2> QED BY <1>1, <2>1, <2>2 DEF Sound
<1>6. Typed'
  <2>1. {up, connected, looping, missed}' \subseteq BOOLEAN /\ (todo' # << >> => up' /\ connected' /\ looping')
    BY <1>1 DEF Inv, Typed
  <2>2. Book(holdings') /\ Book(table') /\ position' \in Nat
    BY <1>1 DEF Inv, Typed
  <2>3. {closures, published, built, dbFailures}' \subseteq Nat /\ starts' \in Nat \ {0}
    BY <1>1 DEF Inv, Typed
  <2> QED BY <1>2, <1>3, <1>4, <1>5, <2>1, <2>2, <2>3 DEF Typed
<1>7. Waiting' /\ Announced' /\ Dated'
  BY <1>1 DEF Inv, Waiting, Announced, Dated, Loading, Clean, Rebuilt, Followed, FollowedBut, Recorded
<1> QED BY <1>6, <1>7 DEF Inv

LEMMA InvNext == Inv /\ [Next]_vars => Inv'
<1> SUFFICES ASSUME Inv, [Next]_vars PROVE Inv'
  OBVIOUS
<1>1. CASE UNCHANGED vars
  BY <1>1 DEF vars, memory, tables, bus, life, history, Inv, Typed, Sound, Book, Waiting, Announced,
              Dated, Loading, Clean, Rebuilt, Followed, FollowedBut, Recorded
<1> QED BY <1>1, TakeFillKeeps, StatementKeeps, AbandonKeeps, PublishKeeps, TakeBookKeeps,
           StartKeeps, StopSavesKeeps, StopKeeps, EndKeeps, OtherKeeps DEF Next

LEMMA Invariance == Spec => []Inv
  BY InvInit, InvNext, PTL DEF Spec

(* Realised PnL is always net of costs: the cash in memory and in the      *)
(* table is what was realised less the fees, also in an account rebuilt    *)
(* after a crash at any statement.                                         *)
THEOREM CashIsNet == Spec => []CashIdentity
<1>1. Inv => CashIdentity
  BY DEF Inv, Typed, Sound, CashIdentity
<1> QED BY <1>1, Invariance, PTL

(* Whenever no statement waits the tables rebuild the tracker, unless a    *)
(* statement of this process failed or stop() closed the pool on one: the  *)
(* positions, the account and the baseline of a saved day; and every       *)
(* closure is recorded and published once.                                 *)
THEOREM TablesRebuild == Spec => []TablesFollow
<1>1. Inv => TablesFollow
  <2> SUFFICES ASSUME Inv, up, connected, todo = << >>, ~missed
               PROVE  /\ Unmarked(table) = Unmarked(holdings)
                      /\ Settled(stateRow) = Settled(account)
                      /\ stateRow.day = account.day => stateRow.dayStart = account.dayStart
                      /\ starts = 1 => closures = built /\ (outbox = << >> => published = built)
    BY DEF TablesFollow, Settled, Undated
  <2>1. Rebuilt /\ Clean
    BY DEF Inv, Waiting, Clean
  <2>2. Unmarked(table) = Unmarked(holdings)
    BY <2>1 DEF Rebuilt, Followed, Plain, Unmarked
  <2>3. starts = 1 => closures = built
    BY <2>1 DEF Rebuilt, Recorded, Inv, Typed
  <2>4. (starts = 1 /\ outbox = << >>) => published = built
    BY <2>1 DEF Inv, Announced
  <2>5. stateRow.day = account.day => stateRow.dayStart = account.dayStart
    BY DEF Inv, Dated, Agree, Loading
  <2> QED BY <2>1, <2>2, <2>3, <2>4, <2>5 DEF Rebuilt
<1> QED BY <1>1, Invariance, PTL

(* A baseline that reached the table stands for its whole day, there and   *)
(* in every process that reads it, through failed statements, stops,       *)
(* crashes and restarts, except where stop() overtakes restore().          *)
THEOREM BaselineStands == Spec => SavedBaselineStands
<1> DEFINE Stands ==
      /\ stateRow'.dayStart # stateRow.dayStart => stateRow'.day > stateRow.day \/ Loading
      /\ (up' /\ connected' /\ ~Loading' /\ account'.day = stateRow'.day) =>
           account'.dayStart = stateRow'.dayStart
<1>1. Inv /\ Inv' /\ [Next]_vars => [Stands]_vars
  <2> SUFFICES ASSUME Inv, Inv', Next PROVE Stands
    OBVIOUS
  <2>1. (up' /\ connected' /\ ~Loading' /\ account'.day = stateRow'.day) =>
          account'.dayStart = stateRow'.dayStart
    BY DEF Inv, Dated, Agree
  <2>2. stateRow' = stateRow \/ (up /\ connected /\ stateRow' = account)
    <3>1. CASE Statement \/ StatementRefused
      BY <3>1, ExecuteStores DEF Statement, StatementRefused, Execute, Inv, Typed
    <3>2. CASE StopSaves
      BY <3>2 DEF StopSaves
    <3>3. CASE ~(Statement \/ StatementRefused \/ StopSaves)
      BY <3>3 DEF Next, NewFill, TakeFill, TakeOrder, TakeBook, StatementFails, Publish, AutoCommit,
                  Midnight, Crash, AskStop, StopSaveFails, LeaveLoop, Exit, Start, tables
    <3> QED BY <3>1, <3>2, <3>3
  <2>3. ASSUME up, connected, stateRow' = account, ~Loading, account.dayStart # stateRow.dayStart
        PROVE  account.day > stateRow.day
    <3>1. Agree(account, stateRow)
      BY <2>3 DEF Inv, Dated
    <3>2. account.day \in Nat /\ stateRow.day \in Nat
      BY DEF Inv, Typed, Sound
    <3> QED BY <2>3, <3>1, <3>2 DEF Agree
  <2> QED BY <2>1, <2>2, <2>3
<1>2. Spec => [][Stands]_vars
  BY <1>1, Invariance, PTL DEF Spec
<1> QED BY <1>2 DEF SavedBaselineStands

-----------------------------------------------------------------------------
(* Positions net per symbol, and equity is marked to market.  Both compare *)
(* the tracker with the fills seen, each counted once: Counted says which  *)
(* those are, until a restart replays or loses one.                        *)

Counted ==
  /\ IsFiniteSet(DOMAIN holdings) /\ IsFiniteSet(DOMAIN table)
  /\ position <= Len(log) /\ committed <= Len(log)
  /\ starts = 1 => seen \subseteq 1..position /\ (looping => seen = 1..position)

(* What a position cost at its average entry. *)
CostOf(h, s) == Held(h, s) * h[s].entry
Cost(h) == SumOf([s \in DOMAIN h |-> CostOf(h, s)])

(* The book value: what the marks have no part in. *)
BooksBalance ==
  starts = 1 => account.cash - Cost(holdings) = StartingEquity - Charged - Invested

(* The five things a fill of size n and price p can do to a position: it   *)
(* was h[s], it is g[s].                                                   *)
Opens(h, g, s, f) ==
  /\ s \notin DOMAIN h /\ DOMAIN g = DOMAIN h \cup {s}
  /\ g[s].direction = f.direction /\ g[s].size = f.size /\ g[s].entry = f.price
Adds(h, g, s, f) ==
  /\ s \in DOMAIN h /\ DOMAIN g = DOMAIN h /\ h[s].direction = f.direction
  /\ g[s].direction = f.direction /\ g[s].size = h[s].size + f.size
  /\ g[s].entry = (h[s].entry * h[s].size + f.price * f.size) \div (h[s].size + f.size)
Reduces(h, g, s, f) ==
  /\ s \in DOMAIN h /\ DOMAIN g = DOMAIN h /\ h[s].direction # f.direction
  /\ f.size < h[s].size /\ g[s].direction = h[s].direction
  /\ g[s].size = h[s].size - f.size /\ g[s].entry = h[s].entry
Flips(h, g, s, f) ==
  /\ s \in DOMAIN h /\ DOMAIN g = DOMAIN h /\ h[s].direction # f.direction
  /\ h[s].size < f.size /\ g[s].direction = f.direction
  /\ g[s].size = f.size - h[s].size /\ g[s].entry = f.price
Closes(h, g, s, f) ==
  /\ s \in DOMAIN h /\ DOMAIN g = DOMAIN h \ {s} /\ h[s].direction # f.direction
  /\ h[s].size = f.size

LEMMA FillMoves ==
  ASSUME NEW h, NEW f \in Fill, Book(h), NEW s, s = f.symbol, NEW g, g = HoldingsAfter(h, f)
  PROVE  \/ Opens(h, g, s, f) \/ Adds(h, g, s, f) \/ Reduces(h, g, s, f)
         \/ Flips(h, g, s, f) \/ Closes(h, g, s, f)
<1>1. f.size \in Nat \ {0}
  BY FillTypes
<1>2. CASE s \notin DOMAIN h
  <2>1. g = With(h, s, Opened(f, f.size, LevelsOf(f)))
    BY <1>2 DEF HoldingsAfter
  <2> QED BY <1>2, <2>1 DEF With, Opened, Opens
<1>3. CASE s \in DOMAIN h /\ h[s].direction = f.direction
  <2>1. g = With(h, s, Added(h[s], f))
    BY <1>3 DEF HoldingsAfter, Opposes
  <2>2. h[s] \in Position
    BY <1>3 DEF Book
  <2>3. /\ Added(h[s], f).direction = h[s].direction
        /\ Added(h[s], f).size = h[s].size + f.size
        /\ Added(h[s], f).entry = (h[s].entry * h[s].size + f.price * f.size) \div (h[s].size + f.size)
    BY <2>2 DEF Added, Position
  <2>4. DOMAIN g = DOMAIN h /\ g[s] = Added(h[s], f)
    BY <1>3, <2>1 DEF With
  <2> QED BY <1>3, <2>3, <2>4 DEF Adds
<1>4. CASE s \in DOMAIN h /\ h[s].direction # f.direction
  <2>1. h[s] \in Position /\ h[s].size \in Nat /\ Opposes(h, f)
    BY <1>4 DEF Book, Position, Opposes
  <2>2. CASE f.size < h[s].size
    <3>1. g = With(h, s, Reduced(h[s], f)) /\ Closed(h[s], f) = f.size
      BY <1>1, <1>4, <2>1, <2>2 DEF HoldingsAfter, GoesFlat, Closed, Smaller
    <3>2. /\ Reduced(h[s], f).direction = h[s].direction
          /\ Reduced(h[s], f).size = h[s].size - f.size
          /\ Reduced(h[s], f).entry = h[s].entry
      BY <2>1, <3>1 DEF Reduced, Position
    <3>3. DOMAIN g = DOMAIN h /\ g[s] = Reduced(h[s], f)
      BY <1>4, <3>1 DEF With
    <3> QED BY <1>4, <2>2, <3>2, <3>3 DEF Reduces
  <2>3. CASE h[s].size < f.size
    <3>1. g = With(h, s, Opened(f, f.size - h[s].size, Unprotected))
      BY <1>1, <1>4, <2>1, <2>3 DEF HoldingsAfter, GoesFlat
    <3>2. DOMAIN g = DOMAIN h /\ g[s] = Opened(f, f.size - h[s].size, Unprotected)
      BY <1>4, <3>1 DEF With
    <3> QED BY <1>4, <2>3, <3>2 DEF Opened, Flips
  <2>4. CASE h[s].size = f.size
    <3>1. g = Without(h, s)
      BY <1>1, <1>4, <2>1, <2>4 DEF HoldingsAfter, GoesFlat
    <3> QED BY <1>4, <2>4, <3>1 DEF Without, Closes
  <2> QED BY <1>1, <2>1, <2>2, <2>3, <2>4
<1> QED BY <1>2, <1>3, <1>4

LEMMA SignIs ==
  ASSUME NEW d \in Directions, NEW e \in Directions
  PROVE  /\ Sign(d) \in Int
         /\ d # e => Sign(d) = -Sign(e)
  BY DEF Sign, Directions

LEMMA SizeMoves ==
  /\ \A k, a, b \in Int : /\ k * (a + b) = k * a + k * b
                          /\ (-k) * (a - b) = (-k) * a + k * b
                          /\ k * (b - a) = (-k) * a + k * b
                          /\ 0 = (-k) * a + k * a
                          /\ k * b = 0 + k * b
  OBVIOUS

(* A fill moves what is held of its symbol by its own signed size. *)
LEMMA HeldAfter ==
  ASSUME NEW h, NEW f \in Fill, Book(h), \A id \in DOMAIN orders : orders[id] \in Levels
  PROVE  \A s : Held(HoldingsAfter(h, f), s)
                 = Held(h, s) + IF s = f.symbol THEN Sign(f.direction) * f.size ELSE 0
<1> DEFINE g == HoldingsAfter(h, f)
<1>1. ASSUME NEW s, s # f.symbol PROVE Held(g, s) = Held(h, s) + 0
  <2>1. Held(g, s) = Held(h, s)
    BY <1>1, HoldingsAfterIs DEF Held
  <2>2. Held(h, s) \in Int
    <3>1. s \in DOMAIN h => Sign(h[s].direction) \in Int /\ h[s].size \in Int
      BY SignIs DEF Book, Position
    <3> QED BY <3>1, Product DEF Held
  <2> QED BY <2>1, <2>2
<1>2. Held(g, f.symbol) = Held(h, f.symbol) + Sign(f.direction) * f.size
  <2> DEFINE s == f.symbol
             k == Sign(f.direction)
             a == h[s].size
  <2>1. f.size \in Int /\ f.direction \in Directions /\ k \in Int
    BY FillTypes, SignIs
  <2>2. s \in DOMAIN h => a \in Int /\ h[s].direction \in Directions
    BY DEF Book, Position
  <2>3. CASE Opens(h, g, s, f)
    <3>1. Held(g, s) = k * f.size /\ Held(h, s) = 0
      BY <2>3 DEF Held, Opens
    <3> HIDE DEF g, s, k
    <3> QED BY <2>1, <3>1, SizeMoves DEF s, k
  <2>4. CASE Adds(h, g, s, f)
    <3>1. Held(g, s) = k * (a + f.size) /\ Held(h, s) = k * a
      BY <2>4 DEF Held, Adds
    <3>2. a \in Int
      BY <2>2, <2>4 DEF Adds
    <3> HIDE DEF g, s, k, a
    <3> QED BY <2>1, <3>1, <3>2, SizeMoves DEF s, k
  <2>5. CASE Reduces(h, g, s, f) \/ Flips(h, g, s, f) \/ Closes(h, g, s, f)
    <3>1. s \in DOMAIN h /\ h[s].direction # f.direction /\ a \in Int
      BY <2>2, <2>5 DEF Reduces, Flips, Closes
    <3>2. Sign(h[s].direction) = -k
      BY <2>1, <2>2, <3>1, SignIs
    <3>3. Held(h, s) = (-k) * a
      BY <3>1, <3>2 DEF Held
    <3>4. \/ Held(g, s) = (-k) * (a - f.size)
          \/ Held(g, s) = k * (f.size - a)
          \/ Held(g, s) = 0 /\ a = f.size
      BY <2>5, <3>2 DEF Held, Reduces, Flips, Closes
    <3> HIDE DEF g, s, k, a
    <3> QED BY <2>1, <3>1, <3>3, <3>4, SizeMoves DEF s, k
  <2>6. Opens(h, g, s, f) \/ Adds(h, g, s, f) \/ Reduces(h, g, s, f) \/ Flips(h, g, s, f) \/ Closes(h, g, s, f)
    BY FillMoves
  <2> QED BY <2>3, <2>4, <2>5, <2>6
<1> QED BY <1>1, <1>2

(* What a position cost, or nothing; what a fill realises, or nothing.     *)
Paid(h, s) == IF s \in DOMAIN h THEN CostOf(h, s) ELSE 0
Pnl(h, f) == IF Opposes(h, f) THEN Realized(h[f.symbol], f) ELSE 0

(* The average entry of an addition is a whole number of the prices' scale:*)
(* the code keeps it as a Decimal.                                         *)
AddsExactly(h, f) ==
  (f.symbol \in DOMAIN h /\ ~Opposes(h, f)) =>
    LET p == h[f.symbol] IN (p.entry * p.size + f.price * f.size) % (p.size + f.size) = 0

LEMMA PriceMoves ==
  \A k, a, m, e, p \in Int :
    /\ ((-k) * (a - m)) * e - ((-k) * a) * e = ((p - e) * m) * (-k) + (k * m) * p
    /\ (k * (m - a)) * p - ((-k) * a) * e = ((p - e) * a) * (-k) + (k * m) * p
    /\ 0 - ((-k) * m) * e = ((p - e) * m) * (-k) + (k * m) * p
    /\ \A q \in Int : q * (a + m) = e * a + p * m =>
                      (k * (a + m)) * q - (k * a) * e = 0 + (k * m) * p
  OBVIOUS

LEMMA ExactQuotient ==
  ASSUME NEW v \in Int, NEW n \in Nat \ {0}, v % n = 0
  PROVE  v \div n \in Int /\ (v \div n) * n = v
  OBVIOUS

LEMMA PaidAfter ==
  ASSUME NEW h, NEW f \in Fill, Book(h), AddsExactly(h, f)
  PROVE  Paid(HoldingsAfter(h, f), f.symbol) - Paid(h, f.symbol)
         = Pnl(h, f) + (Sign(f.direction) * f.size) * f.price
<1> DEFINE g == HoldingsAfter(h, f)
           s == f.symbol
           k == Sign(f.direction)
           m == f.size
           p == f.price
           a == h[s].size
           e == h[s].entry
<1>1. /\ m \in Nat \ {0} /\ p \in Int /\ f.direction \in Directions /\ k \in Int
      /\ s \in DOMAIN h => a \in Nat \ {0} /\ e \in Int /\ h[s].direction \in Directions
  BY FillTypes, SignIs DEF Book, Position
<1>2. CASE Opens(h, g, s, f)
  <2>1. Paid(g, s) = (k * m) * p /\ Paid(h, s) = 0 /\ Pnl(h, f) = 0
    BY <1>2 DEF Paid, CostOf, Held, Opens, Pnl, Opposes
  <2>2. (k * m) * p \in Int
    BY <1>1, Product
  <2> HIDE DEF g, s, k, m, p
  <2> QED BY <2>1, <2>2 DEF s, k, m, p, g
<1>3. CASE Adds(h, g, s, f)
  <2> DEFINE v == e * a + p * m
             n == a + m
             q == v \div n
  <2>1. Paid(g, s) = (k * n) * q /\ Paid(h, s) = (k * a) * e /\ Pnl(h, f) = 0
    BY <1>3 DEF Paid, CostOf, Held, Adds, Pnl, Opposes
  <2>2. v % n = 0
    BY <1>3 DEF AddsExactly, Adds, Opposes
  <2>3. a \in Nat \ {0} /\ e \in Int /\ m \in Nat \ {0} /\ p \in Int /\ k \in Int
    BY <1>1, <1>3 DEF Adds
  <2> HIDE DEF g, s, k, m, p, a, e
  <2>4. e * a \in Int /\ p * m \in Int /\ n \in Nat \ {0}
    BY <2>3, Product
  <2>5. v \in Int
    BY <2>4
  <2>6. q \in Int /\ q * n = v
    <3> HIDE DEF v, n
    <3> QED BY <2>2, <2>4, <2>5, ExactQuotient DEF q
  <2> HIDE DEF q
  <2>7. (k * n) * q - (k * a) * e = 0 + (k * m) * p
    BY <2>3, <2>6, PriceMoves
  <2> QED BY <2>1, <2>7 DEF g, s, k, m, p
<1>4. CASE Reduces(h, g, s, f) \/ Flips(h, g, s, f) \/ Closes(h, g, s, f)
  <2>1. s \in DOMAIN h /\ h[s].direction # f.direction /\ a \in Nat \ {0} /\ e \in Int
    BY <1>1, <1>4 DEF Reduces, Flips, Closes
  <2>2. Sign(h[s].direction) = -k
    BY <1>1, <2>1, SignIs
  <2>3. Paid(h, s) = ((-k) * a) * e
    BY <2>1, <2>2 DEF Paid, CostOf, Held
  <2>4. Pnl(h, f) = ((p - e) * Closed(h[s], f)) * (-k)
    BY <2>1, <2>2 DEF Pnl, Opposes, Realized
  <2>5. \/ Paid(g, s) = ((-k) * (a - m)) * e /\ Closed(h[s], f) = m
        \/ Paid(g, s) = (k * (m - a)) * p /\ Closed(h[s], f) = a
        \/ Paid(g, s) = 0 /\ a = m /\ Closed(h[s], f) = m
    <3>1. CASE Reduces(h, g, s, f)
      BY <1>1, <2>1, <2>2, <3>1 DEF Paid, CostOf, Held, Reduces, Closed, Smaller
    <3>2. CASE Flips(h, g, s, f)
      BY <1>1, <2>1, <3>2 DEF Paid, CostOf, Held, Flips, Closed, Smaller
    <3>3. CASE Closes(h, g, s, f)
      BY <1>1, <2>1, <3>3 DEF Paid, Closes, Closed, Smaller
    <3> QED BY <1>4, <3>1, <3>2, <3>3
  <2> DEFINE c == Closed(h[s], f)
  <2> HIDE DEF g, s, k, m, p, a, e, c
  <2>6. m \in Int /\ a \in Int /\ e \in Int /\ p \in Int /\ k \in Int
    BY <1>1, <2>1
  <2>7. Paid(g, s) - Paid(h, s) = ((p - e) * c) * (-k) + (k * m) * p
    <3>1. /\ ((-k) * (a - m)) * e - ((-k) * a) * e = ((p - e) * m) * (-k) + (k * m) * p
          /\ (k * (m - a)) * p - ((-k) * a) * e = ((p - e) * a) * (-k) + (k * m) * p
          /\ 0 - ((-k) * m) * e = ((p - e) * m) * (-k) + (k * m) * p
      BY <2>6, PriceMoves
    <3>2. CASE Paid(g, s) = ((-k) * (a - m)) * e /\ c = m
      BY <2>3, <3>1, <3>2
    <3>3. CASE Paid(g, s) = (k * (m - a)) * p /\ c = a
      BY <2>3, <3>1, <3>3
    <3>4. CASE Paid(g, s) = 0 /\ a = m /\ c = m
      BY <2>3, <3>1, <3>4
    <3> QED BY <2>5, <3>2, <3>3, <3>4 DEF c
  <2> QED BY <2>4, <2>7 DEF g, s, k, m, p, c
<1>5. Opens(h, g, s, f) \/ Adds(h, g, s, f) \/ Reduces(h, g, s, f) \/ Flips(h, g, s, f) \/ Closes(h, g, s, f)
  BY FillMoves
<1> QED BY <1>2, <1>3, <1>4, <1>5

(* The cost of a book is that of one symbol and of the rest.               *)
LEMMA CostParts ==
  ASSUME NEW h, Book(h), IsFiniteSet(DOMAIN h), NEW s
  PROVE  /\ Cost(h) = Paid(h, s) + SumOf([x \in DOMAIN h \ {s} |-> CostOf(h, x)])
         /\ SumOf([x \in DOMAIN h \ {s} |-> CostOf(h, x)]) \in Int
         /\ Paid(h, s) \in Int
         /\ \A x \in DOMAIN h : CostOf(h, x) \in Int /\ Held(h, x) \in Int
<1> DEFINE c == [x \in DOMAIN h |-> CostOf(h, x)]
<1>1. \A x \in DOMAIN h : CostOf(h, x) \in Int /\ Held(h, x) \in Int
  <2> TAKE x \in DOMAIN h
  <2>1. Sign(h[x].direction) \in Int /\ h[x].size \in Int /\ h[x].entry \in Int
    BY SignIs DEF Book, Position
  <2>2. Held(h, x) \in Int
    BY <2>1, Product DEF Held
  <2> QED BY <2>1, <2>2, Product DEF CostOf
<1>2. c \in [DOMAIN h -> Int]
  BY <1>1
<1>3. CASE s \in DOMAIN h
  <2>1. /\ SumOf(c) = c[s] + SumOf([x \in DOMAIN h \ {s} |-> c[x]])
        /\ SumOf([x \in DOMAIN h \ {s} |-> c[x]]) \in Int
    <3> HIDE DEF c
    <3> QED BY <1>2, <1>3, SumSplit
  <2>2. [x \in DOMAIN h \ {s} |-> c[x]] = [x \in DOMAIN h \ {s} |-> CostOf(h, x)]
    OBVIOUS
  <2>3. c[s] = Paid(h, s) /\ c[s] \in Int /\ Cost(h) = SumOf(c)
    BY <1>2, <1>3 DEF Paid, Cost
  <2> HIDE DEF c
  <2> QED BY <1>1, <2>1, <2>2, <2>3
<1>4. CASE s \notin DOMAIN h
  <2>1. Paid(h, s) = 0 /\ DOMAIN h \ {s} = DOMAIN h /\ Cost(h) = SumOf(c)
    BY <1>4 DEF Paid, Cost
  <2>2. SumOf(c) \in Int
    <3> HIDE DEF c
    <3> QED BY <1>2, SumInt
  <2> QED BY <1>1, <2>1, <2>2
<1> QED BY <1>3, <1>4

LEMMA CostAfter ==
  ASSUME NEW h, NEW f \in Fill, Book(h), IsFiniteSet(DOMAIN h), AddsExactly(h, f),
         \A id \in DOMAIN orders : orders[id] \in Levels
  PROVE  /\ IsFiniteSet(DOMAIN HoldingsAfter(h, f))
         /\ Cost(h) \in Int /\ Pnl(h, f) \in Int
         /\ (Sign(f.direction) * f.size) * f.price \in Int
         /\ Cost(HoldingsAfter(h, f))
            = Cost(h) + Pnl(h, f) + (Sign(f.direction) * f.size) * f.price
<1> DEFINE g == HoldingsAfter(h, f)
           s == f.symbol
           rest(b) == SumOf([x \in DOMAIN b \ {s} |-> CostOf(b, x)])
           value == (Sign(f.direction) * f.size) * f.price
<1>1. Book(g) /\ DOMAIN g \ {s} = DOMAIN h \ {s} /\ \A x \in DOMAIN h \ {s} : g[x] = h[x]
  BY HoldingsAfterIs
<1>2. IsFiniteSet(DOMAIN g)
  <2> HIDE DEF g, s
  <2>1. IsFiniteSet((DOMAIN h \ {s}) \cup {s})
    BY FS_RemoveElement, FS_AddElement
  <2>2. DOMAIN g \subseteq (DOMAIN h \ {s}) \cup {s}
    BY <1>1
  <2> QED BY <2>1, <2>2, FS_Subset
<1>3. rest(g) = rest(h)
  <2>1. \A x \in DOMAIN g \ {s} : CostOf(g, x) = CostOf(h, x)
    BY <1>1 DEF CostOf, Held
  <2>2. [x \in DOMAIN g \ {s} |-> CostOf(g, x)] = [x \in DOMAIN h \ {s} |-> CostOf(h, x)]
    <3> HIDE DEF g, s
    <3> QED BY <1>1, <2>1
  <2> QED BY <2>2
<1>4. /\ Cost(g) = Paid(g, s) + rest(g) /\ Cost(h) = Paid(h, s) + rest(h)
      /\ rest(h) \in Int /\ Paid(g, s) \in Int /\ Paid(h, s) \in Int
  BY <1>1, <1>2, CostParts
<1>5. Paid(g, s) - Paid(h, s) = Pnl(h, f) + value
  BY PaidAfter
<1>6. Pnl(h, f) \in Int
  BY RealizedIs DEF Pnl, Opposes, Book
<1>7. value \in Int
  BY FillTypes, SignIs, Product
<1> HIDE DEF g, s, rest, value
<1>8. Cost(h) \in Int /\ Cost(g) = Cost(h) + Pnl(h, f) + value
  BY <1>3, <1>4, <1>5, <1>6, <1>7
<1> QED BY <1>2, <1>6, <1>7, <1>8 DEF g, value

(* What the fills amount to, after one more. *)
LEMMA SumsAfter ==
  ASSUME NEW n \in Nat, log \in Seq(Fill), n < Len(log), NEW f, f = log[n + 1],
         starts = 1, seen = 1..n, seen' = 1..(n + 1), log' = log
  PROVE  /\ Charged' = Charged + f.fee /\ Charged \in Int
         /\ Invested' = Invested + (Sign(f.direction) * f.size) * f.price /\ Invested \in Int
         /\ \A s : /\ Exposure(s, seen)'
                     = Exposure(s, seen) + IF f.symbol = s THEN Sign(f.direction) * f.size ELSE 0
                  /\ Exposure(s, seen) \in Int
<1> DEFINE S == 1..(n + 1)
           fee == [i \in S |-> log[i].fee]
           cost == [i \in S |-> Sign(log[i].direction) * log[i].size * log[i].price]
           size(s) == [i \in S |-> IF log[i].symbol = s THEN Sign(log[i].direction) * log[i].size ELSE 0]
<1>1. \A i \in S : /\ log[i].fee \in Int /\ log[i].size \in Int /\ log[i].price \in Int
                   /\ Sign(log[i].direction) \in Int
  <2> TAKE i \in S
  <2>1. log[i] \in Fill
    OBVIOUS
  <2> QED BY <2>1, FillTypes, SignIs
<1>2. \A i \in S : /\ Sign(log[i].direction) * log[i].size \in Int
                   /\ Sign(log[i].direction) * log[i].size * log[i].price \in Int
  BY <1>1, Product
<1>3. /\ fee \in [S -> Int] /\ cost \in [S -> Int] /\ \A s : size(s) \in [S -> Int]
  BY <1>1, <1>2
<1>4. n + 1 \in S /\ \A i \in 1..n : i \in S
  OBVIOUS
<1>5. /\ [i \in 1..n |-> fee[i]] = [i \in 1..n |-> log[i].fee]
      /\ [i \in 1..n |-> cost[i]]
         = [i \in 1..n |-> Sign(log[i].direction) * log[i].size * log[i].price]
      /\ \A s : [i \in 1..n |-> size(s)[i]]
               = [i \in 1..n |-> IF log[i].symbol = s THEN Sign(log[i].direction) * log[i].size ELSE 0]
  BY <1>4
<1>6. /\ Charged' = SumOf(fee) /\ Charged = SumOf([i \in 1..n |-> fee[i]])
      /\ Invested' = SumOf(cost) /\ Invested = SumOf([i \in 1..n |-> cost[i]])
      /\ \A s : /\ Exposure(s, seen)' = SumOf(size(s))
               /\ Exposure(s, seen) = SumOf([i \in 1..n |-> size(s)[i]])
  BY <1>5 DEF Charged, Invested, Exposure
<1>7. /\ fee[n + 1] = f.fee /\ cost[n + 1] = (Sign(f.direction) * f.size) * f.price
      /\ \A s : size(s)[n + 1] = IF f.symbol = s THEN Sign(f.direction) * f.size ELSE 0
  BY <1>4
<1>8. /\ fee[n + 1] \in Int /\ cost[n + 1] \in Int /\ \A s : size(s)[n + 1] \in Int
  BY <1>3, <1>4
<1> HIDE DEF fee, cost, size
<1>9. /\ SumOf(fee) = fee[n + 1] + SumOf([i \in 1..n |-> fee[i]])
      /\ SumOf([i \in 1..n |-> fee[i]]) \in Int
  BY <1>3, SumNext
<1>10. /\ SumOf(cost) = cost[n + 1] + SumOf([i \in 1..n |-> cost[i]])
       /\ SumOf([i \in 1..n |-> cost[i]]) \in Int
  BY <1>3, SumNext
<1>11. ASSUME NEW s
       PROVE  /\ SumOf(size(s)) = size(s)[n + 1] + SumOf([i \in 1..n |-> size(s)[i]])
              /\ SumOf([i \in 1..n |-> size(s)[i]]) \in Int
  BY <1>3, SumNext
<1>12. Charged' = Charged + f.fee /\ Charged \in Int
  BY <1>6, <1>7, <1>8, <1>9
<1>13. Invested' = Invested + (Sign(f.direction) * f.size) * f.price /\ Invested \in Int
  BY <1>6, <1>7, <1>8, <1>10
<1>14. ASSUME NEW s
       PROVE  /\ Exposure(s, seen)'
                 = Exposure(s, seen) + IF f.symbol = s THEN Sign(f.direction) * f.size ELSE 0
              /\ Exposure(s, seen) \in Int
  <2>1. size(s)[n + 1] = IF f.symbol = s THEN Sign(f.direction) * f.size ELSE 0
    BY <1>7
  <2>2. /\ Exposure(s, seen)' = SumOf(size(s))
        /\ Exposure(s, seen) = SumOf([i \in 1..n |-> size(s)[i]])
        /\ size(s)[n + 1] \in Int
    BY <1>6, <1>8
  <2>3. /\ Exposure(s, seen)' = Exposure(s, seen) + size(s)[n + 1]
        /\ Exposure(s, seen) \in Int
    BY <1>11, <2>2
  <2> QED BY <2>1, <2>3
<1> QED BY <1>12, <1>13, <1>14

LEMMA SumsStand ==
  ASSUME seen' = seen, \A i \in seen : log'[i] = log[i]
  PROVE  /\ Charged' = Charged /\ Invested' = Invested
         /\ \A s : Exposure(s, seen)' = Exposure(s, seen)
<1>1. [i \in seen |-> log'[i].fee] = [i \in seen |-> log[i].fee]
  OBVIOUS
<1>2. [i \in seen |-> Sign(log'[i].direction) * log'[i].size * log'[i].price]
      = [i \in seen |-> Sign(log[i].direction) * log[i].size * log[i].price]
  OBVIOUS
<1>3. \A s : [i \in seen |-> IF log'[i].symbol = s THEN Sign(log'[i].direction) * log'[i].size ELSE 0]
            = [i \in seen |-> IF log[i].symbol = s THEN Sign(log[i].direction) * log[i].size ELSE 0]
  OBVIOUS
<1> QED BY <1>1, <1>2, <1>3 DEF Charged, Invested, Exposure

LEMMA CountedInit == Init => Counted
<1> SUFFICES ASSUME Init PROVE Counted
  OBVIOUS
<1>1. /\ holdings = << >> /\ table = << >> /\ log = << >> /\ position = 0 /\ committed = 0 /\ seen = {}
  BY DEF Init
<1>2. DOMAIN << >> = {} /\ Len(<< >>) = 0 /\ 1..0 = {}
  OBVIOUS
<1> QED BY <1>1, <1>2, FS_EmptySet DEF Counted

LEMMA CountedNext == Inv /\ Counted /\ [Next]_vars => Counted'
<1> SUFFICES ASSUME Inv, Counted, [Next]_vars PROVE Counted'
  OBVIOUS
<1> USE DEF memory, tables, bus, life, history
<1>1. /\ IsFiniteSet(DOMAIN holdings) /\ IsFiniteSet(DOMAIN table)
      /\ position <= Len(log) /\ committed <= Len(log) 
      /\ (starts = 1 => seen \subseteq 1..position /\ (looping => seen = 1..position))
      /\ position \in Nat /\ committed \in Nat /\ log \in Seq(Fill) /\ starts \in Nat \ {0}
  BY DEF Counted, Inv, Typed
<1>2. CASE TakeFill
  <2>1. PICK f \in Fill : f = log[position + 1]
    BY <1>1, <1>2 DEF TakeFill
  <2>2. /\ position' = position + 1 /\ position < Len(log) /\ seen' = seen \cup {position + 1}
        /\ holdings' = HoldingsAfter(holdings, f)
        /\ UNCHANGED <<log, committed, table, starts>> /\ looping /\ looping'
    BY <1>2, <2>1 DEF TakeFill, Taking, OnFill, Apply
  <2>3. DOMAIN holdings' \ {f.symbol} = DOMAIN holdings \ {f.symbol}
    BY <2>1, <2>2, HoldingsAfterIs DEF Inv, Typed
  <2>4. IsFiniteSet(DOMAIN holdings')
    <3>1. DOMAIN holdings' \subseteq DOMAIN holdings \cup {f.symbol}
      BY <2>3
    <3>2. IsFiniteSet(DOMAIN holdings)
      BY <1>1
    <3>3. IsFiniteSet(DOMAIN holdings \cup {f.symbol})
      BY <3>2, FS_AddElement
    <3> QED BY <3>1, <3>3, FS_Subset
  <2>5. starts' = 1 => seen' = 1..position'
    BY <1>1, <2>2
  <2> QED BY <1>1, <2>2, <2>4, <2>5 DEF Counted
<1>3. CASE Statement \/ StatementRefused
  <2>1. /\ Execute(todo[1]) /\ UNCHANGED <<log, position, committed, looping, seen, starts>>
        /\ holdings' \in {holdings, table}
    BY <1>3 DEF Statement, StatementRefused, Abandon, Restore
  <2>2. \/ DOMAIN table' = DOMAIN table
        \/ \E s : DOMAIN table' = DOMAIN table \cup {s}
        \/ \E s : DOMAIN table' = DOMAIN table \ {s}
    BY <2>1 DEF Execute, With, Without
  <2>3. IsFiniteSet(DOMAIN table') /\ IsFiniteSet(DOMAIN holdings')
    <3>1. \A s : IsFiniteSet(DOMAIN table \cup {s}) /\ IsFiniteSet(DOMAIN table \ {s})
      BY <1>1, FS_AddElement, FS_RemoveElement
    <3> QED BY <1>1, <2>1, <2>2, <3>1
  <2> QED BY <1>1, <2>1, <2>3 DEF Counted
<1>4. CASE TakeBook
  <2>1. /\ DOMAIN holdings' = DOMAIN holdings
        /\ UNCHANGED <<table, log, position, committed, looping, seen, starts>>
    BY <1>4 DEF TakeBook, OnBook
  <2> QED BY <1>1, <2>1 DEF Counted
<1>5. CASE Start
  <2>1. starts' # 1 /\ holdings' = << >> /\ position' = committed /\ UNCHANGED <<table, log, committed>>
    BY <1>1, <1>5 DEF Start
  <2>2. DOMAIN holdings' = {}
    BY <2>1
  <2> QED BY <1>1, <2>1, <2>2, FS_EmptySet DEF Counted
<1>6. CASE NewFill
  <2>1. PICK f \in Fill : log' = Append(log, f)
    BY <1>6 DEF NewFill
  <2>2. Len(log') = Len(log) + 1
    BY <1>1, <2>1
  <2>3. UNCHANGED <<holdings, table, position, committed, looping, seen, starts>>
    BY <1>6 DEF NewFill
  <2> QED BY <1>1, <2>2, <2>3 DEF Counted
<1>7. CASE LeaveLoop
  <2>1. /\ UNCHANGED <<holdings, table, log, committed, seen, starts>> /\ looping' = FALSE
        /\ position' \in position .. Smaller(position + 1, Len(log))
    BY <1>7 DEF LeaveLoop
  <2>2. position <= position' /\ position' <= Len(log) /\ position' \in Nat
    BY <1>1, <2>1 DEF Smaller
  <2>3. 1..position \subseteq 1..position'
    BY <1>1, <2>2
  <2> QED BY <1>1, <2>1, <2>2, <2>3 DEF Counted
<1>8. CASE \/ TakeOrder \/ StatementFails \/ Publish \/ AutoCommit \/ Midnight \/ Crash
           \/ AskStop \/ StopSaves \/ StopSaveFails \/ Exit \/ UNCHANGED vars
  <2>1. /\ UNCHANGED <<holdings, table, log, position, looping, seen, starts>>
        /\ committed' = committed \/ committed' = position
    BY <1>8 DEF TakeOrder, OnOrder, StatementFails, Abandon, Publish, AutoCommit, Midnight, Crash,
                AskStop, StopSaves, StopSaveFails, Exit, vars
  <2> QED BY <1>1, <2>1 DEF Counted
<1> QED BY <1>2, <1>3, <1>4, <1>5, <1>6, <1>7, <1>8 DEF Next

LEMMA CountedAlways == Spec => []Counted
  BY CountedInit, CountedNext, Invariance, PTL DEF Spec

(* What a step other than a fill does: while no process has restarted, the *)
(* fills seen stay, and so do the positions, but for their marks, and the  *)
(* cash.                                                                   *)
LEMMA OthersStand ==
  ASSUME Inv, Counted, [Next]_vars, ~TakeFill, starts' = 1
  PROVE  /\ starts = 1 /\ seen' = seen /\ \A i \in seen : log'[i] = log[i]
         /\ account'.cash = account.cash
         /\ DOMAIN holdings' = DOMAIN holdings
         /\ \A s : Held(holdings', s) = Held(holdings, s)
         /\ \A s \in DOMAIN holdings : holdings'[s].entry = holdings[s].entry
<1> USE DEF memory, tables, bus, life, history
<1>1. ~Start
  BY DEF Start, Inv, Typed
<1>2. starts = 1 /\ seen' = seen
  BY <1>1 DEF Next, NewFill, TakeOrder, TakeBook, Statement, StatementFails, StatementRefused, Publish,
              AutoCommit, Midnight, Crash, AskStop, StopSaves, StopSaveFails, LeaveLoop, Exit, vars
<1>3. \A i \in seen : log'[i] = log[i]
  <2>1. CASE NewFill
    <3>1. PICK f \in Fill : log' = Append(log, f)
      BY <2>1 DEF NewFill
    <3>2. log \in Seq(Fill) /\ seen \subseteq 1..position /\ position <= Len(log) /\ position \in Nat
      BY <1>2 DEF Inv, Typed, Counted
    <3> QED BY <3>1, <3>2
  <2>2. CASE ~NewFill
    BY <1>1, <2>2 DEF Next, TakeOrder, TakeBook, Statement, StatementFails, StatementRefused, Publish,
                      AutoCommit, Midnight, Crash, AskStop, StopSaves, StopSaveFails, LeaveLoop,
                      Exit, vars
  <2> QED BY <2>1, <2>2
<1>4. CASE TakeBook
  <2>1. PICK s \in Symbols, price \in Prices : OnBook(s, price)
    BY <1>4 DEF TakeBook
  <2>2. /\ holdings' = [holdings EXCEPT ![s].mark = price]
        /\ \/ account' = account
           \/ account' = RollDay(account, holdings')
    BY <2>1 DEF OnBook
  <2>3. account'.cash = account.cash
    BY <2>2 DEF RollDay, Inv, Typed, Sound, Fields
  <2>4. \A x \in DOMAIN holdings :
          /\ holdings'[x].entry = holdings[x].entry /\ holdings'[x].size = holdings[x].size
          /\ holdings'[x].direction = holdings[x].direction
    BY <2>2 DEF Inv, Typed, Book, Position
  <2>5. DOMAIN holdings' = DOMAIN holdings
    BY <2>2
  <2> QED BY <1>2, <1>3, <2>3, <2>4, <2>5 DEF Held
<1>5. CASE Statement
  <2>1. ~Loading
    BY <1>2, LoadingIs DEF Inv
  <2>2. holdings' = holdings /\ account'.cash = account.cash
    BY <1>5, <2>1 DEF Statement, RollDay, Inv, Typed, Sound, Fields
  <2> QED BY <1>2, <1>3, <2>2
<1>6. CASE ~TakeBook /\ ~Statement
  <2>1. account' = account /\ holdings' = holdings
    BY <1>1, <1>6 DEF Next, NewFill, TakeOrder, OnOrder, StatementFails, StatementRefused, Publish,
                      AutoCommit, Midnight, Crash, AskStop, StopSaves, StopSaveFails, LeaveLoop,
                      Exit, vars
  <2> QED BY <1>2, <1>3, <2>1
<1> QED BY <1>4, <1>5, <1>6

(* Positions net per symbol: through opens, adds, reductions, closes and   *)
(* flips a position is the sum of the fills applied, until a restart.      *)
THEOREM PositionsNet == Spec => []NetsPerSymbol
<1>1. Init => NetsPerSymbol
  <2> SUFFICES ASSUME Init, NEW s \in Symbols PROVE Held(holdings, s) = Exposure(s, seen)
    BY DEF NetsPerSymbol
  <2>1. holdings = << >> /\ seen = {}
    BY DEF Init
  <2>2. Held(holdings, s) = 0
    BY <2>1 DEF Held
  <2> DEFINE e == [i \in {} |-> IF log[i].symbol = s THEN Sign(log[i].direction) * log[i].size ELSE 0]
  <2>3. SumOf(e) = 0
    <3>1. DOMAIN e = {} /\ e = [x \in {} |-> e[x]]
      OBVIOUS
    <3> HIDE DEF e
    <3> QED BY <3>1, SumNone
  <2> QED BY <2>1, <2>2, <2>3 DEF Exposure
<1>2. Inv /\ Counted /\ NetsPerSymbol /\ [Next]_vars => NetsPerSymbol'
  <2> SUFFICES ASSUME Inv, Counted, NetsPerSymbol, [Next]_vars, starts' = 1, NEW s \in Symbols
               PROVE  Held(holdings', s) = Exposure(s, seen)'
    BY DEF NetsPerSymbol
  <2>1. CASE TakeFill
    <3>1. PICK f \in Fill : f = log[position + 1]
      BY <2>1 DEF TakeFill, Inv, Typed
    <3>2. /\ position \in Nat /\ position < Len(log) /\ log \in Seq(Fill) /\ Book(holdings)
          /\ \A id \in DOMAIN orders : orders[id] \in Levels
      BY <2>1 DEF TakeFill, Inv, Typed
    <3>3. /\ holdings' = HoldingsAfter(holdings, f) /\ log' = log /\ starts' = starts
          /\ seen' = seen \cup {position + 1} /\ seen = 1..position
      BY <2>1, <3>1 DEF TakeFill, Taking, OnFill, Apply, Counted
    <3>4. seen' = 1..(position + 1)
      BY <3>2, <3>3
    <3>5. starts = 1 /\ seen = 1..position /\ log' = log
      BY <3>3
    <3>6. Exposure(s, seen)' = Exposure(s, seen) + IF f.symbol = s THEN Sign(f.direction) * f.size ELSE 0
      <4>1. \A x : Exposure(x, seen)' = Exposure(x, seen) + IF f.symbol = x THEN Sign(f.direction) * f.size ELSE 0
        BY <3>1, <3>2, <3>4, <3>5, SumsAfter
      <4> QED BY <4>1
    <3>7. Held(holdings', s) = Held(holdings, s) + IF s = f.symbol THEN Sign(f.direction) * f.size ELSE 0
      BY <3>2, <3>3, HeldAfter
    <3>8. Held(holdings, s) = Exposure(s, seen)
      BY <3>3 DEF NetsPerSymbol
    <3> QED BY <3>6, <3>7, <3>8
  <2>2. CASE ~TakeFill
    BY <2>2, OthersStand, SumsStand DEF NetsPerSymbol
  <2> QED BY <2>1, <2>2
<1> QED BY <1>1, <1>2, Invariance, CountedAlways, PTL DEF Spec

(* No average entry so far was rounded. *)
AveragesAreExact == position < Len(log) => AddsExactly(holdings, log[position + 1])

LEMMA BalanceInit == Init => BooksBalance
<1> SUFFICES ASSUME Init PROVE account.cash - Cost(holdings) = StartingEquity - Charged - Invested
  BY DEF BooksBalance
<1>1. holdings = << >> /\ seen = {} /\ account.cash = StartingEquity
  BY DEF Init, Fresh
<1>2. DOMAIN holdings = {}
  BY <1>1
<1>3. ASSUME NEW e, DOMAIN e = {}, e = [x \in {} |-> e[x]] PROVE SumOf(e) = 0
  BY <1>3, SumNone
<1>4. Cost(holdings) = 0
  <2> DEFINE e == [x \in {} |-> CostOf(holdings, x)]
  <2>1. DOMAIN e = {} /\ e = [x \in {} |-> e[x]]
    OBVIOUS
  <2>2. SumOf(e) = 0
    <3> HIDE DEF e
    <3> QED BY <1>3, <2>1
  <2> QED BY <1>2, <2>2 DEF Cost
<1>5. Charged = 0
  <2> DEFINE e == [i \in {} |-> log[i].fee]
  <2>1. DOMAIN e = {} /\ e = [x \in {} |-> e[x]]
    OBVIOUS
  <2>2. SumOf(e) = 0
    <3> HIDE DEF e
    <3> QED BY <1>3, <2>1
  <2> QED BY <1>1, <2>2 DEF Charged
<1>6. Invested = 0
  <2> DEFINE e == [i \in {} |-> Sign(log[i].direction) * log[i].size * log[i].price]
  <2>1. DOMAIN e = {} /\ e = [x \in {} |-> e[x]]
    OBVIOUS
  <2>2. SumOf(e) = 0
    <3> HIDE DEF e
    <3> QED BY <1>3, <2>1
  <2> QED BY <1>1, <2>2 DEF Invested
<1> QED BY <1>1, <1>4, <1>5, <1>6, PortfolioAssumption

LEMMA BalanceNext ==
  Inv /\ Counted /\ AveragesAreExact /\ BooksBalance /\ [Next]_vars => BooksBalance'
<1> SUFFICES ASSUME Inv, Counted, AveragesAreExact, BooksBalance, [Next]_vars, starts' = 1
             PROVE  account'.cash - Cost(holdings') = StartingEquity - Charged' - Invested'
  BY DEF BooksBalance, Cost
<1>1. CASE TakeFill
  <2>1. PICK f \in Fill : f = log[position + 1]
    BY <1>1 DEF TakeFill, Inv, Typed
  <2>2. /\ position \in Nat /\ position < Len(log) /\ log \in Seq(Fill) /\ Book(holdings)
        /\ \A id \in DOMAIN orders : orders[id] \in Levels
        /\ Sound(account) /\ IsFiniteSet(DOMAIN holdings) /\ AddsExactly(holdings, f)
    BY <1>1, <2>1 DEF TakeFill, Inv, Typed, Counted, AveragesAreExact
  <2>3. /\ holdings' = HoldingsAfter(holdings, f) /\ account' = AccountAfter(account, holdings, f)
        /\ log' = log /\ starts' = starts
        /\ seen' = seen \cup {position + 1} /\ seen = 1..position
    BY <1>1, <2>1 DEF TakeFill, Taking, OnFill, Apply, Counted
  <2>4. seen' = 1..(position + 1)
    BY <2>2, <2>3
  <2> DEFINE value == (Sign(f.direction) * f.size) * f.price
  <2>5. /\ Charged' = Charged + f.fee /\ Charged \in Int
        /\ Invested' = Invested + value /\ Invested \in Int
    BY <2>1, <2>2, <2>3, <2>4, SumsAfter
  <2>6. /\ Cost(holdings) \in Int /\ Pnl(holdings, f) \in Int /\ value \in Int
        /\ Cost(holdings') = Cost(holdings) + Pnl(holdings, f) + value
    BY <2>2, <2>3, CostAfter
  <2>7. account'.cash = account.cash - f.fee + Pnl(holdings, f)
    <3> DEFINE pnl == Pnl(holdings, f)
               r == RollDay(account, holdings)
    <3>1. account' = [r EXCEPT !.cash = @ - f.fee + pnl, !.fees = @ + f.fee,
                        !.realized = @ + pnl, !.trades = @ + 1,
                        !.wins = IF pnl > 0 THEN @ + 1 ELSE @,
                        !.losses = IF pnl < 0 THEN @ + 1 ELSE @]
      BY <2>3 DEF AccountAfter, Pnl
    <3>2. DOMAIN r = Fields /\ r.cash = account.cash
      BY <2>2 DEF RollDay, Sound, Fields
    <3> HIDE DEF pnl, r
    <3>3. account'.cash = r.cash - f.fee + pnl
      BY <3>1, <3>2 DEF Fields
    <3> QED BY <3>2, <3>3 DEF pnl
  <2>8. account.cash - Cost(holdings) = StartingEquity - Charged - Invested
    BY <2>3 DEF BooksBalance
  <2>9. account.cash \in Int /\ f.fee \in Int /\ StartingEquity \in Int
    BY <2>2, FillTypes, PortfolioAssumption DEF Sound
  <2> HIDE DEF value
  <2> QED BY <2>5, <2>6, <2>7, <2>8, <2>9
<1>2. CASE ~TakeFill
  <2>1. /\ starts = 1 /\ account'.cash = account.cash /\ DOMAIN holdings' = DOMAIN holdings
        /\ \A s \in DOMAIN holdings : CostOf(holdings', s) = CostOf(holdings, s)
    BY <1>2, OthersStand DEF CostOf
  <2>2. Charged' = Charged /\ Invested' = Invested
    BY <1>2, OthersStand, SumsStand
  <2>3. [s \in DOMAIN holdings' |-> CostOf(holdings', s)] = [s \in DOMAIN holdings |-> CostOf(holdings, s)]
    BY <2>1
  <2> QED BY <2>1, <2>2, <2>3 DEF BooksBalance, Cost
<1> QED BY <1>1, <1>2

(* The equity of the tracker is its cash, less what the positions cost,    *)
(* plus what they are worth.                                               *)
LEMMA EquityParts ==
  ASSUME Book(holdings), IsFiniteSet(DOMAIN holdings), Sound(account)
  PROVE  /\ Equity(account, holdings) = account.cash - Cost(holdings) + Worth
         /\ Cost(holdings) \in Int /\ Worth \in Int
<1> DEFINE S == DOMAIN holdings
           w == [s \in S |-> Held(holdings, s) * holdings[s].mark]
           c == [s \in S |-> CostOf(holdings, s)]
           u == [s \in S |-> Unrealized(holdings, s)]
<1>1. \A s \in S : /\ Held(holdings, s) \in Int /\ holdings[s].mark \in Int
                   /\ holdings[s].entry \in Int /\ holdings[s].size \in Int
                   /\ Sign(holdings[s].direction) \in Int
                   /\ Held(holdings, s) = Sign(holdings[s].direction) * holdings[s].size
  BY CostParts, SignIs DEF Book, Position, Held
<1>2. w \in [S -> Int] /\ c \in [S -> Int]
  BY <1>1, Product DEF CostOf
<1>3. \A m, e, n, k \in Int : ((m - e) * n) * k = 1 * ((k * n) * m) + (-1) * ((k * n) * e)
  OBVIOUS
<1>4. \A s \in S : u[s] = 1 * w[s] + (-1) * c[s]
  BY <1>1, <1>3 DEF Unrealized, CostOf
<1>5. u = [s \in S |-> 1 * w[s] + (-1) * c[s]]
  BY <1>4
<1>6. SumOf(u) = 1 * SumOf(w) + (-1) * SumOf(c) /\ SumOf(w) \in Int /\ SumOf(c) \in Int
  <2> HIDE DEF w, c, u, S
  <2>1. IsFiniteSet(S)
    BY DEF S
  <2> QED BY <1>2, <1>5, <2>1, SumLinear, SumInt
<1>7. account.cash \in Int
  BY DEF Sound
<1>8. Equity(account, holdings) = account.cash + SumOf(u) /\ Worth = SumOf(w) /\ Cost(holdings) = SumOf(c)
  BY DEF Equity, Worth, Cost
<1> HIDE DEF w, c, u, S
<1> QED BY <1>6, <1>7, <1>8

(* The accounting model: as long as no average entry is rounded, equity is *)
(* what the fills cost and the positions are worth at their marks, whatever*)
(* the order of opens, adds, reductions, closes, flips, marks and rolls.   *)
THEOREM EquityIsWhatFillsMake == Spec /\ []AveragesAreExact => []EquityIsMarkToMarket
<1>1. Inv /\ Counted /\ BooksBalance => EquityIsMarkToMarket
  <2> SUFFICES ASSUME Inv, Counted, BooksBalance, starts = 1
               PROVE  Equity(account, holdings) = StartingEquity - Charged - Invested + Worth
    BY DEF EquityIsMarkToMarket
  <2>1. /\ Equity(account, holdings) = account.cash - Cost(holdings) + Worth
        /\ account.cash - Cost(holdings) = StartingEquity - Charged - Invested
    BY EquityParts DEF Inv, Typed, Counted, BooksBalance
  <2> QED BY <2>1
<1> QED BY <1>1, BalanceInit, BalanceNext, Invariance, CountedAlways, PTL DEF Spec
=============================================================================
