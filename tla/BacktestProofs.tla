----------------------------- MODULE BacktestProofs -----------------------------
(***************************************************************************)
(* Proofs about the backtests, for any codes, bars, payloads and signals:  *)
(* types, no look-ahead, no position past the limit, no overdraft, every   *)
(* sale that was decided is made, and the equity curve is explained.       *)
(*                                                                         *)
(* None of these is inductive.  Inv says what is true at each place of     *)
(* the loop body: which bar an order is for (Dated), that orders of the    *)
(* day exist only while they are filled (Places), and that a code has one  *)
(* order for a day (Orders).  Decided adds where a decided sale is until   *)
(* it is made, Accounted what cash and entry costs sum up to between two   *)
(* equity points.                                                          *)
(***************************************************************************)
EXTENDS Backtest, ChargesProofs

-----------------------------------------------------------------------------
(* The first of a set of dates, codes or orders *)

LEMMA MinOf ==
  ASSUME NEW S, S \subseteq Nat, S # {}
  PROVE  Min(S) \in S /\ \A y \in S : Min(S) <= y
  <1>1. \E x \in S : \A y \in S : x =< y
    BY LeastNatural
  <1>2. QED
    BY <1>1 DEF Min

LEMMA FirstOf ==
  ASSUME NEW S, S # {}, \A o \in S : o.code \in Codes
  PROVE  First(S) \in S
  <1> DEFINE C == {o.code : o \in S}
  <1>1. C \subseteq Nat /\ C # {}
    BY BacktestAssumption
  <1>2. PICK c \in C : \A d \in C : c <= d
    <2> HIDE DEF C
    <2> QED
      BY <1>1, LeastNatural
  <1>3. \E o \in S : \A p \in S : o.code =< p.code
    BY <1>2
  <1>4. QED
    BY <1>3 DEF First

LEMMA DatesAreNumbers == Dates \subseteq Nat \ {0} /\ LastDate \in Nat /\ StartDate \in Nat \ {0}
  BY BacktestAssumption DEF Dates

(* The next bar of a code: after the date, and before every other one.     *)
LEMMA NextBar ==
  ASSUME NEW c, NEW d \in Dates, LaterBars(c, d) # {}
  PROVE  /\ Min(LaterBars(c, d)) \in Dates
         /\ d < Min(LaterBars(c, d))
         /\ HasBar(c, Min(LaterBars(c, d)))
         /\ \A e \in LaterBars(c, d) : Min(LaterBars(c, d)) <= e
  <1>1. LaterBars(c, d) \subseteq Nat
    BY DatesAreNumbers DEF LaterBars
  <1>2. Min(LaterBars(c, d)) \in LaterBars(c, d) /\ \A e \in LaterBars(c, d) : Min(LaterBars(c, d)) <= e
    BY <1>1, MinOf
  <1>3. QED
    BY <1>2 DEF LaterBars

LEMMA OneIsACode == One \in Codes /\ Codes \subseteq Nat
  <1>1. Codes # {}
    BY BacktestAssumption, FS_EmptySet
  <1>2. QED
    BY <1>1, MinOf, BacktestAssumption DEF One

(* The bars of a market have prices.                                       *)
LEMMA BarPrices ==
  ASSUME market \in Markets, NEW c \in Codes, NEW d \in Dates, HasBar(c, d)
  PROVE  /\ Bar(c, d).open \in Nat /\ Bar(c, d).close \in Nat
         /\ OpenOr(Bar(c, d)) \in Nat
  <1>1. market[c][d].open \in Nat /\ market[c][d].close \in Nat
    BY BacktestAssumption DEF HasBar, Bar
  <1>2. QED
    BY <1>1 DEF OpenOr, Bar

LEMMA ClosesType ==
  ASSUME market \in Markets, closes \in [Codes -> Nat], NEW d \in Dates
  PROVE  ClosesOn(d) \in [Codes -> Nat]
  BY BarPrices DEF ClosesOn

-----------------------------------------------------------------------------
(* The invariant *)

\* The order or trade o is for its bar.
Dated(o) ==
  /\ HasBar(o.code, o.date)
  /\ timing = "same_close" => o.price = Bar(o.code, o.date).close /\ o.decided = o.date
  /\ timing = "next_open" => /\ o.price = OpenOr(Bar(o.code, o.date))
                             /\ o.date = Min(LaterBars(o.code, o.decided))

Places ==
  /\ IF single
     THEN /\ phase \in {"bar", "mark", "end"}
          /\ queued = {} /\ told = {} /\ HasBar(One, date)
          /\ \A c \in Codes \ {One} : ~ Held(c)
     ELSE phase # "bar"
  /\ StartDate <= date
  /\ phase \notin {"sell", "buy"} => today = {}
  /\ timing = "same_close" => queued = {} /\ phase # "evaluate"

Orders ==
  /\ \A o \in queued \cup today : Dated(o)
  /\ \A o \in today : o.date = date
  /\ \A o \in queued : o.decided < date \/ (o.decided = date /\ phase \in {"mark", "end"})
  /\ \A o, p \in queued : o.code = p.code /\ o.date = p.date => o = p

Traded == \A t \in trades : Dated(t) /\ t.code \in Codes

Inv == TypeOK /\ Places /\ Orders /\ Traded

(* The bars and the payload do not change, nor what is said of them.       *)
LEMMA Fixed ==
  ASSUME UNCHANGED payload
  PROVE  /\ single' = single /\ timing' = timing /\ sizing' = sizing /\ limit' = limit /\ market' = market
         /\ \A c, d : Bar(c, d)' = Bar(c, d) /\ HasBar(c, d)' = HasBar(c, d) /\ LaterBars(c, d)' = LaterBars(c, d)
         /\ \A o : Dated(o)' = Dated(o)
  BY DEF payload, Bar, HasBar, LaterBars, Dated

(* The first date of a simulation is one of its dates.                     *)
LEMMA FirstDate ==
  ASSUME Init
  PROVE  date \in Dates /\ StartDate <= date /\ (single => HasBar(One, date))
  <1>1. CASE single
    <2> DEFINE B == {d \in Dates : market[One][d] # NoBar}
    <2>1. /\ Cardinality(B) >= MinHistory
          /\ \E d \in StartDate .. LastDate : market[One][d] # NoBar
      BY <1>1 DEF Init
    <2>2. B \in SUBSET (0 .. LastDate)
      BY DatesAreNumbers DEF Dates
    <2>3. PICK d \in B : StartDate <= d
      BY <2>1, DatesAreNumbers DEF Dates
    <2>4. PICK m \in B : \A k \in B : k <= m
      <3> HIDE DEF B
      <3> QED
        BY <2>2, <2>3, LargestNatural, DatesAreNumbers
    <2>5. {e \in 1 .. m : HasBar(One, e)} = B
      BY <2>4, DatesAreNumbers DEF HasBar, Bar, Dates
    <2>6. m \in OneSimulated
      <3>1. StartDate <= m
        BY <2>2, <2>3, <2>4, DatesAreNumbers
      <3>2. HasBar(One, m)
        BY <2>4 DEF HasBar, Bar
      <3>3. QED
        BY <2>1, <2>4, <2>5, <3>1, <3>2 DEF OneSimulated
    <2>7. OneSimulated \subseteq Nat
      BY DatesAreNumbers DEF OneSimulated
    <2>8. date \in OneSimulated
      BY <1>1, <2>6, <2>7, MinOf DEF Init
    <2>9. QED
      BY <2>8 DEF OneSimulated
  <1>2. CASE ~ single
    <2>1. \E d \in StartDate .. LastDate : market[One][d] # NoBar
      BY <1>2, OneIsACode DEF Init
    <2>2. Simulated # {} /\ Simulated \subseteq Nat
      BY <2>1, OneIsACode, DatesAreNumbers DEF Simulated, HasBar, Bar, Dates
    <2>3. date \in Simulated
      BY <1>2, <2>2, MinOf DEF Init
    <2>4. QED
      BY <1>2, <2>3 DEF Simulated
  <1>3. QED
    BY <1>1, <1>2 DEF Init

LEMMA InvInit == Init => Inv
  <1> SUFFICES ASSUME Init PROVE Inv
    OBVIOUS
  <1>1. date \in Dates /\ StartDate <= date /\ (single => HasBar(One, date))
    BY FirstDate
  <1>2. None \in [qty : Nat, cost : Nat, price : Nat, entry : 0 .. LastDate]
    BY DatesAreNumbers DEF None
  <1>3. TypeOK
    BY <1>1, <1>2, BacktestAssumption DEF Init, TypeOK
  <1>4. Places
    BY <1>1 DEF Init, Places, Held, None
  <1>5. Orders /\ Traded
    BY DEF Init, Orders, Traded
  <1>6. QED
    BY <1>3, <1>4, <1>5 DEF Inv

-----------------------------------------------------------------------------
(* The steps of the portfolio engines *)

LEMMA DecideNowOK ==
  ASSUME Inv, DecideNow
  PROVE  Inv'
  <1> DEFINE Order(c, side) == [code |-> c, side |-> side, price |-> Bar(c, date).close,
                                date |-> date, decided |-> date]
  <1>1. UNCHANGED <<payload, date, cash, realized, held, queued, trades>>
        /\ timing = "same_close" /\ phase = "open" /\ phase' = "sell"
    BY DEF DecideNow
  <1>2. PICK signal \in SignalsOf(Evaluated(date)) : today' = {Order(c, signal[c]) : c \in Evaluated(date)}
    BY DEF DecideNow
  <1>3. Evaluated(date) \subseteq Codes /\ \A c \in Evaluated(date) : HasBar(c, date) /\ signal[c] \in Signals
    BY DEF Evaluated, SignalsOf
  <1>4. market \in Markets /\ date \in Dates /\ closes \in [Codes -> Nat] /\ queued = {}
    BY <1>1 DEF Inv, TypeOK, Places
  <1>5. closes' \in [Codes -> Nat]
    BY <1>4, ClosesType DEF DecideNow
  <1>6. \A o \in today' : /\ o.code \in Codes /\ o.side \in Signals /\ o.price \in Nat
                          /\ o.date = date /\ o.decided = date /\ HasBar(o.code, date)
                          /\ o.price = Bar(o.code, date).close
    BY <1>2, <1>3, <1>4, BarPrices
  <1>7. \A o, p \in today' : o.code = p.code => o = p
    BY <1>2
  <1>8. TypeOK'
    BY <1>1, <1>4, <1>5, <1>6, <1>7 DEF Inv, TypeOK, payload
  <1>9. Places'
    <2>1. ~ single
      BY <1>1 DEF Inv, Places
    <2>2. QED
      BY <1>1, <1>4, <2>1 DEF Inv, Places, payload
  <1>10. \A o \in today' : Dated(o)
    BY <1>1, <1>6 DEF Dated
  <1>11. Orders' /\ Traded'
    BY <1>1, <1>4, <1>6, <1>10, Fixed DEF Inv, Orders, Traded
  <1>12. QED
    BY <1>8, <1>9, <1>11 DEF Inv

LEMMA TakeQueuedOK ==
  ASSUME Inv, TakeQueued
  PROVE  Inv'
  <1>1. /\ UNCHANGED <<payload, date, cash, realized, held, closes, trades>>
        /\ timing = "next_open" /\ phase = "open" /\ phase' = "sell"
        /\ today' = {o \in queued : o.date = date} /\ queued' = queued \ today'
    BY DEF TakeQueued
  <1>2. \A o, p \in today' : o.code = p.code => o = p
    BY <1>1 DEF Inv, Orders
  <1>3. TypeOK'
    BY <1>1, <1>2 DEF Inv, TypeOK, payload
  <1>4. Places'
    BY <1>1 DEF Inv, Places, payload
  <1>5. Orders'
    BY <1>1, Fixed DEF Inv, Orders
  <1>6. Traded'
    BY <1>1, Fixed DEF Inv, Traded
  <1>7. QED
    BY <1>3, <1>4, <1>5, <1>6 DEF Inv

(* A position that is sold leaves the others.                              *)
LEMMA WithoutOK ==
  ASSUME TypeOK, NEW c \in Codes, held' = Without(c)
  PROVE  /\ held' \in [Codes -> [qty : Nat, cost : Nat, price : Nat, entry : 0 .. LastDate]]
         /\ ~ Held(c)' /\ held'[c] = None
         /\ \A d \in Codes \ {c} : held'[d] = held[d]
  <1>1. None \in [qty : Nat, cost : Nat, price : Nat, entry : 0 .. LastDate]
    BY DatesAreNumbers DEF None
  <1>2. QED
    BY <1>1 DEF TypeOK, Without, Held, None

(* The sale at hand: an order of the day for a position that is held.      *)
LEMMA NextSale ==
  ASSUME Inv, SalesToday # {}
  PROVE  LET o == First(SalesToday) IN
         /\ o \in today /\ o.code \in Codes /\ Held(o.code) /\ o.price \in Nat \ {0}
         /\ held[o.code].qty \in Nat /\ held[o.code].cost \in Nat
  <1>1. \A o \in SalesToday : o \in today /\ Held(o.code) /\ o.price > 0
    BY DEF SalesToday
  <1>2. \A o \in today : o.code \in Codes /\ o.price \in Nat
    BY DEF Inv, TypeOK
  <1>3. First(SalesToday) \in SalesToday
    BY <1>1, <1>2, FirstOf
  <1>4. QED
    BY <1>1, <1>2, <1>3 DEF Inv, TypeOK

LEMMA SellOK ==
  ASSUME Inv, Sell
  PROVE  Inv'
  <1> DEFINE next == First(SalesToday)
             qty == held[next.code].qty
  <1>1. /\ UNCHANGED <<payload, date, phase, closes, queued>>
        /\ phase = "sell" /\ SalesToday # {}
        /\ cash' = cash + SellProceeds(next.price, qty)
        /\ realized' = realized + Profit(next)
        /\ held' = Without(next.code)
        /\ trades' = trades \cup {Trade(next, qty)}
        /\ today' = today \ {next}
    BY DEF Sell
  <1>2. next \in today /\ next.code \in Codes /\ next.price \in Nat /\ qty \in Nat /\ held[next.code].cost \in Nat
    BY <1>1, NextSale
  <1> HIDE DEF next
  <1>3. SellProceeds(next.price, qty) \in Int
    BY <1>2, SellProceedsType
  <1>4. cash' \in Int /\ realized' \in Int
    BY <1>1, <1>2, <1>3 DEF Inv, TypeOK, Profit
  <1>5. TypeOK'
    <2>1. held' \in [Codes -> [qty : Nat, cost : Nat, price : Nat, entry : 0 .. LastDate]]
          /\ \A c \in Codes : held'[c].qty = 0 => held'[c] = None
      BY <1>1, <1>2, WithoutOK DEF Inv, TypeOK
    <2>2. QED
      BY <1>1, <1>4, <2>1 DEF Inv, TypeOK, payload
  <1>6. Places'
    <2>1. ~ single
      BY <1>1 DEF Inv, Places
    <2>2. QED
      BY <1>1, <2>1 DEF Inv, Places, payload
  <1>7. Orders'
    BY <1>1, Fixed DEF Inv, Orders
  <1>8. Traded'
    <2>1. Dated(next) /\ next.date = date
      BY <1>2 DEF Inv, Orders
    <2>2. Dated(Trade(next, qty)) /\ Trade(next, qty).code = next.code
      BY <2>1 DEF Dated, Trade
    <2>3. QED
      BY <1>1, <1>2, <2>2, Fixed DEF Inv, Traded
  <1>9. QED
    BY <1>5, <1>6, <1>7, <1>8 DEF Inv

LEMMA EndSalesOK ==
  ASSUME Inv, EndSales
  PROVE  Inv'
  <1>1. /\ UNCHANGED <<payload, date, cash, realized, held, closes, queued, trades>>
        /\ phase = "sell" /\ phase' = "buy" /\ today' = {o \in today : o.side = "BUY"}
    BY DEF EndSales
  <1>2. TypeOK'
    BY <1>1 DEF Inv, TypeOK, payload
  <1>3. Places' /\ Traded'
    BY <1>1, Fixed DEF Inv, Places, Traded, Held
  <1>4. Orders'
    BY <1>1, Fixed DEF Inv, Orders
  <1>5. QED
    BY <1>2, <1>3, <1>4 DEF Inv

(* A purchase is of a code that was not held, and has a cost.              *)
LEMMA Purchase ==
  ASSUME Inv, NEW price \in Nat \ {0}, NEW quantity,
         quantity = ResolveBuyQuantity(cash, price, sizing)
  PROVE  quantity \in Nat /\ BuyCost(price, quantity) \in Nat
  <1>1. cash \in Int /\ sizing \in Sizings
    BY DEF Inv, TypeOK
  <1>2. quantity \in Nat
    BY <1>1, ResolveBuyQuantityType, BacktestAssumption
  <1>3. QED
    BY <1>2, BuyCostType

\* A turn of the loop over the buys that fills an order, and one that does not.
Bought(o, quantity) ==
  /\ ~ Full /\ ~ Held(o.code) /\ o.price > 0 /\ quantity > 0 /\ Fits(o.code, o.price, quantity)
  /\ cash' = cash - BuyCost(o.price, quantity)
  /\ held' = [held EXCEPT ![o.code] = [qty |-> quantity, cost |-> BuyCost(o.price, quantity),
                                       price |-> o.price, entry |-> date]]
  /\ trades' = trades \cup {Trade(o, quantity)}

LEMMA NextBuy ==
  ASSUME Inv, Buy
  PROVE  /\ UNCHANGED <<payload, date, phase, realized, closes, queued, told>>
         /\ phase = "buy" /\ today' \subseteq today
         /\ \/ UNCHANGED <<cash, held, trades>>
            \/ \E o \in today : /\ o.code \in Codes /\ o.price \in Nat \ {0}
                                /\ Bought(o, ResolveBuyQuantity(cash, o.price, sizing))
  <1> DEFINE next == First(today)
             quantity == ResolveBuyQuantity(cash, next.price, sizing)
  <1>1. phase = "buy" /\ today # {}
    BY DEF Buy
  <1>2. next \in today /\ next.code \in Codes /\ next.price \in Nat
    BY <1>1, FirstOf DEF Inv, TypeOK
  <1>3. \/ today' \subseteq today /\ UNCHANGED <<cash, held, trades>>
        \/ today' \subseteq today /\ next.price > 0 /\ Bought(next, quantity)
    BY DEF Buy, Bought
  <1>4. QED
    BY <1>1, <1>2, <1>3 DEF Buy

LEMMA BuyOK ==
  ASSUME Inv, Buy
  PROVE  Inv'
  <1>1. /\ UNCHANGED <<payload, date, phase, realized, closes, queued, told>>
        /\ phase = "buy" /\ today' \subseteq today
    BY NextBuy
  <1>2. ~ single
    BY <1>1 DEF Inv, Places
  <1>3. Places' /\ Orders'
    BY <1>1, <1>2, Fixed DEF Inv, Places, Orders
  <1>4. CASE UNCHANGED <<cash, held, trades>>
    <2>1. TypeOK'
      BY <1>1, <1>4 DEF Inv, TypeOK, payload
    <2>2. Traded'
      BY <1>1, <1>4, Fixed DEF Inv, Traded
    <2>3. QED
      BY <1>3, <2>1, <2>2 DEF Inv
  <1>5. ASSUME NEW o \in today, o.code \in Codes, o.price \in Nat \ {0}, NEW quantity,
               quantity = ResolveBuyQuantity(cash, o.price, sizing), Bought(o, quantity)
        PROVE  Inv'
    <2>1. quantity \in Nat /\ quantity > 0 /\ BuyCost(o.price, quantity) \in Nat
      BY <1>5, Purchase DEF Bought
    <2>2. cash' \in Int
      BY <1>5, <2>1 DEF Bought, Inv, TypeOK
    <2>3. [qty |-> quantity, cost |-> BuyCost(o.price, quantity), price |-> o.price, entry |-> date]
            \in [qty : Nat, cost : Nat, price : Nat, entry : 0 .. LastDate]
      BY <1>5, <2>1, DatesAreNumbers DEF Inv, TypeOK, Dates
    <2>4. held' \in [Codes -> [qty : Nat, cost : Nat, price : Nat, entry : 0 .. LastDate]]
          /\ \A c \in Codes : held'[c].qty = 0 => held'[c] = None
      BY <1>5, <2>1, <2>3 DEF Bought, Inv, TypeOK
    <2>5. TypeOK'
      BY <1>1, <2>2, <2>4 DEF Inv, TypeOK, payload
    <2>6. Dated(Trade(o, quantity)) /\ Trade(o, quantity).code \in Codes
      <3>1. Dated(o) /\ o.date = date
        BY DEF Inv, Orders
      <3>2. QED
        BY <1>5, <3>1 DEF Dated, Trade
    <2>7. Traded'
      BY <1>1, <1>5, <2>6, Fixed DEF Inv, Traded, Bought
    <2>8. QED
      BY <1>3, <2>5, <2>7 DEF Inv
  <1>6. QED
    BY <1>4, <1>5, NextBuy

LEMMA EndBuysOK ==
  ASSUME Inv, EndBuys
  PROVE  Inv'
  <1>1. /\ UNCHANGED <<payload, date, cash, realized, held, closes, queued, today, trades, told>>
        /\ phase = "buy" /\ today = {}
        /\ phase' = IF timing = "next_open" THEN "evaluate" ELSE "mark"
    BY DEF EndBuys
  <1>2. TypeOK'
    BY <1>1 DEF Inv, TypeOK, payload
  <1>3. Places'
    BY <1>1, Fixed DEF Inv, Places, Held
  <1>4. Orders' /\ Traded'
    BY <1>1, Fixed DEF Inv, Orders, Traded
  <1>5. QED
    BY <1>2, <1>3, <1>4 DEF Inv

\* The orders a day adds to the queue.
Queueable(c) == c \in Evaluated(date) /\ LaterBars(c, date) # {}
Queued(c, side) == [code |-> c, side |-> side, date |-> ExecutionDate(c),
                    price |-> OpenOr(Bar(c, Min(LaterBars(c, date)))), decided |-> date]

LEMMA QueueNextStep ==
  ASSUME Inv, QueueNext
  PROVE  /\ UNCHANGED <<payload, date, cash, realized, held, today, trades>>
         /\ phase = "evaluate" /\ phase' = "mark" /\ closes' = ClosesOn(date)
         /\ \E orders :
              /\ queued' = queued \cup orders
              /\ told' = told \cup Sales(orders)
              /\ \A o \in orders : o.price > 0 /\ \E c, side : Queueable(c) /\ side \in Signals /\ o = Queued(c, side)
              /\ \A o, p \in orders : o.code = p.code => o = p
  <1> DEFINE codes == {c \in Evaluated(date) : LaterBars(c, date) # {}}
  <1>1. PICK signal \in SignalsOf(codes) :
          LET orders == {Queued(c, signal[c]) : c \in {x \in codes : signal[x] # "HOLD"}}
              filled == {o \in orders : o.price > 0}
          IN  queued' = queued \cup filled /\ told' = told \cup Sales(filled)
    BY DEF QueueNext, Queued
  <1> DEFINE filled == {o \in {Queued(c, signal[c]) : c \in {x \in codes : signal[x] # "HOLD"}} : o.price > 0}
  <1>2. \A c \in codes : Queueable(c) /\ signal[c] \in Signals
    BY DEF Queueable, SignalsOf
  <1>3. \A o \in filled : o.price > 0 /\ \E c, side : Queueable(c) /\ side \in Signals /\ o = Queued(c, side)
    BY <1>2
  <1>4. \A o, p \in filled : o.code = p.code => o = p
    BY DEF Queued
  <1>5. QED
    BY <1>1, <1>3, <1>4 DEF QueueNext

\* What is known of an order when it is queued.
LEMMA QueuedOK ==
  ASSUME Inv, timing = "next_open", NEW c, NEW side \in Signals, Queueable(c)
  PROVE  LET o == Queued(c, side) IN
         /\ o.code = c /\ c \in Codes /\ o.side \in Signals /\ o.price \in Nat
         /\ o.date \in Dates /\ date < o.date /\ o.decided = date /\ date \in Dates
         /\ HasBar(c, date) /\ Dated(o)
  <1>1. c \in Codes /\ HasBar(c, date) /\ date \in Dates /\ market \in Markets
    BY DEF Queueable, Evaluated, Inv, TypeOK
  <1>2. ExecutionDate(c) \in Dates /\ date < ExecutionDate(c) /\ HasBar(c, ExecutionDate(c))
    BY <1>1, NextBar DEF Queueable, ExecutionDate
  <1>3. OpenOr(Bar(c, ExecutionDate(c))) \in Nat
    BY <1>1, <1>2, BarPrices
  <1>4. QED
    BY <1>1, <1>2, <1>3 DEF Queued, Dated, ExecutionDate

LEMMA QueueNextOK ==
  ASSUME Inv, QueueNext
  PROVE  Inv'
  <1>1. /\ UNCHANGED <<payload, date, cash, realized, held, today, trades>>
        /\ phase = "evaluate" /\ phase' = "mark" /\ closes' = ClosesOn(date)
    BY QueueNextStep
  <1>2. PICK orders :
          /\ queued' = queued \cup orders
          /\ \A o \in orders : \E c, side : Queueable(c) /\ side \in Signals /\ o = Queued(c, side)
          /\ \A o, p \in orders : o.code = p.code => o = p
    BY QueueNextStep
  <1>3. timing = "next_open" /\ ~ single /\ today = {}
    BY <1>1 DEF Inv, TypeOK, Places
  <1>4. \A o \in orders : /\ o.code \in Codes /\ o.side \in Signals /\ o.price \in Nat
                          /\ o.date \in Dates /\ o.decided \in Dates /\ o.decided = date /\ Dated(o)
                          /\ HasBar(o.code, date)
    BY <1>2, <1>3, QueuedOK
  <1>5. closes' \in [Codes -> Nat]
    BY <1>1, ClosesType DEF Inv, TypeOK
  <1>6. TypeOK'
    BY <1>1, <1>2, <1>4, <1>5 DEF Inv, TypeOK, payload
  <1>7. Places' /\ Traded'
    BY <1>1, <1>3, Fixed DEF Inv, Places, Traded
  <1>8. ASSUME NEW o \in queued, NEW p \in orders, o.code = p.code, o.date = p.date
        PROVE  FALSE
    <2>1. o.decided < date /\ o.decided \in Dates /\ o.date = Min(LaterBars(o.code, o.decided))
      BY <1>1, <1>3 DEF Inv, TypeOK, Orders, Dated
    <2>2. date \in LaterBars(o.code, o.decided) /\ LaterBars(o.code, o.decided) \subseteq Nat
      BY <1>4, <1>8, <2>1, DatesAreNumbers DEF LaterBars, Inv, TypeOK
    <2>3. o.date <= date
      BY <2>1, <2>2, NextBar
    <2>4. date < p.date
      BY <1>2, <1>3, QueuedOK
    <2>5. QED
      BY <1>4, <1>8, <2>3, <2>4, DatesAreNumbers DEF Inv, TypeOK
  <1>9. Orders'
    <2>1. \A o \in queued' \cup today' : Dated(o)'
      BY <1>1, <1>2, <1>4, Fixed DEF Inv, Orders
    <2>2. \A o \in queued' : o.decided < date' \/ (o.decided = date' /\ phase' \in {"mark", "end"})
      BY <1>1, <1>2, <1>4 DEF Inv, Orders
    <2>3. \A o, p \in queued' : o.code = p.code /\ o.date = p.date => o = p
      BY <1>2, <1>8 DEF Inv, Orders
    <2>4. QED
      BY <1>1, <1>3, <2>1, <2>2, <2>3 DEF Orders
  <1>10. QED
    BY <1>6, <1>7, <1>9 DEF Inv

\* The next date of a simulation is one of its dates.
LEMMA MarkStep ==
  ASSUME Inv, Mark
  PROVE  /\ UNCHANGED <<payload, cash, realized, held, closes, queued, today, trades, told>>
         /\ phase = "mark" /\ ~ single
         /\ \/ phase' = "end" /\ date' = date
            \/ /\ phase' = "open" /\ date' \in Dates /\ date < date'
               /\ \A d \in Simulated : date < d => date' <= d
  <1> DEFINE later == {d \in Simulated : date < d}
  <1>1. later \subseteq Nat /\ later \subseteq Dates
    BY DatesAreNumbers DEF Simulated
  <1>2. CASE later = {}
    BY <1>2 DEF Mark
  <1>3. CASE later # {}
    <2>1. Min(later) \in later /\ \A d \in later : Min(later) <= d
      BY <1>1, <1>3, MinOf
    <2>2. phase' = "open" /\ date' = Min(later)
      BY <1>3 DEF Mark
    <2>3. QED
      BY <1>1, <2>1, <2>2 DEF Mark
  <1>4. QED
    BY <1>2, <1>3

LEMMA MarkOK ==
  ASSUME Inv, Mark
  PROVE  Inv'
  <1>1. /\ UNCHANGED <<payload, cash, realized, held, closes, queued, today, trades, told>>
        /\ phase = "mark" /\ ~ single /\ date' \in Dates
        /\ (phase' = "end" /\ date' = date) \/ (phase' = "open" /\ date < date')
    BY MarkStep DEF Inv, TypeOK
  <1>2. TypeOK'
    BY <1>1 DEF Inv, TypeOK, payload
  <1>3. Places' /\ Traded'
    <2>1. StartDate <= date'
      BY <1>1, DatesAreNumbers DEF Inv, TypeOK, Places
    <2>2. QED
      BY <1>1, <2>1, Fixed DEF Inv, Places, Traded, Held
  <1>4. Orders'
    <2>1. today = {} /\ date \in Nat /\ date' \in Nat /\ \A o \in queued : o.decided \in Nat
      BY <1>1, DatesAreNumbers DEF Inv, TypeOK, Places
    <2>2. QED
      BY <1>1, <2>1, Fixed DEF Inv, Orders
  <1>5. QED
    BY <1>2, <1>3, <1>4 DEF Inv

-----------------------------------------------------------------------------
(* The engines for one code *)

LEMMA FillOK ==
  ASSUME Inv, single, timing = "same_close" \/ LaterBars(One, date) # {}
  PROVE  /\ FillDate \in Dates /\ FillPrice \in Nat
         /\ \A side, n : Dated(OneTrade(side, n)) /\ OneTrade(side, n).code = One
  <1>1. /\ date \in Dates /\ market \in Markets /\ HasBar(One, date)
        /\ timing \in {"same_close", "next_open"}
    BY DEF Inv, TypeOK, Places
  <1>2. FillDate \in Dates /\ HasBar(One, FillDate)
    BY <1>1, NextBar DEF FillDate
  <1>3. FillPrice \in Nat
    BY <1>1, <1>2, BarPrices, OneIsACode DEF FillPrice
  <1>4. ASSUME NEW side, NEW n PROVE Dated(OneTrade(side, n)) /\ OneTrade(side, n).code = One
    BY <1>1, <1>2 DEF Dated, OneTrade, FillDate, FillPrice
  <1>5. QED
    BY <1>2, <1>3, <1>4

LEMMA OneTurnStep ==
  ASSUME Inv, OneTurn
  PROVE  /\ UNCHANGED <<payload, queued, today, told>>
         /\ single /\ phase = "bar" /\ FillPrice \in Nat
         /\ UNCHANGED <<cash, realized, held, trades>> \/ (FillPrice > 0 /\ (OneBuy \/ OneSell))
         /\ closes' \in [Codes -> Nat]
         /\ phase' \in {"bar", "mark"} /\ date' \in Dates /\ date <= date' /\ HasBar(One, date')
  <1>1. /\ UNCHANGED <<payload, queued, today, told>> /\ phase = "bar"
        /\ timing = "same_close" \/ LaterBars(One, date) # {}
    BY DEF OneTurn
  <1>2. single /\ HasBar(One, date) /\ date \in Dates /\ market \in Markets
    BY <1>1 DEF Inv, TypeOK, Places
  <1>3. FillPrice \in Nat
    BY <1>1, <1>2, FillOK
  <1>4. closes' \in [Codes -> Nat]
    <2>1. Bar(One, date).close \in Nat
      BY <1>2, BarPrices, OneIsACode
    <2>2. QED
      BY <2>1 DEF OneTurn, Inv, TypeOK
  <1>5. phase' \in {"bar", "mark"} /\ date' \in Dates /\ date <= date' /\ HasBar(One, date')
    <2>1. phase' \in {"bar", "mark"} /\ (date' = date \/ (LaterBars(One, date) # {} /\ date' = Min(LaterBars(One, date))))
      BY <1>1 DEF OneTurn
    <2>2. date \in Nat /\ Dates \subseteq Nat
      BY <1>2, DatesAreNumbers
    <2>3. CASE date' = date
      BY <1>2, <2>1, <2>2, <2>3
    <2>4. CASE LaterBars(One, date) # {} /\ date' = Min(LaterBars(One, date))
      <3> DEFINE m == Min(LaterBars(One, date))
      <3>1. m \in Dates /\ date < m /\ HasBar(One, m)
        BY <1>2, <2>4, NextBar
      <3>2. date' = m
        BY <2>4
      <3> HIDE DEF m
      <3>3. date' \in Dates /\ date <= date' /\ HasBar(One, date')
        BY <2>2, <3>1, <3>2
      <3>4. QED
        BY <2>1, <3>3
    <2>5. QED
      BY <2>1, <2>3, <2>4
  <1>6. QED
    BY <1>1, <1>2, <1>3, <1>4, <1>5 DEF OneTurn

LEMMA OneTurnOK ==
  ASSUME Inv, OneTurn
  PROVE  Inv'
  <1>1. /\ UNCHANGED <<payload, queued, today, told>>
        /\ single /\ phase = "bar" /\ FillPrice \in Nat
        /\ closes' \in [Codes -> Nat]
        /\ phase' \in {"bar", "mark"} /\ date' \in Dates /\ date <= date' /\ HasBar(One, date')
    BY OneTurnStep
  <1>2. today = {} /\ queued = {} /\ told = {} /\ One \in Codes
    BY <1>1, OneIsACode DEF Inv, Places
  <1>3. /\ FillDate \in Dates
        /\ \A side, n : Dated(OneTrade(side, n)) /\ OneTrade(side, n).code = One
    BY <1>1, FillOK DEF OneTurn
  <1> DEFINE Rows == [qty : Nat, cost : Nat, price : Nat, entry : 0 .. LastDate]
  <1> DEFINE Result == /\ cash' \in Int /\ realized' \in Int /\ held' \in [Codes -> Rows]
                       /\ \A c \in Codes : held'[c].qty = 0 => held'[c] = None
                       /\ \A c \in Codes \ {One} : held'[c] = held[c]
                       /\ \A t \in trades' : Dated(t) /\ t.code \in Codes
  <1>4. Result
    <2>1. CASE UNCHANGED <<cash, realized, held, trades>>
      BY <2>1 DEF Inv, TypeOK, Traded
    <2>2. CASE FillPrice > 0 /\ OneBuy
      <3> DEFINE quantity == ResolveBuyQuantity(cash, FillPrice, sizing)
                 row == [qty |-> quantity, cost |-> BuyCost(FillPrice, quantity),
                         price |-> FillPrice, entry |-> FillDate]
      <3>1. quantity \in Nat /\ quantity > 0 /\ BuyCost(FillPrice, quantity) \in Nat
        BY <1>1, <2>2, Purchase DEF OneBuy
      <3>2. row \in Rows
        BY <1>1, <1>3, <3>1, DatesAreNumbers DEF Dates
      <3>3. /\ cash' = cash - BuyCost(FillPrice, quantity) /\ realized' = realized
            /\ held' = [held EXCEPT ![One] = row]
            /\ trades' = trades \cup {OneTrade("BUY", quantity)}
        BY <2>2 DEF OneBuy
      <3>4. cash' \in Int /\ realized' \in Int
        BY <3>1, <3>3 DEF Inv, TypeOK
      <3>5. /\ held' \in [Codes -> Rows] /\ \A c \in Codes : held'[c].qty = 0 => held'[c] = None
            /\ \A c \in Codes \ {One} : held'[c] = held[c]
        BY <1>2, <3>1, <3>2, <3>3 DEF Inv, TypeOK
      <3>6. QED
        BY <1>2, <1>3, <3>3, <3>4, <3>5 DEF Inv, Traded
    <2>3. CASE OneSell
      <3>1. /\ cash' = cash + SellProceeds(FillPrice, held[One].qty)
            /\ realized' = realized + Profit([code |-> One, price |-> FillPrice])
            /\ held' = Without(One)
            /\ trades' = trades \cup {OneTrade("SELL", held[One].qty)}
        BY <2>3 DEF OneSell
      <3>2. held[One].qty \in Nat /\ held[One].cost \in Nat
        BY <1>2 DEF Inv, TypeOK
      <3>3. SellProceeds(FillPrice, held[One].qty) \in Int
        BY <1>1, <3>2, SellProceedsType
      <3>4. cash' \in Int /\ realized' \in Int
        BY <3>1, <3>2, <3>3 DEF Inv, TypeOK, Profit
      <3>5. /\ held' \in [Codes -> Rows] /\ \A c \in Codes : held'[c].qty = 0 => held'[c] = None
            /\ \A c \in Codes \ {One} : held'[c] = held[c]
        BY <1>2, <3>1, WithoutOK DEF Inv, TypeOK
      <3>6. QED
        BY <1>2, <1>3, <3>1, <3>4, <3>5 DEF Inv, Traded
    <2>4. QED
      BY <2>1, <2>2, <2>3, OneTurnStep
  <1>5. TypeOK'
    BY <1>1, <1>2, <1>4 DEF Inv, TypeOK, payload
  <1>6. Places'
    <2>1. date \in Nat /\ date' \in Nat /\ StartDate \in Nat /\ StartDate <= date
      BY <1>1, DatesAreNumbers DEF Inv, TypeOK, Places
    <2>2. StartDate <= date'
      BY <1>1, <2>1
    <2>3. QED
      BY <1>1, <1>2, <1>4, <2>2, Fixed DEF Inv, Places, Held
  <1>7. Orders' /\ Traded'
    BY <1>1, <1>2, <1>4, Fixed DEF Orders, Traded
  <1>8. QED
    BY <1>5, <1>6, <1>7 DEF Inv

LEMMA OneEndOK ==
  ASSUME Inv, OneEnd
  PROVE  Inv'
  <1>1. /\ UNCHANGED <<payload, date, cash, realized, held, queued, today, trades, told>>
        /\ single /\ phase' = "end" /\ closes' = [closes EXCEPT ![One] = Bar(One, date).close]
    BY DEF OneEnd
  <1>2. HasBar(One, date) /\ queued = {} /\ told = {}
    BY <1>1 DEF Inv, Places
  <1>3. Bar(One, date).close \in Nat
    BY <1>2, BarPrices, OneIsACode DEF Inv, TypeOK
  <1>4. TypeOK'
    BY <1>1, <1>3 DEF Inv, TypeOK, payload
  <1>5. today = {}
    BY DEF Inv, Places, OneEnd
  <1>6. Places' /\ Orders' /\ Traded'
    BY <1>1, <1>2, <1>5, Fixed DEF Inv, Places, Orders, Traded, Held
  <1>7. QED
    BY <1>4, <1>6 DEF Inv

-----------------------------------------------------------------------------
LEMMA InvNext == Inv /\ [Next]_vars => Inv'
  <1> SUFFICES ASSUME Inv, [Next]_vars PROVE Inv'
    OBVIOUS
  <1>1. CASE UNCHANGED vars
    <2>1. TypeOK'
      BY <1>1 DEF Inv, TypeOK, vars, payload
    <2>2. Places' /\ Orders' /\ Traded'
      BY <1>1, Fixed DEF Inv, Places, Orders, Traded, Held, vars
    <2>3. QED
      BY <2>1, <2>2 DEF Inv
  <1>2. QED
    BY <1>1, DecideNowOK, TakeQueuedOK, QueueNextOK, SellOK, EndSalesOK, BuyOK, EndBuysOK, MarkOK,
       OneTurnOK, OneEndOK DEF Next

LEMMA Invariant == Spec => []Inv
  BY InvInit, InvNext, PTL DEF Spec

(* A backtest never leaves its dates, never sells what it does not hold,   *)
(* and asks the sizing and the fees only for prices that are there, for    *)
(* any bars, with any days and prices missing.                             *)
THEOREM BacktestTypeOK == Spec => []TypeOK
  <1>1. Inv => TypeOK
    BY DEF Inv
  <1>2. QED
    BY <1>1, Invariant, PTL

(* No trade knows more than the bars up to the day it was decided on: it   *)
(* is made at that day's close, or at the open of the code's next bar.     *)
THEOREM BacktestNoLookAhead == Spec => []NoLookAhead
  <1>1. Inv => NoLookAhead
    BY DEF Inv, Traded, Dated, NoLookAhead
  <1>2. QED
    BY <1>1, Invariant, PTL

-----------------------------------------------------------------------------
(* The limit *)

LEMMA OpenIsFinite ==
  ASSUME NEW S, S \subseteq Codes
  PROVE  IsFiniteSet(S) /\ Cardinality(S) \in Nat
  BY BacktestAssumption, FS_Subset, FS_CardinalityType

LEMMA LimitIsPositive == TypeOK => limit \in Nat \ {0}
  BY BacktestAssumption DEF TypeOK

\* Positions that were open before are not more than they were.
LEMMA FewerOpen ==
  ASSUME WithinLimit, limit' = limit, OpenCodes' \subseteq OpenCodes, TypeOK
  PROVE  WithinLimit'
  <1>1. OpenCodes \subseteq Codes
    BY DEF OpenCodes
  <1>2. Cardinality(OpenCodes') <= Cardinality(OpenCodes)
    BY <1>1, OpenIsFinite, FS_Subset
  <1>3. Cardinality(OpenCodes) \in Nat /\ Cardinality(OpenCodes') \in Nat
    BY <1>1, OpenIsFinite
  <1>4. Cardinality(OpenCodes') <= limit
    BY <1>2, <1>3, LimitIsPositive DEF WithinLimit
  <1>5. QED
    BY <1>4 DEF WithinLimit

LEMMA LimitInit == Init => WithinLimit
  <1> SUFFICES ASSUME Init PROVE WithinLimit
    OBVIOUS
  <1>1. OpenCodes = {}
    BY DEF Init, OpenCodes, Held, None
  <1>2. limit \in Nat
    BY BacktestAssumption DEF Init
  <1>3. QED
    BY <1>1, <1>2, FS_EmptySet DEF WithinLimit

LEMMA LimitNext == Inv /\ Inv' /\ WithinLimit /\ [Next]_vars => WithinLimit'
  <1> SUFFICES ASSUME Inv, Inv', WithinLimit, [Next]_vars PROVE WithinLimit'
    OBVIOUS
  <1>1. TypeOK /\ limit' = limit
    BY DEF Inv, Next, vars, payload, DecideNow, TakeQueued, QueueNext, Sell, EndSales, Buy, EndBuys, Mark,
           OneTurn, OneEnd
  <1>2. CASE held' = held
    <2>1. OpenCodes' \subseteq OpenCodes
      BY <1>2 DEF OpenCodes, Held
    <2>2. QED
      BY <1>1, <2>1, FewerOpen
  <1>3. CASE Sell
    <2> DEFINE c == First(SalesToday).code
    <2>1. c \in Codes /\ held' = Without(c)
      BY <1>3, NextSale DEF Sell
    <2>2. OpenCodes' \subseteq OpenCodes
      <3> HIDE DEF c
      <3> QED
        BY <1>1, <2>1, WithoutOK DEF OpenCodes, Held
    <2>3. QED
      BY <1>1, <2>2, FewerOpen
  <1>4. CASE Buy
    <2>1. ASSUME NEW o \in today, o.code \in Codes, NEW quantity, Bought(o, quantity)
          PROVE  WithinLimit'
      <3>1. OpenCodes' \subseteq OpenCodes \cup {o.code} /\ OpenCodes \subseteq Codes
        BY <1>1, <2>1 DEF Bought, OpenCodes, Held, TypeOK
      <3>2. /\ Cardinality(OpenCodes \cup {o.code}) <= Cardinality(OpenCodes) + 1
            /\ IsFiniteSet(OpenCodes \cup {o.code}) /\ Cardinality(OpenCodes) \in Nat
        BY <3>1, OpenIsFinite, FS_AddElement
      <3>3. Cardinality(OpenCodes') <= Cardinality(OpenCodes \cup {o.code})
        BY <3>1, <3>2, FS_Subset
      <3>4. Cardinality(OpenCodes) < limit
        BY <1>1, <2>1, <3>2, LimitIsPositive DEF Bought, Full
      <3>5. Cardinality(OpenCodes') \in Nat /\ Cardinality(OpenCodes \cup {o.code}) \in Nat
        BY <2>1, <3>1, OpenIsFinite DEF OpenCodes
      <3>6. Cardinality(OpenCodes') <= limit
        BY <1>1, <3>2, <3>3, <3>4, <3>5, LimitIsPositive
      <3>7. QED
        BY <1>1, <3>6 DEF WithinLimit
    <2>2. QED
      BY <1>2, <1>4, <2>1, NextBuy
  <1>5. CASE OneTurn
    <2>1. single' /\ limit' \in Nat \ {0}
      BY <1>1, <1>5, OneTurnStep, LimitIsPositive DEF payload
    <2>2. OpenCodes' \subseteq {One}
      BY <2>1 DEF Inv, Places, OpenCodes
    <2>3. IsFiniteSet({One}) /\ Cardinality({One}) = 1
      BY FS_Singleton
    <2>4. Cardinality(OpenCodes') <= 1
      BY <2>2, <2>3, FS_Subset
    <2>5. Cardinality(OpenCodes') \in Nat
      BY <2>2, <2>3, FS_Subset, FS_CardinalityType
    <2>6. Cardinality(OpenCodes') <= limit'
      BY <2>1, <2>4, <2>5
    <2>7. QED
      BY <2>6 DEF WithinLimit
  <1>6. QED
    BY <1>2, <1>3, <1>4, <1>5 DEF Next, vars, DecideNow, TakeQueued, QueueNext, EndSales, EndBuys, Mark, OneEnd

(* However many codes give a signal on one day, and whichever days the     *)
(* codes miss, a backtest never holds more positions than the payload      *)
(* allows: the places are counted again before each fill.                  *)
THEOREM BacktestWithinLimit == Spec => []WithinLimit
  BY Invariant, LimitInit, LimitNext, PTL DEF Spec

-----------------------------------------------------------------------------
(* The cash *)

(* Prices of two dollars and more, or missing, a tax of at most a half,    *)
(* and fee and tax together of at most the whole: below that a sale can    *)
(* cost more than it brings, which the code does not see to.               *)
OrdinaryBars ==
  /\ \A m \in Markets, c \in Codes, d \in Dates :
       m[c][d] = NoBar \/ \A x \in {m[c][d].open, m[c][d].close} : x = 0 \/ x >= 2 * Unit
  /\ FeeNum + TaxNum <= RateDen /\ 2 * TaxNum <= RateDen

(* A sale at a price of a bar does not take cash.                          *)
LEMMA SaleBrings ==
  ASSUME OrdinaryBars, market \in Markets, NEW c \in Codes, NEW d \in Dates, HasBar(c, d),
         NEW price \in {Bar(c, d).close, OpenOr(Bar(c, d))}, price > 0,
         NEW quantity \in Nat, quantity > 0
  PROVE  SellProceeds(price, quantity) \in Int /\ SellProceeds(price, quantity) >= 0
  <1>1. price \in Nat /\ (price = 0 \/ price >= 2 * Unit)
    BY BarPrices DEF OrdinaryBars, HasBar, Bar, OpenOr
  <1>2. Unit \in Nat /\ price \in Nat /\ price >= 2 * Unit
    BY <1>1, ChargesAssumption
  <1>3. price <= price * quantity
    BY <1>2, Product
  <1>4. price * quantity >= 2 * Unit
    BY <1>2, <1>3, Product
  <1>5. SellProceeds(price, quantity) >= 0
    BY <1>2, <1>4, SaleCoversCharges DEF OrdinaryBars
  <1>6. QED
    BY <1>2, <1>5, SellProceedsType

(* A purchase of a percentage of the cash fits into it.                    *)
LEMMA PercentFits ==
  ASSUME NEW c \in Int, NEW p \in Nat \ {0}, NEW z \in Sizings, z.mode # FixedShares,
         ResolveBuyQuantity(c, p, z) > 0
  PROVE  BuyCost(p, ResolveBuyQuantity(c, p, z)) <= c
  <1> DEFINE fits == {q \in 1 .. Ceiling(c, p, z.pct) : Affordable(c, p, z.pct, q)}
  <1>1. z.pct \in 1 .. 100
    BY BacktestAssumption
  <1>2. ResolveBuyQuantity(c, p, z)
          = IF fits = {} THEN 0 ELSE CHOOSE q \in fits : \A r \in fits : r <= q
    BY <1>1 DEF ResolveBuyQuantity
  <1>3. fits # {}
    BY <1>2
  <1>4. Ceiling(c, p, z.pct) \in Int
    <2>1. c * z.pct \in Int /\ 100 * p \in Nat \ {0}
      BY <1>1
    <2>2. QED
      BY <2>1 DEF Ceiling
  <1>5. fits \in SUBSET (0 .. Ceiling(c, p, z.pct)) /\ Ceiling(c, p, z.pct) \in Nat
    BY <1>3, <1>4
  <1>6. \E q \in fits : \A r \in fits : r <= q
    <2> HIDE DEF fits
    <2> QED
      BY <1>3, <1>5, LargestNatural
  <1>7. ResolveBuyQuantity(c, p, z) \in fits
    BY <1>2, <1>3, <1>6
  <1>8. QED
    BY <1>7 DEF Affordable

LEMMA CashNext ==
  ASSUME OrdinaryBars, Inv, CashNeverNegative, [Next]_vars
  PROVE  CashNeverNegative'
  <1>1. single' = single /\ sizing' = sizing /\ cash \in Int /\ date \in Dates /\ market \in Markets
        /\ sizing \in Sizings /\ timing \in {"same_close", "next_open"}
    BY DEF Inv, TypeOK, Next, vars, payload, DecideNow, TakeQueued, QueueNext, Sell, EndSales, Buy, EndBuys,
           Mark, OneTurn, OneEnd
  <1>2. CASE cash' = cash
    BY <1>1, <1>2 DEF CashNeverNegative
  <1>3. ASSUME NEW gain \in Int, gain >= 0, cash' = cash + gain PROVE CashNeverNegative'
    BY <1>1, <1>3 DEF CashNeverNegative
  <1>4. CASE Sell
    <2> DEFINE o == First(SalesToday)
    <2>1. /\ o \in today /\ o.code \in Codes /\ o.price \in Nat \ {0}
          /\ held[o.code].qty \in Nat /\ held[o.code].qty > 0
          /\ cash' = cash + SellProceeds(o.price, held[o.code].qty)
      BY <1>4, NextSale DEF Sell, Held
    <2>2. HasBar(o.code, date) /\ o.price \in {Bar(o.code, date).close, OpenOr(Bar(o.code, date))}
      <3> HIDE DEF o
      <3> QED
        BY <1>1, <2>1 DEF Inv, Orders, Dated
    <2>3. QED
      BY <1>1, <1>3, <2>1, <2>2, SaleBrings
  <1>5. CASE Buy
    <2>1. ASSUME NEW o \in today, o.price \in Nat \ {0}, NEW quantity,
                 quantity = ResolveBuyQuantity(cash, o.price, sizing), Bought(o, quantity)
          PROVE  cash' >= 0
      <3>1. BuyCost(o.price, quantity) \in Nat
        BY <2>1, Purchase
      <3>2. QED
        BY <1>1, <2>1, <3>1 DEF Bought, Fits
    <2>2. QED
      BY <1>2, <1>5, <2>1, NextBuy DEF CashNeverNegative
  <1>6. CASE OneTurn
    <2>1. single /\ FillPrice \in Nat
      BY <1>6, OneTurnStep
    <2>2. CASE FillPrice > 0 /\ OneBuy
      <3> DEFINE quantity == ResolveBuyQuantity(cash, FillPrice, sizing)
      <3>1. quantity > 0 /\ cash' = cash - BuyCost(FillPrice, quantity)
        BY <2>2 DEF OneBuy
      <3>2. BuyCost(FillPrice, quantity) \in Nat
        BY <2>1, <2>2, Purchase
      <3>3. sizing.mode # FixedShares => BuyCost(FillPrice, quantity) <= cash
        BY <1>1, <2>1, <2>2, <3>1, PercentFits
      <3>4. QED
        BY <1>1, <2>1, <3>1, <3>2, <3>3 DEF CashNeverNegative
    <2>3. CASE FillPrice > 0 /\ OneSell
      <3>1. /\ held[One].qty \in Nat /\ held[One].qty > 0
            /\ cash' = cash + SellProceeds(FillPrice, held[One].qty)
        BY <2>3, OneIsACode DEF OneSell, Held, Inv, TypeOK
      <3>2. /\ FillDate \in Dates /\ HasBar(One, FillDate)
            /\ FillPrice \in {Bar(One, FillDate).close, OpenOr(Bar(One, FillDate))}
        <4>1. /\ FillDate \in Dates /\ Dated(OneTrade("SELL", 0)) /\ OneTrade("SELL", 0).code = One
              /\ OneTrade("SELL", 0).date = FillDate /\ OneTrade("SELL", 0).price = FillPrice
          BY <1>6, <2>1, FillOK DEF OneTurn, OneTrade
        <4>2. QED
          BY <1>1, <4>1 DEF Dated
      <3>3. QED
        BY <1>1, <1>3, <2>3, <3>1, <3>2, SaleBrings, OneIsACode
    <2>4. QED
      BY <1>2, <1>6, <2>2, <2>3, OneTurnStep
  <1>7. QED
    BY <1>2, <1>4, <1>5, <1>6 DEF Next, vars, DecideNow, TakeQueued, QueueNext, EndSales, EndBuys, Mark, OneEnd

(* A backtest spends only cash it has, after every single fill, but for a  *)
(* fixed number of shares of one code, which the code does not compare     *)
(* with the cash.                                                          *)
THEOREM BacktestCashNeverNegative == OrdinaryBars /\ Spec => []CashNeverNegative
  <1> SUFFICES ASSUME OrdinaryBars PROVE Spec => []CashNeverNegative
    OBVIOUS
  <1>1. Init => CashNeverNegative
    BY BacktestAssumption DEF Init, CashNeverNegative
  <1>2. Inv /\ CashNeverNegative /\ [Next]_vars => CashNeverNegative'
    BY CashNext
  <1>3. QED
    BY <1>1, <1>2, Invariant, PTL DEF Spec

-----------------------------------------------------------------------------
(* The sales *)

\* The position of a decided sale is closed, or was bought after it.
Honoured(s) == ~ Held(s.code) \/ held[s.code].entry >= s.due

\* There is an order for the sale s among the orders.
Ordered(s, orders) ==
  \E o \in orders : o.code = s.code /\ o.side = "SELL" /\ o.price > 0 /\ o.date = s.due

(* A decided sale waits in the queue, is at hand, or has been made.        *)
SaleOK(s) ==
  /\ s.code \in Codes /\ s.due \in Nat
  /\ IF s.due > date \/ (s.due = date /\ phase = "open") THEN Ordered(s, queued)
     ELSE IF s.due = date /\ phase = "sell" THEN Honoured(s) \/ Ordered(s, today)
     ELSE Honoured(s)

Decided == \A s \in told : SaleOK(s)

LEMMA SalesOf ==
  ASSUME NEW orders, NEW s \in Sales(orders)
  PROVE  Ordered(s, orders) /\ \E o \in orders : s.code = o.code /\ s.due = o.date
  BY DEF Sales, Ordered

LEMMA DecidedNext ==
  ASSUME Inv, Inv', Decided, [Next]_vars
  PROVE  Decided'
  <1>0. date \in Nat /\ date' \in Nat
    BY DatesAreNumbers DEF Inv, TypeOK
  <1>1. CASE UNCHANGED vars
    BY <1>1 DEF vars, Decided, SaleOK, Ordered, Honoured, Held
  <1>2. CASE DecideNow
    <2>1. /\ UNCHANGED <<date, held, queued>> /\ phase = "open" /\ phase' = "sell"
          /\ timing = "same_close" /\ told' = told \cup Sales(today')
      BY <1>2 DEF DecideNow
    <2>2. queued = {}
      BY <2>1 DEF Inv, Places
    <2>3. ASSUME NEW s \in told PROVE SaleOK(s)'
      <3>1. SaleOK(s) /\ ~ Ordered(s, queued)
        BY <2>2 DEF Decided, Ordered
      <3>2. QED
        BY <1>0, <2>1, <3>1 DEF SaleOK, Honoured, Held
    <2>4. ASSUME NEW s \in Sales(today') PROVE SaleOK(s)'
      <3>1. Ordered(s, today') /\ s.code \in Codes /\ s.due = date'
        BY SalesOf DEF Inv, TypeOK, Orders
      <3>2. QED
        BY <1>0, <2>1, <3>1 DEF SaleOK, Ordered
    <2>5. QED
      BY <2>1, <2>3, <2>4 DEF Decided
  <1>3. CASE TakeQueued
    <2>1. /\ UNCHANGED <<date, held, told>> /\ phase = "open" /\ phase' = "sell"
          /\ today' = {o \in queued : o.date = date} /\ queued' = queued \ today'
      BY <1>3 DEF TakeQueued
    <2>2. ASSUME NEW s \in told PROVE SaleOK(s)'
      <3>1. SaleOK(s)
        BY DEF Decided
      <3>2. s.due = date /\ Ordered(s, queued) => Ordered(s, today')
        BY <2>1 DEF Ordered
      <3>3. s.due # date /\ Ordered(s, queued) => Ordered(s, queued')
        BY <2>1 DEF Ordered
      <3>4. Ordered(s, queued)' = Ordered(s, queued') /\ Ordered(s, today)' = Ordered(s, today')
            /\ Honoured(s)' = Honoured(s)
        BY <2>1 DEF Ordered, Honoured, Held
      <3>5. QED
        BY <1>0, <2>1, <3>1, <3>2, <3>3, <3>4 DEF SaleOK
    <2>3. QED
      BY <2>1, <2>2 DEF Decided
  <1>4. CASE Sell
    <2>1. PICK next \in today :
            /\ UNCHANGED <<date, phase, queued, told>> /\ phase = "sell"
            /\ held' = Without(next.code) /\ today' = today \ {next} /\ next.code \in Codes
      BY <1>4, NextSale DEF Sell
    <2>2. ~ Held(next.code)' /\ \A c \in Codes \ {next.code} : held'[c] = held[c]
      BY <2>1, WithoutOK DEF Inv
    <2>3. ASSUME NEW s \in told PROVE SaleOK(s)'
      <3>1. SaleOK(s) /\ s.code \in Codes
        BY DEF Decided, SaleOK
      <3>2. CASE s.code = next.code
        BY <2>1, <2>2, <3>1, <3>2 DEF SaleOK, Honoured, Ordered
      <3>3. CASE s.code # next.code
        <4>1. Honoured(s)' = Honoured(s)
          BY <2>2, <3>1, <3>3 DEF Honoured, Held
        <4>2. Ordered(s, today) => Ordered(s, today')
          BY <2>1, <3>3 DEF Ordered
        <4>3. QED
          BY <2>1, <3>1, <4>1, <4>2 DEF SaleOK, Ordered
      <3>4. QED
        BY <3>2, <3>3
    <2>4. QED
      BY <2>1, <2>3 DEF Decided
  <1>5. CASE EndSales
    <2>1. UNCHANGED <<date, held, queued, told>> /\ phase = "sell" /\ phase' = "buy" /\ SalesToday = {}
      BY <1>5 DEF EndSales
    <2>2. ASSUME NEW s \in told PROVE SaleOK(s)'
      <3>1. SaleOK(s)
        BY DEF Decided
      <3>2. Ordered(s, today) => Honoured(s)
        BY <2>1 DEF Ordered, SalesToday, Honoured
      <3>3. QED
        BY <1>0, <2>1, <3>1, <3>2 DEF SaleOK, Honoured, Held, Ordered
    <2>3. QED
      BY <2>1, <2>2 DEF Decided
  <1>6. CASE Buy
    <2>1. UNCHANGED <<date, phase, queued, told>> /\ phase = "buy"
      BY <1>6, NextBuy
    <2>2. \A s \in told : Honoured(s) /\ s.due <= date => Honoured(s)'
      <3>1. CASE held' = held
        BY <3>1 DEF Honoured, Held
      <3>2. ASSUME NEW o \in today, o.code \in Codes, NEW quantity, Bought(o, quantity)
            PROVE  \A s \in told : Honoured(s) /\ s.due <= date => Honoured(s)'
        <4>1. \A c \in Codes : held'[c] = held[c] \/ held'[c].entry = date
          BY <3>2 DEF Bought, Inv, TypeOK
        <4>2. \A s \in told : s.code \in Codes /\ s.due \in Nat
          BY DEF Decided, SaleOK
        <4>3. QED
          BY <1>0, <4>1, <4>2 DEF Honoured, Held
      <3>3. QED
        BY <1>6, <3>1, <3>2, NextBuy
    <2>3. QED
      BY <1>0, <2>1, <2>2 DEF Decided, SaleOK, Ordered
  <1>7. CASE EndBuys
    <2>1. /\ UNCHANGED <<date, held, queued, told>> /\ phase = "buy" /\ phase' \in {"evaluate", "mark"}
      BY <1>7 DEF EndBuys
    <2>2. QED
      BY <2>1 DEF Decided, SaleOK, Ordered, Honoured, Held
  <1>8. CASE QueueNext
    <2>1. UNCHANGED <<date, held>> /\ phase = "evaluate" /\ phase' = "mark" /\ timing = "next_open"
      BY <1>8, QueueNextStep DEF Inv, TypeOK, Places
    <2>2. PICK orders :
            /\ queued' = queued \cup orders /\ told' = told \cup Sales(orders)
            /\ \A o \in orders : \E c, side : Queueable(c) /\ side \in Signals /\ o = Queued(c, side)
      BY <1>8, QueueNextStep
    <2>3. ASSUME NEW s \in told PROVE SaleOK(s)'
      BY <2>1, <2>2 DEF Decided, SaleOK, Ordered, Honoured, Held
    <2>4. ASSUME NEW s \in Sales(orders) PROVE SaleOK(s)'
      <3>1. PICK o \in orders : s.code = o.code /\ s.due = o.date
        BY SalesOf
      <3>2. o.code \in Codes /\ o.date \in Dates /\ date < o.date
        BY <2>1, <2>2, QueuedOK
      <3>3. Ordered(s, queued)'
        BY <2>2, SalesOf DEF Ordered
      <3>4. QED
        BY <1>0, <2>1, <3>1, <3>2, <3>3, DatesAreNumbers DEF SaleOK
    <2>5. QED
      BY <2>2, <2>3, <2>4 DEF Decided
  <1>9. CASE Mark
    <2>1. /\ UNCHANGED <<held, queued, told, market>> /\ phase = "mark"
          /\ \/ phase' = "end" /\ date' = date
             \/ /\ phase' = "open" /\ date < date'
                /\ \A d \in Simulated : date < d => date' <= d
      BY <1>9, MarkStep DEF payload
    <2>2. ASSUME NEW s \in told PROVE SaleOK(s)'
      <3>1. SaleOK(s) /\ s.code \in Codes /\ s.due \in Nat
        BY DEF Decided, SaleOK
      <3>2. Ordered(s, queued)' = Ordered(s, queued) /\ Honoured(s)' = Honoured(s)
        BY <2>1 DEF Ordered, Honoured, Held
      <3>3. CASE s.due <= date
        BY <1>0, <2>1, <3>1, <3>2, <3>3 DEF SaleOK
      <3>4. CASE s.due > date
        <4>1. Ordered(s, queued)
          BY <3>1, <3>4 DEF SaleOK
        <4>2. HasBar(s.code, s.due) /\ s.due \in Dates
          BY <4>1 DEF Ordered, Inv, TypeOK, Orders, Dated
        <4>3. StartDate <= s.due
          BY <1>0, <3>1, <3>4, DatesAreNumbers DEF Inv, Places
        <4>6. s.due \in Simulated
          BY <3>1, <4>2, <4>3 DEF Simulated
        <4>4. date' <= s.due
          BY <1>0, <2>1, <3>1, <3>4, <4>6
        <4>5. QED
          BY <1>0, <2>1, <3>1, <3>2, <3>4, <4>1, <4>4 DEF SaleOK
      <3>5. QED
        BY <1>0, <3>1, <3>3, <3>4
    <2>3. QED
      BY <2>1, <2>2 DEF Decided
  <1>10. CASE OneTurn \/ OneEnd
    <2>1. told' = {}
      BY <1>10, OneTurnStep DEF OneEnd, Inv, Places
    <2>2. QED
      BY <2>1 DEF Decided
  <1>11. QED
    BY <1>1, <1>2, <1>3, <1>4, <1>5, <1>6, <1>7, <1>8, <1>9, <1>10 DEF Next

(* A sale that was decided is never lost, however long the code has no bar *)
(* and whatever else happens on the day: it waits under the date of the    *)
(* code's next bar, the simulation meets that date, and after it the       *)
(* position is closed or a later one.                                      *)
THEOREM BacktestSalesHonoured == Spec => []SalesHonoured
  <1>1. Init => Decided
    BY DEF Init, Decided
  <1>2. Inv /\ Inv' /\ Decided /\ [Next]_vars => Decided'
    BY DecidedNext
  <1>3. Inv /\ Decided => SalesHonoured
    <2> SUFFICES ASSUME Inv, Decided, NEW s \in told,
                        s.due < date \/ (s.due = date /\ phase \in {"mark", "end"})
                 PROVE  Honoured(s)
      BY DEF SalesHonoured, Honoured
    <2>1. date \in Nat /\ s.due \in Nat
      BY DatesAreNumbers DEF Inv, TypeOK, Decided, SaleOK
    <2>2. QED
      BY <2>1 DEF Decided, SaleOK
  <1>4. QED
    BY <1>1, <1>2, <1>3, Invariant, PTL DEF Spec

-----------------------------------------------------------------------------
(* The equity curve                                                        *)
(*                                                                         *)
(* EquityExplained is about equity points.  In between, cash and entry     *)
(* costs move together with the booked profit (Accounted), and a point     *)
(* is the cash and the worth of the positions when it is taken (Pointed).  *)

Costs == [c \in Codes |-> held[c].cost]
Values == [c \in Codes |-> held[c].qty * MarketPrice(c)]

Accounted == cash = InitialCash + realized - EntryCosts
Pointed == phase \in {"bar", "open", "end"} => equity = cash + HoldingsValue

LEMMA OpenCodesFinite == OpenCodes \subseteq Codes /\ IsFiniteSet(OpenCodes)
  BY OpenIsFinite DEF OpenCodes

LEMMA EntryCostsSum == EntryCosts = Total(Costs, OpenCodes)
  <1> DEFINE term(s) == held[Pick(s)].cost
  <1>0. OpenCodes \subseteq Codes /\ IsFiniteSet(OpenCodes)
    BY OpenCodesFinite
  <1>1. \A s \in SUBSET OpenCodes : s # {} => Costs[Pick(s)] = term(s)
    BY <1>0, PickIn DEF Costs
  <1>2. PICK g : IsTotal(g, Costs, OpenCodes) /\ Total(Costs, OpenCodes) = g[OpenCodes]
    BY <1>0, TotalIs
  <1>3. \A h : IsTotal(h, Costs, OpenCodes) <=>
          h = [s \in SUBSET OpenCodes |-> IF s = {} THEN 0 ELSE term(s) + h[s \ {Pick(s)}]]
    BY <1>1 DEF IsTotal
  <1>4. PICK h :
          /\ h = [s \in SUBSET OpenCodes |-> IF s = {} THEN 0 ELSE term(s) + h[s \ {Pick(s)}]]
          /\ EntryCosts = h[OpenCodes]
    BY <1>2, <1>3 DEF EntryCosts, MapThenSumSet, MapThenFoldSet, Pick
  <1>5. IsTotal(h, Costs, OpenCodes)
    BY <1>3, <1>4
  <1>6. QED
    BY <1>0, <1>4, <1>5, TotalOf

LEMMA HoldingsValueSum == HoldingsValue = Total(Values, OpenCodes)
  <1> DEFINE term(s) == held[Pick(s)].qty * MarketPrice(Pick(s))
  <1>0. OpenCodes \subseteq Codes /\ IsFiniteSet(OpenCodes)
    BY OpenCodesFinite
  <1>1. \A s \in SUBSET OpenCodes : s # {} => Values[Pick(s)] = term(s)
    BY <1>0, PickIn DEF Values
  <1>2. PICK g : IsTotal(g, Values, OpenCodes) /\ Total(Values, OpenCodes) = g[OpenCodes]
    BY <1>0, TotalIs
  <1>3. \A h : IsTotal(h, Values, OpenCodes) <=>
          h = [s \in SUBSET OpenCodes |-> IF s = {} THEN 0 ELSE term(s) + h[s \ {Pick(s)}]]
    BY <1>1 DEF IsTotal
  <1>4. PICK h :
          /\ h = [s \in SUBSET OpenCodes |-> IF s = {} THEN 0 ELSE term(s) + h[s \ {Pick(s)}]]
          /\ HoldingsValue = h[OpenCodes]
    BY <1>2, <1>3 DEF HoldingsValue, MapThenSumSet, MapThenFoldSet, Pick
  <1>5. IsTotal(h, Values, OpenCodes)
    BY <1>3, <1>4
  <1>6. QED
    BY <1>0, <1>4, <1>5, TotalOf

LEMMA SumsAreIntegers ==
  TypeOK => /\ EntryCosts \in Int /\ HoldingsValue \in Int
            /\ \A c \in Codes : Costs[c] \in Int /\ Values[c] \in Int
  <1> SUFFICES ASSUME TypeOK
               PROVE  /\ EntryCosts \in Int /\ HoldingsValue \in Int
                      /\ \A c \in Codes : Costs[c] \in Int /\ Values[c] \in Int
    OBVIOUS
  <1>1. \A c \in Codes : /\ held[c].qty \in Int /\ held[c].cost \in Int /\ held[c].price \in Int
                         /\ closes[c] \in Int
    BY DEF TypeOK
  <1>2. \A c \in Codes : MarketPrice(c) \in Int
    BY <1>1 DEF MarketPrice
  <1>3. \A c \in Codes : Costs[c] \in Int /\ Values[c] \in Int
    BY <1>1, <1>2 DEF Costs, Values
  <1>4. QED
    BY <1>3, OpenCodesFinite, EntryCostsSum, HoldingsValueSum, SumType

(* The same of the next state.                                             *)
LEMMA SumsThen ==
  /\ EntryCosts' = Total(Costs', OpenCodes') /\ HoldingsValue' = Total(Values', OpenCodes')
  /\ TypeOK' => /\ EntryCosts' \in Int /\ HoldingsValue' \in Int
                /\ \A c \in Codes : Costs'[c] \in Int /\ Values'[c] \in Int
  <1>1. (EntryCosts = Total(Costs, OpenCodes))'
    BY EntryCostsSum, PTL
  <1>2. (HoldingsValue = Total(Values, OpenCodes))'
    BY HoldingsValueSum, PTL
  <1>3. (TypeOK => /\ EntryCosts \in Int /\ HoldingsValue \in Int
                   /\ \A c \in Codes : Costs[c] \in Int /\ Values[c] \in Int)'
    BY SumsAreIntegers, PTL
  <1>4. QED
    BY <1>1, <1>2, <1>3

(* One more position adds its cost, one less takes it away.                *)
LEMMA CostsGrow ==
  ASSUME TypeOK, TypeOK', NEW c \in Codes, ~ Held(c), Held(c)',
         \A d \in Codes \ {c} : held'[d] = held[d]
  PROVE  EntryCosts' = EntryCosts + held'[c].cost
  <1>1. OpenCodes' = OpenCodes \cup {c} /\ c \notin OpenCodes
    BY DEF OpenCodes, Held
  <1>2. IsFiniteSet(OpenCodes) /\ OpenCodes \subseteq Codes
    BY OpenCodesFinite
  <1>3. \A d \in Codes : Costs'[d] \in Int
    BY SumsThen
  <1>4. Total(Costs', OpenCodes \cup {c}) = Total(Costs', OpenCodes) + Costs'[c]
    BY <1>1, <1>2, <1>3, SumWith
  <1>5. \A d \in OpenCodes : Costs'[d] = Costs[d]
    BY <1>1, <1>2 DEF Costs
  <1>6. Total(Costs', OpenCodes) = Total(Costs, OpenCodes)
    BY <1>2, <1>5, SumSame
  <1>7. EntryCosts' = Total(Costs', OpenCodes')
    BY SumsThen
  <1>8. Costs'[c] = held'[c].cost
    BY DEF Costs
  <1>9. QED
    BY <1>1, <1>4, <1>6, <1>7, <1>8, EntryCostsSum

LEMMA CostsShrink ==
  ASSUME TypeOK, TypeOK', NEW c \in Codes, Held(c), ~ Held(c)',
         \A d \in Codes \ {c} : held'[d] = held[d]
  PROVE  EntryCosts' = EntryCosts - held[c].cost
  <1>1. OpenCodes' = OpenCodes \ {c} /\ c \in OpenCodes
    BY DEF OpenCodes, Held
  <1>2. IsFiniteSet(OpenCodes) /\ OpenCodes \subseteq Codes /\ IsFiniteSet(OpenCodes')
    BY <1>1, OpenCodesFinite, FS_Subset
  <1>3. \A d \in Codes : Costs[d] \in Int
    BY SumsAreIntegers
  <1>4. Total(Costs, OpenCodes) = Costs[c] + Total(Costs, OpenCodes \ {c})
    BY <1>1, <1>2, <1>3, SumWithout
  <1>5. \A d \in OpenCodes' : Costs'[d] = Costs[d]
    BY <1>1, <1>2 DEF Costs
  <1>6. Total(Costs', OpenCodes') = Total(Costs, OpenCodes')
    BY <1>2, <1>5, SumSame
  <1>7. EntryCosts' = Total(Costs', OpenCodes')
    BY SumsThen
  <1>8. Costs[c] = held[c].cost /\ EntryCosts' \in Int
    BY SumsThen DEF Costs
  <1>9. QED
    BY <1>1, <1>3, <1>4, <1>6, <1>7, <1>8, EntryCostsSum

(* What the engines for one code take for the worth of the positions.      *)
LEMMA OneHolding ==
  TypeOK /\ Places /\ single => HoldingsValue = held[One].qty * closes[One]
  <1> SUFFICES ASSUME TypeOK, Places, single
               PROVE  HoldingsValue = held[One].qty * closes[One]
    OBVIOUS
  <1>0. One \in Codes
    BY OneIsACode
  <1>1. Values[One] = held[One].qty * closes[One]
    BY <1>0 DEF Values, MarketPrice
  <1>2. CASE Held(One)
    <2>1. OpenCodes = {} \cup {One}
      BY <1>0, <1>2 DEF OpenCodes, Places
    <2>2. Total(Values, {} \cup {One}) = Total(Values, {}) + Values[One]
      BY <1>0, FS_EmptySet, SumsAreIntegers, SumWith
    <2>3. Values[One] \in Int /\ Total(Values, {}) = 0
      BY <1>0, SumsAreIntegers, SumEmpty
    <2>4. QED
      BY <1>1, <2>1, <2>2, <2>3, HoldingsValueSum
  <1>3. CASE ~ Held(One)
    <2>1. OpenCodes = {}
      BY <1>3 DEF OpenCodes, Places
    <2>2. held[One].qty = 0 /\ closes[One] \in Nat
      BY <1>0, <1>3 DEF Held, TypeOK
    <2>3. QED
      BY <2>1, <2>2, HoldingsValueSum, SumEmpty
  <1>4. QED
    BY <1>2, <1>3

LEMMA OneHoldingThen ==
  TypeOK' /\ Places' /\ single' => HoldingsValue' = held'[One].qty * closes'[One]
  <1>1. (TypeOK /\ Places /\ single => HoldingsValue = held[One].qty * closes[One])'
    BY OneHolding, PTL
  <1>2. One' = One
    BY DEF One
  <1>3. QED
    BY <1>1, <1>2

LEMMA EquityInit == Init => Accounted /\ Pointed
  <1> SUFFICES ASSUME Init PROVE Accounted /\ Pointed
    OBVIOUS
  <1>1. OpenCodes = {}
    BY DEF Init, OpenCodes, Held, None
  <1>2. EntryCosts = 0 /\ HoldingsValue = 0
    BY <1>1, EntryCostsSum, HoldingsValueSum, SumEmpty
  <1>3. cash = InitialCash /\ realized = 0 /\ equity = InitialCash /\ InitialCash \in Nat
    BY BacktestAssumption DEF Init
  <1>4. QED
    BY <1>2, <1>3 DEF Accounted, Pointed

(* A purchase and a sale in the accounts.                                  *)
LEMMA AccountBuy ==
  ASSUME TypeOK, TypeOK', Accounted, NEW c \in Codes, ~ Held(c), Held(c)',
         \A d \in Codes \ {c} : held'[d] = held[d], realized' = realized,
         cash' = cash - held'[c].cost
  PROVE  Accounted'
  <1>1. EntryCosts' = EntryCosts + held'[c].cost
    BY CostsGrow
  <1>2. EntryCosts \in Int /\ held'[c].cost \in Int /\ realized \in Int /\ InitialCash \in Int
    BY SumsAreIntegers, BacktestAssumption DEF TypeOK
  <1>3. QED
    BY <1>1, <1>2 DEF Accounted

LEMMA AccountSale ==
  ASSUME TypeOK, TypeOK', Accounted, NEW c \in Codes, Held(c), held' = Without(c),
         NEW proceeds \in Int, cash' = cash + proceeds,
         realized' = realized + (proceeds - held[c].cost)
  PROVE  Accounted'
  <1>1. ~ Held(c)' /\ \A d \in Codes \ {c} : held'[d] = held[d]
    BY WithoutOK
  <1>2. EntryCosts' = EntryCosts - held[c].cost
    BY <1>1, CostsShrink
  <1>3. EntryCosts \in Int /\ held[c].cost \in Int /\ realized \in Int /\ InitialCash \in Int
    BY SumsAreIntegers, BacktestAssumption DEF TypeOK
  <1>4. QED
    BY <1>2, <1>3 DEF Accounted

LEMMA AccountQuiet ==
  ASSUME Accounted, UNCHANGED <<cash, realized, held>>
  PROVE  Accounted'
  <1>1. Costs' = Costs /\ OpenCodes' = OpenCodes
    BY DEF Costs, OpenCodes, Held
  <1>2. EntryCosts' = EntryCosts
    BY <1>1, EntryCostsSum, SumsThen
  <1>3. QED
    BY <1>2 DEF Accounted

LEMMA AccountedNext ==
  ASSUME Inv, Inv', Accounted, [Next]_vars
  PROVE  Accounted'
  <1>0. TypeOK /\ TypeOK' /\ One \in Codes
    BY OneIsACode DEF Inv
  <1>1. CASE UNCHANGED <<cash, realized, held>>
    BY <1>1, AccountQuiet
  <1>2. CASE Sell
    <2> DEFINE next == First(SalesToday)
               proceeds == SellProceeds(next.price, held[next.code].qty)
    <2>1. SalesToday # {} /\ cash' = cash + proceeds
          /\ realized' = realized + (proceeds - held[next.code].cost) /\ held' = Without(next.code)
      BY <1>2 DEF Sell, Profit
    <2>2. next.code \in Codes /\ Held(next.code) /\ next.price \in Nat /\ held[next.code].qty \in Nat
      BY <2>1, NextSale
    <2> HIDE DEF next
    <2>3. proceeds \in Int
      BY <2>2, SellProceedsType
    <2> HIDE DEF proceeds
    <2>4. QED
      BY <1>0, <2>1, <2>2, <2>3, AccountSale
  <1>3. CASE Buy
    <2>1. ASSUME NEW o \in today, o.code \in Codes, o.price \in Nat \ {0}, NEW quantity,
                 quantity = ResolveBuyQuantity(cash, o.price, sizing), Bought(o, quantity)
          PROVE  Accounted'
      <3>1. quantity \in Nat /\ quantity > 0 /\ BuyCost(o.price, quantity) \in Nat
        BY <2>1, Purchase DEF Bought
      <3>2. ~ Held(o.code) /\ cash' = cash - BuyCost(o.price, quantity)
            /\ held' = [held EXCEPT ![o.code] = [qty |-> quantity, cost |-> BuyCost(o.price, quantity),
                                                 price |-> o.price, entry |-> date]]
        BY <2>1 DEF Bought
      <3>3. held'[o.code].qty = quantity /\ held'[o.code].cost = BuyCost(o.price, quantity)
            /\ \A d \in Codes \ {o.code} : held'[d] = held[d]
        BY <1>0, <2>1, <3>2 DEF TypeOK
      <3>4. realized' = realized
        BY <1>3, NextBuy
      <3>5. Held(o.code)'
        BY <3>1, <3>3 DEF Held
      <3>6. QED
        BY <1>0, <2>1, <3>2, <3>3, <3>4, <3>5, AccountBuy
    <2>2. QED
      BY <1>1, <1>3, <2>1, NextBuy
  <1>4. CASE OneTurn
    <2>1. FillPrice \in Nat
          /\ (UNCHANGED <<cash, realized, held>> \/ (FillPrice > 0 /\ (OneBuy \/ OneSell)))
      BY <1>4, OneTurnStep
    <2>2. CASE FillPrice > 0 /\ OneBuy
      <3> DEFINE quantity == ResolveBuyQuantity(cash, FillPrice, sizing)
      <3>1. ~ Held(One) /\ quantity > 0 /\ realized' = realized
            /\ cash' = cash - BuyCost(FillPrice, quantity)
            /\ held' = [held EXCEPT ![One] = [qty |-> quantity, cost |-> BuyCost(FillPrice, quantity),
                                              price |-> FillPrice, entry |-> FillDate]]
        BY <2>2 DEF OneBuy
      <3> HIDE DEF quantity
      <3>2. held'[One].qty = quantity /\ held'[One].cost = BuyCost(FillPrice, quantity)
            /\ \A d \in Codes \ {One} : held'[d] = held[d]
        BY <1>0, <3>1 DEF TypeOK
      <3>3. Held(One)'
        BY <3>1, <3>2 DEF Held
      <3>4. QED
        BY <1>0, <3>1, <3>2, <3>3, AccountBuy
    <2>3. CASE FillPrice > 0 /\ OneSell
      <3> DEFINE proceeds == SellProceeds(FillPrice, held[One].qty)
      <3>1. Held(One) /\ held' = Without(One) /\ cash' = cash + proceeds
            /\ realized' = realized + (proceeds - held[One].cost)
        BY <2>3 DEF OneSell, Profit
      <3>2. held[One].qty \in Nat
        BY <1>0 DEF TypeOK
      <3>3. proceeds \in Int
        BY <2>1, <3>2, SellProceedsType
      <3> HIDE DEF proceeds
      <3>4. QED
        BY <1>0, <3>1, <3>3, AccountSale
    <2>4. QED
      BY <1>1, <2>1, <2>2, <2>3
  <1>5. QED
    BY <1>1, <1>2, <1>3, <1>4 DEF Next, vars, DecideNow, TakeQueued, QueueNext, EndSales, EndBuys,
                                  Mark, OneEnd

LEMMA SameWorth ==
  ASSUME UNCHANGED <<single, held, closes>>
  PROVE  HoldingsValue' = HoldingsValue
  <1>1. Values' = Values /\ OpenCodes' = OpenCodes
    BY DEF Values, MarketPrice, OpenCodes, Held
  <1>2. QED
    BY <1>1, HoldingsValueSum, SumsThen

LEMMA PointedNext ==
  ASSUME Inv, Inv', Pointed, [Next]_vars
  PROVE  Pointed'
  <1>0. TypeOK' /\ Places' /\ single' = single
    BY DEF Inv, Next, vars, payload, DecideNow, TakeQueued, QueueNext, Sell, EndSales, Buy, EndBuys,
           Mark, OneTurn, OneEnd
  <1>1. CASE UNCHANGED vars
    BY <1>0, <1>1, SameWorth DEF Pointed, vars
  <1>2. CASE Mark
    <2>1. HoldingsValue' = HoldingsValue
      BY <1>0, <1>2, SameWorth DEF Mark
    <2>2. QED
      BY <1>2, <2>1 DEF Mark, Pointed
  <1>3. CASE OneTurn
    <2>1. CASE UNCHANGED <<cash, held, closes, equity>>
      <3>1. phase = "bar" /\ HoldingsValue' = HoldingsValue
        BY <1>0, <1>3, <2>1, SameWorth DEF OneTurn
      <3>2. QED
        BY <2>1, <3>1 DEF Pointed
    <2>2. CASE equity' = cash' + held'[One].qty * closes'[One]
      <3>1. single'
        BY <1>0, <1>3, OneTurnStep
      <3>2. HoldingsValue' = held'[One].qty * closes'[One]
        BY <1>0, <3>1, OneHoldingThen
      <3>3. QED
        BY <2>2, <3>2 DEF Pointed
    <2>3. QED
      BY <1>3, <2>1, <2>2 DEF OneTurn
  <1>4. CASE OneEnd
    <2>1. single' /\ cash' = cash /\ held' = held /\ equity' = cash + held[One].qty * closes'[One]
      BY <1>0, <1>4 DEF OneEnd
    <2>2. HoldingsValue' = held'[One].qty * closes'[One]
      BY <1>0, <2>1, OneHoldingThen
    <2>3. QED
      BY <2>1, <2>2 DEF Pointed
  <1>5. CASE DecideNow \/ TakeQueued \/ QueueNext \/ Sell \/ EndSales \/ Buy \/ EndBuys
    <2>1. phase' \notin {"bar", "open", "end"}
      BY <1>5 DEF DecideNow, TakeQueued, QueueNext, Sell, EndSales, Buy, EndBuys
    <2>2. QED
      BY <2>1 DEF Pointed
  <1>6. QED
    BY <1>1, <1>2, <1>3, <1>4, <1>5 DEF Next

(* Every equity point of every engine, for any bars and any strategy, is   *)
(* the initial cash, the booked profits and the unrealised gain: no fee,   *)
(* no tax and no sale goes unaccounted for.                                *)
THEOREM BacktestEquityExplained == Spec => []EquityExplained
  <1>1. TypeOK /\ Accounted /\ Pointed => EquityExplained
    <2> SUFFICES ASSUME TypeOK, Accounted, Pointed PROVE EquityExplained
      OBVIOUS
    <2>1. EntryCosts \in Int /\ HoldingsValue \in Int /\ realized \in Int /\ InitialCash \in Int
      BY SumsAreIntegers, BacktestAssumption DEF TypeOK
    <2>2. QED
      BY <2>1 DEF Accounted, Pointed, EquityExplained
  <1>2. Inv /\ Inv' /\ Accounted /\ Pointed /\ [Next]_vars => (Accounted /\ Pointed)'
    BY AccountedNext, PointedNext
  <1>3. Inv => TypeOK
    BY DEF Inv
  <1>4. QED
    BY <1>1, <1>2, <1>3, EquityInit, Invariant, PTL DEF Spec

-----------------------------------------------------------------------------
(* The ledger *)

\* A trade of today leaves no order of its code for today, and a day has one bar.
Booking ==
  /\ \A t \in trades : t.date \in Nat /\ t.decided \in Nat
  /\ ~ single => \A t \in trades : /\ t.date <= date
                                   /\ t.date = date => phase # "open" /\ \A o \in today : o.code # t.code
  /\ single /\ phase = "bar" => \A t \in trades : t.decided < date
  /\ phase = "buy" => \A o \in today : o.side = "BUY"

LEMMA BookingInit == Init => Booking
  BY DEF Init, Booking

LEMMA BookingNext ==
  ASSUME Inv, Inv', Booking, [Next]_vars
  PROVE  Booking'
  <1>0. /\ single' = single /\ single \in BOOLEAN /\ date \in Nat /\ date' \in Nat
        /\ \A o, p \in today : o.code = p.code => o = p
        /\ \A o \in today : o.decided \in Nat
    <2>1. /\ date \in Dates /\ date' \in Dates /\ single \in BOOLEAN
          /\ \A o, p \in today : o.code = p.code => o = p
          /\ \A o \in today : o.decided \in Dates
      BY DEF Inv, TypeOK
    <2>2. single' = single
      BY DEF Next, vars, payload, DecideNow, TakeQueued, QueueNext, Sell, EndSales, Buy, EndBuys,
             Mark, OneTurn, OneEnd
    <2>3. QED
      BY <2>1, <2>2, DatesAreNumbers
  <1>1. CASE UNCHANGED vars
    BY <1>1 DEF vars, payload, Booking
  <1>2. CASE DecideNow \/ TakeQueued
    <2>1. UNCHANGED <<date, trades>> /\ phase = "open" /\ phase' = "sell" /\ ~ single
      BY <1>2 DEF DecideNow, TakeQueued, Inv, Places
    <2>2. QED
      BY <1>0, <2>1 DEF Booking
  <1>3. CASE Sell
    <2> DEFINE next == First(SalesToday)
               t == Trade(next, held[next.code].qty)
    <2>1. /\ UNCHANGED <<date, phase>> /\ phase = "sell" /\ SalesToday # {}
          /\ trades' = trades \cup {t} /\ today' = today \ {next}
      BY <1>3 DEF Sell
    <2>2. next \in today /\ ~ single
      BY <2>1, NextSale DEF Inv, Places
    <2>3. t.date = date /\ t.code = next.code /\ t.decided = next.decided
      BY DEF Trade
    <2> HIDE DEF next, t
    <2>4. QED
      BY <1>0, <2>1, <2>2, <2>3 DEF Booking
  <1>4. CASE EndSales
    <2>1. UNCHANGED <<date, trades>> /\ phase = "sell" /\ phase' = "buy" /\ ~ single
          /\ today' = {o \in today : o.side = "BUY"}
      BY <1>4 DEF EndSales, Inv, Places
    <2>2. QED
      BY <1>0, <2>1 DEF Booking
  <1>5. CASE Buy
    <2>1. /\ UNCHANGED <<date, phase>> /\ phase = "buy" /\ ~ single /\ today' \subseteq today
          /\ \/ UNCHANGED trades
             \/ \E o \in today : \E n : trades' = trades \cup {Trade(o, n)} /\ today' = today \ {o}
      <3>1. /\ phase = "buy" /\ today # {}
            /\ UNCHANGED <<date, phase>>
        BY <1>5 DEF Buy
      <3>2. First(today) \in today
        BY <3>1, FirstOf DEF Inv, TypeOK
      <3>3. today' \subseteq today
        BY <1>5, NextBuy
      <3>4. ~ single
        BY <3>1 DEF Inv, Places
      <3>5. \/ UNCHANGED trades
            \/ /\ trades' = trades \cup {Trade(First(today), ResolveBuyQuantity(cash, First(today).price, sizing))}
               /\ today' = today \ {First(today)}
        BY <1>5 DEF Buy
      <3>6. QED
        BY <3>1, <3>2, <3>3, <3>4, <3>5
    <2>2. \A o, n : Trade(o, n).date = date /\ Trade(o, n).code = o.code /\ Trade(o, n).decided = o.decided
      BY DEF Trade
    <2>3. QED
      BY <1>0, <2>1, <2>2 DEF Booking
  <1>6. CASE EndBuys \/ QueueNext
    <2>1. UNCHANGED <<date, trades>> /\ phase \in {"buy", "evaluate"} /\ phase' \in {"evaluate", "mark"}
          /\ today' = today
      BY <1>6 DEF EndBuys, QueueNext
    <2>2. ~ single
      BY <2>1 DEF Inv, Places
    <2>3. QED
      BY <1>0, <2>1, <2>2 DEF Booking
  <1>7. CASE Mark
    <2>1. /\ UNCHANGED <<today, trades>> /\ phase = "mark" /\ ~ single /\ today = {}
          /\ \/ phase' = "end" /\ UNCHANGED date
             \/ phase' = "open" /\ date < date'
      <3>1. UNCHANGED <<today, trades>> /\ phase = "mark" /\ ~ single /\ today = {}
        BY <1>7 DEF Mark, Inv, Places
      <3>2. \/ phase' = "end" /\ UNCHANGED date
            \/ /\ phase' = "open" /\ {d \in Simulated : date < d} # {}
               /\ date' = Min({d \in Simulated : date < d})
        BY <1>7 DEF Mark
      <3>3. {d \in Simulated : date < d} \subseteq Nat
        BY DatesAreNumbers DEF Simulated
      <3>4. CASE phase' = "end" /\ UNCHANGED date
        BY <3>1, <3>4
      <3>5. CASE /\ phase' = "open" /\ {d \in Simulated : date < d} # {}
                 /\ date' = Min({d \in Simulated : date < d})
        BY <3>1, <3>3, <3>5, MinOf
      <3>6. QED
        BY <3>2, <3>4, <3>5
    <2>2. QED
      BY <1>0, <2>1 DEF Booking
  <1>8. CASE OneTurn
    <2>1. /\ single /\ phase = "bar" /\ phase' \in {"bar", "mark"}
          /\ UNCHANGED trades \/ \E side, n : trades' = trades \cup {OneTrade(side, n)}
      BY <1>8, OneTurnStep DEF OneBuy, OneSell
    <2>2. phase' = "bar" => date < date'
      <3>1. phase' = "bar" => LaterBars(One, date) # {} /\ date' = Min(LaterBars(One, date))
        BY <1>8 DEF OneTurn
      <3>2. date \in Dates
        BY DEF Inv, TypeOK
      <3>3. QED
        BY <3>1, <3>2, NextBar
    <2>3. \A side, n : OneTrade(side, n).decided = date /\ OneTrade(side, n).date \in Nat
      <3>1. FillDate \in Nat
        BY <1>8, <2>1, FillOK, DatesAreNumbers DEF OneTurn
      <3>2. QED
        BY <3>1 DEF OneTrade
    <2>4. \A t \in trades' : t \in trades \/ (t.decided = date /\ t.date \in Nat)
      BY <2>1, <2>3
    <2>5. ASSUME phase' = "bar", NEW t \in trades' PROVE t.decided < date'
      <3>1. t.decided \in Nat /\ t.decided <= date
        BY <2>1, <2>4, <1>0, <2>5 DEF Booking
      <3>2. QED
        BY <1>0, <2>2, <2>5, <3>1
    <2>6. phase' # "buy" /\ phase' # "open"
      BY <2>1
    <2>7. QED
      BY <1>0, <2>1, <2>4, <2>5, <2>6 DEF Booking
  <1>9. CASE OneEnd
    BY <1>0, <1>9 DEF OneEnd, Booking
  <1>10. QED
    BY <1>1, <1>2, <1>3, <1>4, <1>5, <1>6, <1>7, <1>8, <1>9 DEF Next
\* What a trade moves, and the sum over at most this one trade.
Flow(t) == IF t.side = "BUY" THEN - BuyCost(t.price, t.quantity) ELSE SellProceeds(t.price, t.quantity)
Moved(t) == IF t.side = "BUY" THEN t.quantity ELSE - t.quantity

LEMMA AbstractFlow ==
  ASSUME NEW t
  PROVE  Abstract!CashFlow(t) = Flow(t) /\ Abstract!ShareFlow(t) = Moved(t)
  <1>1. Abstract!BuyCost(t.price, t.quantity) = BuyCost(t.price, t.quantity)
    BY DEF Abstract!BuyCost, Abstract!Fee, BuyCost, Fee
  <1>2. Abstract!SellProceeds(t.price, t.quantity) = SellProceeds(t.price, t.quantity)
    BY DEF Abstract!SellProceeds, Abstract!Fee, Abstract!Tax, SellProceeds, Fee, Tax
  <1>3. QED
    BY <1>1, <1>2 DEF Flow, Moved, Abstract!CashFlow, Abstract!ShareFlow

LEMMA FlowOfOne ==
  ASSUME NEW t, Flow(t) \in Int
  PROVE  Abstract!MapThenSumSet(Abstract!CashFlow, {t}) = Flow(t)
  <1> DEFINE f == [x \in {t} |-> Flow(x)]
             flow(s) == Abstract!CashFlow(Pick(s))
  <1>1. IsFiniteSet({t}) /\ f[t] = Flow(t)
    BY FS_Singleton
  <1>2. \A s \in SUBSET {t} : s # {} => f[Pick(s)] = flow(s)
    BY PickIn, AbstractFlow
  <1>3. Total(f, {t}) = f[t]
    <2>1. Total(f, {} \cup {t}) = Total(f, {}) + f[t]
      <3> HIDE DEF f
      <3>1. IsFiniteSet({}) /\ \A x \in {} \cup {t} : f[x] \in Int
        BY <1>1, FS_EmptySet
      <3>2. QED
        BY <3>1, SumWith
    <2>2. Total(f, {}) = 0
      BY SumEmpty
    <2>3. {} \cup {t} = {t}
      OBVIOUS
    <2> HIDE DEF f
    <2>4. QED
      BY <1>1, <2>1, <2>2, <2>3
  <1>4. PICK g : IsTotal(g, f, {t}) /\ Total(f, {t}) = g[{t}]
    BY <1>1, TotalIs
  <1>5. \A h : IsTotal(h, f, {t}) <=>
                 h = [s \in SUBSET {t} |-> IF s = {} THEN 0 ELSE flow(s) + h[s \ {Pick(s)}]]
    <2> HIDE DEF f, flow
    <2> QED
      BY <1>2 DEF IsTotal
  <1>6. PICK h : /\ h = [s \in SUBSET {t} |-> IF s = {} THEN 0 ELSE flow(s) + h[s \ {Pick(s)}]]
                 /\ Abstract!MapThenSumSet(Abstract!CashFlow, {t}) = h[{t}]
    <2>1. \E h : h = [s \in SUBSET {t} |-> IF s = {} THEN 0 ELSE flow(s) + h[s \ {Pick(s)}]]
      BY <1>4, <1>5
    <2>2. QED
      BY <2>1 DEF Abstract!MapThenSumSet, Abstract!MapThenFoldSet, Pick
  <1>7. IsTotal(h, f, {t})
    BY <1>5, <1>6
  <1>8. QED
    BY <1>1, <1>3, <1>6, <1>7, TotalOf

LEMMA MovedByOne ==
  ASSUME NEW t, Moved(t) \in Int, NEW c
  PROVE  Abstract!MapThenSumSet(Abstract!ShareFlow, {x \in {t} : x.code = c})
           = IF t.code = c THEN Moved(t) ELSE 0
  <1> DEFINE S == {x \in {t} : x.code = c}
             f == [x \in {t} |-> Moved(x)]
             flow(s) == Abstract!ShareFlow(Pick(s))
  <1>1. f[t] = Moved(t) /\ IsFiniteSet(S)
    BY FS_Singleton, FS_Subset
  <1>2. \A s \in SUBSET S : s # {} => f[Pick(s)] = flow(s)
    BY PickIn, AbstractFlow
  <1>3. Total(f, S) = IF t.code = c THEN f[t] ELSE 0
    <2> HIDE DEF f
    <2>1. CASE t.code = c
      <3>1. IsFiniteSet({}) /\ \A x \in {} \cup {t} : f[x] \in Int
        BY <1>1, FS_EmptySet
      <3>2. Total(f, {} \cup {t}) = Total(f, {}) + f[t]
        BY <3>1, SumWith
      <3>3. S = {} \cup {t}
        BY <2>1
      <3>4. Total(f, {}) = 0
        BY SumEmpty
      <3> HIDE DEF S
      <3>5. QED
        BY <1>1, <2>1, <3>2, <3>3, <3>4
    <2>2. CASE t.code # c
      <3>1. S = {}
        BY <2>2
      <3>2. QED
        BY <2>2, <3>1, SumEmpty
    <2>3. QED
      BY <2>1, <2>2
  <1>4. PICK g : IsTotal(g, f, S) /\ Total(f, S) = g[S]
    BY <1>1, TotalIs
  <1>5. \A h : IsTotal(h, f, S) <=>
                 h = [s \in SUBSET S |-> IF s = {} THEN 0 ELSE flow(s) + h[s \ {Pick(s)}]]
    <2> HIDE DEF f, flow, S
    <2> QED
      BY <1>2 DEF IsTotal
  <1>6. PICK h : /\ h = [s \in SUBSET S |-> IF s = {} THEN 0 ELSE flow(s) + h[s \ {Pick(s)}]]
                 /\ Abstract!MapThenSumSet(Abstract!ShareFlow, S) = h[S]
    <2>1. \E h : h = [s \in SUBSET S |-> IF s = {} THEN 0 ELSE flow(s) + h[s \ {Pick(s)}]]
      BY <1>4, <1>5
    <2>2. QED
      BY <2>1 DEF Abstract!MapThenSumSet, Abstract!MapThenFoldSet, Pick
  <1>7. IsTotal(h, f, S)
    BY <1>5, <1>6
  <1>8. QED
    BY <1>1, <1>3, <1>6, <1>7, TotalOf

(* A step that adds one trade and moves cash and position by it.           *)
LEMMA BooksOne ==
  ASSUME TypeOK, NEW t, t \notin trades, trades' = trades \cup {t}, t.code \in Codes,
         Flow(t) \in Int, Moved(t) \in Int, cash' = cash + Flow(t),
         held'[t.code].qty = held[t.code].qty + Moved(t),
         \A c \in Codes \ {t.code} : held'[c] = held[c]
  PROVE  Abstract!Booked
  <1> DEFINE new == trades' \ trades
             moved(c) == Abstract!MapThenSumSet(Abstract!ShareFlow, {x \in new : x.code = c})
  <1>1. trades \subseteq trades' /\ new = {t}
    OBVIOUS
  <1>2. cash' = cash + Abstract!MapThenSumSet(Abstract!CashFlow, new)
    <2> HIDE DEF new
    <2> QED
      BY <1>1, FlowOfOne
  <1>3. ASSUME NEW c \in Codes PROVE held'[c].qty = held[c].qty + moved(c)
    <2>1. held[c].qty \in Int
      BY DEF TypeOK
    <2>2. moved(c) = IF t.code = c THEN Moved(t) ELSE 0
      <3> HIDE DEF new
      <3> QED
        BY <1>1, MovedByOne
    <2> HIDE DEF moved
    <2>3. QED
      BY <2>1, <2>2
  <1>4. [c \in Codes |-> held'[c].qty] = [c \in Codes |-> [d \in Codes |-> held[d].qty][c] + moved(c)]
    <2> HIDE DEF moved
    <2> QED
      BY <1>3
  <1>5. new # {}
    BY <1>1
  <1>6. QED
    BY <1>1, <1>2, <1>4, <1>5 DEF Abstract!Booked

LEMMA BookedNext ==
  ASSUME Inv, Inv', Booking, [Next]_vars
  PROVE  Abstract!Booked \/ UNCHANGED <<cash, held, trades>>
  <1>0. TypeOK /\ cash \in Int
    BY DEF Inv, TypeOK
  <1>1. CASE Sell
    <2> DEFINE o == First(SalesToday)
               n == held[o.code].qty
               t == Trade(o, n)
    <2>1. /\ phase = "sell" /\ SalesToday # {} /\ cash' = cash + SellProceeds(o.price, n)
          /\ held' = Without(o.code) /\ trades' = trades \cup {t}
      BY <1>1 DEF Sell
    <2>2. o \in today /\ o.code \in Codes /\ o.price \in Nat /\ n \in Nat /\ ~ single
      BY <2>1, NextSale DEF Inv, Places
    <2>3. o.side = "SELL"
      <3>1. \A p \in SalesToday : p.side = "SELL" /\ p.code \in Codes
        BY DEF SalesToday, Inv, TypeOK
      <3>2. QED
        BY <2>1, <3>1, FirstOf
    <2>4. held'[o.code].qty = 0 /\ \A c \in Codes \ {o.code} : held'[c] = held[c]
      BY <1>0, <2>1, <2>2, WithoutOK DEF None
    <2>5. t.side = "SELL" /\ t.code = o.code /\ t.price = o.price /\ t.quantity = n /\ t.date = date
      BY <2>3 DEF Trade
    <2>6. held[o.code].qty = n
      OBVIOUS
    <2> HIDE DEF o, n, t
    <2>7. t \notin trades
      BY <2>2, <2>5 DEF Booking
    <2>8. Flow(t) = SellProceeds(o.price, n) /\ Moved(t) = - n
      BY <2>5 DEF Flow, Moved
    <2>9. SellProceeds(o.price, n) \in Int
      BY <2>2, SellProceedsType
    <2>10. QED
      BY <1>0, <2>1, <2>2, <2>4, <2>5, <2>6, <2>7, <2>8, <2>9, BooksOne
  <1>2. CASE Buy
    <2>1. ASSUME NEW o \in today, o.code \in Codes, o.price \in Nat \ {0}, NEW n,
                 n = ResolveBuyQuantity(cash, o.price, sizing), Bought(o, n)
          PROVE  Abstract!Booked
      <3> DEFINE t == Trade(o, n)
      <3>1. phase = "buy"
        BY <1>2 DEF Buy
      <3>2. ~ single /\ o.side = "BUY"
        BY <3>1 DEF Inv, Places, Booking
      <3>3. n \in Nat /\ BuyCost(o.price, n) \in Nat
        BY <2>1, Purchase
      <3>4. /\ ~ Held(o.code) /\ cash' = cash - BuyCost(o.price, n) /\ trades' = trades \cup {t}
            /\ held'[o.code].qty = n /\ \A c \in Codes \ {o.code} : held'[c] = held[c]
        BY <2>1 DEF Bought, Inv, TypeOK
      <3>5. held[o.code].qty = 0
        BY <2>1, <3>4 DEF Held, Inv, TypeOK
      <3>6. t.side = "BUY" /\ t.code = o.code /\ t.price = o.price /\ t.quantity = n /\ t.date = date
        BY <3>2 DEF Trade
      <3> HIDE DEF t
      <3>7. t \notin trades
        BY <2>1, <3>2, <3>6 DEF Booking
      <3>8. Flow(t) = - BuyCost(o.price, n) /\ Moved(t) = n
        BY <3>6 DEF Flow, Moved
      <3>9. QED
        BY <1>0, <2>1, <3>3, <3>4, <3>5, <3>6, <3>7, <3>8, BooksOne
    <2>2. QED
      BY <1>2, <2>1, NextBuy
  <1>3. CASE OneTurn
    <2>1. single /\ phase = "bar" /\ FillPrice \in Nat /\ One \in Codes
      BY <1>3, OneTurnStep, OneIsACode
    <2>2. \A side, n : OneTrade(side, n) \notin trades
      <3>1. \A side, n : OneTrade(side, n).decided = date
        BY DEF OneTrade
      <3>2. date \in Nat /\ \A t \in trades : t.decided < date
        BY <2>1, DatesAreNumbers DEF Booking, Inv, TypeOK
      <3>3. QED
        BY <3>1, <3>2
    <2>3. CASE FillPrice > 0 /\ OneBuy
      <3> DEFINE n == ResolveBuyQuantity(cash, FillPrice, sizing)
                 t == OneTrade("BUY", n)
      <3>1. /\ ~ Held(One) /\ cash' = cash - BuyCost(FillPrice, n) /\ trades' = trades \cup {t}
            /\ held'[One].qty = n /\ \A c \in Codes \ {One} : held'[c] = held[c]
        BY <2>1, <2>3 DEF OneBuy, Inv, TypeOK
      <3>2. n \in Nat /\ BuyCost(FillPrice, n) \in Nat
        BY <2>1, <2>3, Purchase
      <3>3. held[One].qty = 0
        BY <2>1, <3>1 DEF Held, Inv, TypeOK
      <3>4. t.side = "BUY" /\ t.code = One /\ t.price = FillPrice /\ t.quantity = n
        BY DEF OneTrade
      <3>5. t \notin trades
        BY <2>2
      <3> HIDE DEF n, t
      <3>6. Flow(t) = - BuyCost(FillPrice, n) /\ Moved(t) = n
        BY <3>4 DEF Flow, Moved
      <3>7. QED
        BY <1>0, <2>1, <3>1, <3>2, <3>3, <3>4, <3>5, <3>6, BooksOne
    <2>4. CASE FillPrice > 0 /\ OneSell
      <3> DEFINE n == held[One].qty
                 t == OneTrade("SELL", n)
      <3>1. /\ cash' = cash + SellProceeds(FillPrice, n) /\ held' = Without(One)
            /\ trades' = trades \cup {t}
        BY <2>4 DEF OneSell
      <3>2. n \in Nat
        BY <1>0, <2>1 DEF TypeOK
      <3>3. held'[One].qty = 0 /\ \A c \in Codes \ {One} : held'[c] = held[c]
        BY <1>0, <2>1, <3>1, WithoutOK DEF None
      <3>4. t.side = "SELL" /\ t.code = One /\ t.price = FillPrice /\ t.quantity = n
        BY DEF OneTrade
      <3>5. t \notin trades /\ held[One].qty = n
        BY <2>2
      <3> HIDE DEF n, t
      <3>6. Flow(t) = SellProceeds(FillPrice, n) /\ Moved(t) = - n
        BY <3>4 DEF Flow, Moved
      <3>7. SellProceeds(FillPrice, n) \in Int
        BY <2>1, <3>2, SellProceedsType
      <3>8. QED
        BY <1>0, <2>1, <3>1, <3>2, <3>3, <3>4, <3>5, <3>6, <3>7, BooksOne
    <2>5. QED
      BY <1>3, <2>3, <2>4, OneTurnStep
  <1>4. QED
    BY <1>1, <1>2, <1>3 DEF Next, vars, DecideNow, TakeQueued, QueueNext, EndSales, EndBuys, Mark, OneEnd

LEMMA LedgerNext ==
  ASSUME Inv, Inv', Booking, CashNeverNegative', [Next]_vars
  PROVE  [\/ Abstract!BookTrades
          \/ Abstract!Booked /\ single /\ sizing.mode = FixedShares]_(Abstract!ledger)
  <1>1. single' = single /\ sizing' = sizing
    BY DEF Next, vars, payload, DecideNow, TakeQueued, QueueNext, Sell, EndSales, Buy, EndBuys,
           Mark, OneTurn, OneEnd
  <1>2. CASE UNCHANGED <<cash, held, trades>>
    BY <1>2 DEF Abstract!ledger
  <1>3. CASE Abstract!Booked /\ cash' >= 0
    <2>1. \A c \in Codes : [d \in Codes |-> held'[d].qty][c] >= 0
      BY DEF Inv, TypeOK
    <2>2. QED
      BY <1>3, <2>1 DEF Abstract!BookTrades
  <1>4. QED
    BY <1>1, <1>2, <1>3, BookedNext DEF CashNeverNegative

(* A backtest of any codes, bars, payload and strategy implements the      *)
(* ledger of the trading core: whoever adds up the trades it reports gets  *)
(* its cash and its positions, fees and taxes included.                    *)
THEOREM BacktestImplementsLedger == OrdinaryBars /\ Spec => MovesByTrades
  <1> SUFFICES ASSUME OrdinaryBars PROVE Spec => MovesByTrades
    OBVIOUS
  <1>1. Init => Abstract!Open
    BY BacktestAssumption DEF Init, Abstract!Open, None
  <1>2. Spec => []Booking
    <2>1. Inv /\ Inv' /\ Booking /\ [Next]_vars => Booking'
      BY BookingNext
    <2>2. QED
      BY <2>1, BookingInit, Invariant, PTL DEF Spec
  <1>3. Spec => []CashNeverNegative
    BY BacktestCashNeverNegative
  <1>4. Inv /\ Inv' /\ Booking /\ CashNeverNegative' /\ [Next]_vars
          => [\/ Abstract!BookTrades
              \/ Abstract!Booked /\ single /\ sizing.mode = FixedShares]_(Abstract!ledger)
    BY LedgerNext
  <1>5. QED
    BY <1>1, <1>2, <1>3, <1>4, Invariant, PTL DEF Spec, MovesByTrades
===============================================================================
