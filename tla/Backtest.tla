-------------------------------- MODULE Backtest --------------------------------
(***************************************************************************)
(* The backtests of backtest_service.py: a simulation over the cached bars *)
(* of a payload's codes.  timing is the execution timing of the strategy:  *)
(*   same_close  a day's signals are filled at the day's close;            *)
(*   next_open   a day's signals are queued for the next bar of their      *)
(*               code and filled at its open.                              *)
(* With several codes each day sells first, then buys in the order of the  *)
(* codes, then takes an equity point.  A backtest of one code (single) has *)
(* engines of its own: loops over the code's bars, which know no limit and *)
(* do not compare a purchase with the cash.                                *)
(*                                                                         *)
(* A strategy is any signal it can give.  The codes are numbers in the     *)
(* order of the payload, without duplicates.  A price of 0 is a missing    *)
(* one, as in the code's "price or 0".  The strategy is asked with the     *)
(* bars up to the current date and no later one.                           *)
(***************************************************************************)
EXTENDS Charges, FiniteSets, FiniteSetsExt

CONSTANTS
  Codes,          \* stock codes, in the order of the payload
  LastDate,       \* bound: the dates are 1 .. LastDate
  StartDate,      \* start of the simulation; earlier bars are history
  MinHistory,     \* minimum_required_history of the strategy
  Markets,        \* the cached bars there can be
  NoBar,          \* the code has no bar that day
  Sizings,        \* sizing of the payload
  Limits,         \* max_open_positions of the payload
  InitialCash

Dates == 1 .. LastDate
Signals == {"BUY", "SELL", "HOLD"}

ASSUME BacktestAssumption ==
  /\ Codes \subseteq Nat /\ IsFiniteSet(Codes) /\ Cardinality(Codes) >= 2
  /\ LastDate \in Nat \ {0} /\ StartDate \in Dates
  /\ \A z \in Sizings : z.mode \in {FixedShares, CashPercent} /\ z.quantity \in Nat /\ z.pct \in 1 .. 100
  /\ MinHistory \in Nat \ {0} /\ Limits \subseteq Nat \ {0} /\ InitialCash \in Nat \ {0}
  /\ \A m \in Markets, c \in Codes, d \in Dates :
       m[c][d] = NoBar \/ (m[c][d].open \in Nat /\ m[c][d].close \in Nat)

VARIABLES
  single, timing, sizing, limit, market,   \* the payload and the bars, fixed
  date, phase,              \* current_date and the place in its loop body
  cash, realized,
  held,                     \* positions; qty 0 is no position
  closes,                   \* last_close_by_code, 0 for none
  queued,                   \* queued_orders
  today,                    \* day_evaluations, or the orders taken for today
  trades,                   \* executed_trades
  equity,                   \* the last equity point
  told                      \* ghost: the sales decided, with the date they are due

payload == <<single, timing, sizing, limit, market>>
vars == <<payload, date, phase, cash, realized, held, closes, queued, today, trades, equity, told>>

-----------------------------------------------------------------------------
(* Bars *)

Bar(c, d) == market[c][d]
HasBar(c, d) == Bar(c, d) # NoBar
LaterBars(c, d) == {e \in Dates : d < e /\ HasBar(c, e)}
Simulated == {d \in Dates : StartDate =< d /\ \E c \in Codes : HasBar(c, d)}

\* A backtest of one code: its code, and the bars its loop runs over.
One == Min(Codes)
OneSimulated == {d \in Dates : /\ StartDate =< d /\ HasBar(One, d)
                               /\ Cardinality({e \in 1 .. d : HasBar(One, e)}) >= MinHistory}

ClosesOn(d) ==
  [c \in Codes |-> IF HasBar(c, d) /\ Bar(c, d).close > 0 THEN Bar(c, d).close ELSE closes[c]]

OpenOr(bar) == IF bar.open > 0 THEN bar.open ELSE bar.close

\* Codes the strategy is asked about on day d.
Evaluated(d) ==
  {c \in Codes : HasBar(c, d) /\ Cardinality({e \in 1 .. d : HasBar(c, e)}) >= MinHistory}

-----------------------------------------------------------------------------
(* Positions *)

None == [qty |-> 0, cost |-> 0, price |-> 0, entry |-> 0]
Held(c) == held[c].qty > 0
OpenCodes == {c \in Codes : Held(c)}

\* The last close of a code, or its entry price while it has none; the engines for
\* one code take a missing close for 0.
MarketPrice(c) == IF closes[c] > 0 \/ single THEN closes[c] ELSE held[c].price

HoldingsValue == MapThenSumSet(LAMBDA c : held[c].qty * MarketPrice(c), OpenCodes)
EntryCosts == MapThenSumSet(LAMBDA c : held[c].cost, OpenCodes)

TypeOK ==
  /\ single \in BOOLEAN /\ timing \in {"same_close", "next_open"} /\ sizing \in Sizings
  /\ limit \in Limits /\ market \in Markets
  /\ date \in Dates
  /\ phase \in {"bar", "open", "sell", "buy", "evaluate", "mark", "end"}
  /\ cash \in Int /\ realized \in Int
  /\ held \in [Codes -> [qty : Nat, cost : Nat, price : Nat, entry : 0 .. LastDate]]
  /\ \A c \in Codes : held[c].qty = 0 => held[c] = None
  /\ closes \in [Codes -> Nat]
  /\ \A o \in queued \cup today : /\ o.code \in Codes /\ o.side \in Signals
                                  /\ o.price \in Nat /\ o.date \in Dates /\ o.decided \in Dates
  /\ \A o, p \in today : o.code = p.code => o = p

Init ==
  /\ single \in BOOLEAN /\ timing \in {"same_close", "next_open"}
  /\ sizing \in Sizings /\ limit \in Limits
  /\ market \in {m \in Markets : \A c \in (IF single THEN {One} ELSE Codes) :
                    /\ Cardinality({d \in Dates : m[c][d] # NoBar}) >= MinHistory
                    /\ \E d \in StartDate .. LastDate : m[c][d] # NoBar}
  /\ date = Min(IF single THEN OneSimulated ELSE Simulated)
  /\ phase = IF single THEN "bar" ELSE "open"
  /\ cash = InitialCash /\ realized = 0 /\ equity = InitialCash
  /\ held = [c \in Codes |-> None]
  /\ closes = [c \in Codes |-> 0]
  /\ queued = {} /\ today = {} /\ trades = {} /\ told = {}

-----------------------------------------------------------------------------
(* Orders: the signals of a day *)

SignalsOf(codes) == [codes -> Signals]

Sales(orders) == {[code |-> o.code, due |-> o.date] : o \in {p \in orders :
                    p.side = "SELL" /\ p.price > 0 /\ Held(p.code)}}

\* same_close: the signals of the day, at its closes.
DecideNow ==
  /\ timing = "same_close" /\ phase = "open"
  /\ closes' = ClosesOn(date)
  /\ \E signal \in SignalsOf(Evaluated(date)) :
       today' = {[code |-> c, side |-> signal[c], price |-> Bar(c, date).close,
                  date |-> date, decided |-> date] : c \in Evaluated(date)}
  /\ told' = told \cup Sales(today')
  /\ phase' = "sell"
  /\ UNCHANGED <<payload, date, cash, realized, held, queued, trades, equity>>

\* next_open: the orders queued for today.
TakeQueued ==
  /\ timing = "next_open" /\ phase = "open"
  /\ today' = {o \in queued : o.date = date}
  /\ queued' = queued \ today'
  /\ phase' = "sell"
  /\ UNCHANGED <<payload, date, cash, realized, held, closes, trades, equity, told>>

(* Mutant: the order is queued for the next day, not for the code's next bar. *)
ExecutionDateTomorrow(c) == date + 1

\* Where a signal of today is filled: the next bar of its code.
ExecutionDate(c) == Min(LaterBars(c, date))

\* next_open: the signals of the day, queued.
QueueNext ==
  LET codes == {c \in Evaluated(date) : LaterBars(c, date) # {}}
      Order(c, side) == [code |-> c, side |-> side, date |-> ExecutionDate(c),
                         price |-> OpenOr(Bar(c, Min(LaterBars(c, date)))), decided |-> date]
  IN
  /\ phase = "evaluate"
  /\ closes' = ClosesOn(date)
  /\ \E signal \in SignalsOf(codes) :
       LET orders == {Order(c, signal[c]) : c \in {x \in codes : signal[x] # "HOLD"}}
           filled == {o \in orders : o.price > 0}
       IN /\ queued' = queued \cup filled
          /\ told' = told \cup Sales(filled)
  /\ phase' = "mark"
  /\ UNCHANGED <<payload, date, cash, realized, held, today, trades, equity>>

-----------------------------------------------------------------------------
(* Fills *)

(* Mutant: the trade reports the lots asked for, not the quantity filled.  *)
TradeAsked(o, quantity) ==
  [code |-> o.code, date |-> date, side |-> o.side, price |-> o.price,
   quantity |-> sizing.quantity, decided |-> o.decided]

Trade(o, quantity) ==
  [code |-> o.code, date |-> date, side |-> o.side, price |-> o.price,
   quantity |-> quantity, decided |-> o.decided]

(* Mutant: the profit forgets the tax.                                     *)
ProfitBeforeTax(o) ==
  SellProceeds(o.price, held[o.code].qty) + Tax(o.price * held[o.code].qty) - held[o.code].cost

Profit(o) == SellProceeds(o.price, held[o.code].qty) - held[o.code].cost

(* Mutant: the loop over the sales ends after the first.                   *)
SalesTodayFirst ==
  {o \in today : /\ o.side = "SELL" /\ Held(o.code) /\ o.price > 0
                 /\ \A t \in trades : t.date = date => t.side # "SELL"}

SalesToday == {o \in today : o.side = "SELL" /\ Held(o.code) /\ o.price > 0}

\* Orders are filled in the order of the codes.
First(orders) == CHOOSE o \in orders : \A p \in orders : o.code =< p.code

(* Mutant: a closed position keeps its entry cost.                         *)
WithoutQuantityOf(c) == [held EXCEPT ![c].qty = 0]

Without(c) == [held EXCEPT ![c] = None]

\* One turn of the loop over the sales, or its end.
Sell ==
  LET next == First(SalesToday)
  IN
  /\ phase = "sell" /\ SalesToday # {}
  /\ cash' = cash + SellProceeds(next.price, held[next.code].qty)
  /\ realized' = realized + Profit(next)
  /\ held' = Without(next.code)
  /\ trades' = trades \cup {Trade(next, held[next.code].qty)}
  /\ today' = today \ {next}
  /\ UNCHANGED <<payload, date, phase, closes, queued, equity, told>>

EndSales ==
  /\ phase = "sell" /\ SalesToday = {}
  /\ today' = {o \in today : o.side = "BUY"}
  /\ phase' = "buy"
  /\ UNCHANGED <<payload, date, cash, realized, held, closes, queued, trades, equity, told>>

(* Mutants: a fill is not compared with the cash; the limit is not checked *)
(* again after a fill.                                                     *)
FitsAnyCash(c, price, quantity) == TRUE
FullNever == FALSE

Fits(c, price, quantity) == BuyCost(price, quantity) =< cash
Full == Cardinality(OpenCodes) >= limit

\* One turn of the loop over the buys, or its end.
Buy ==
  LET next == First(today)
      c == next.code
      quantity == ResolveBuyQuantity(cash, next.price, sizing)
  IN
  /\ phase = "buy" /\ today # {}
  /\ \/ /\ Full
        /\ today' = {}
        /\ UNCHANGED <<cash, held, trades>>
     \/ /\ ~ Full
        /\ Held(c) \/ next.price = 0 \/ quantity = 0 \/ ~ Fits(c, next.price, quantity)
        /\ today' = today \ {next}
        /\ UNCHANGED <<cash, held, trades>>
     \/ /\ ~ Full
        /\ ~ Held(c) /\ next.price > 0 /\ quantity > 0 /\ Fits(c, next.price, quantity)
        /\ cash' = cash - BuyCost(next.price, quantity)
        /\ held' = [held EXCEPT ![c] = [qty |-> quantity, cost |-> BuyCost(next.price, quantity),
                                        price |-> next.price, entry |-> date]]
        /\ trades' = trades \cup {Trade(next, quantity)}
        /\ today' = today \ {next}
  /\ UNCHANGED <<payload, date, phase, realized, closes, queued, equity, told>>

EndBuys ==
  /\ phase = "buy" /\ today = {}
  /\ phase' = IF timing = "next_open" THEN "evaluate" ELSE "mark"
  /\ UNCHANGED <<payload, date, cash, realized, held, closes, queued, today, trades, equity, told>>

\* The equity point, and the next date.
Mark ==
  LET later == {d \in Simulated : date < d}
  IN
  /\ phase = "mark" /\ ~ single
  /\ equity' = cash + HoldingsValue
  /\ IF later = {} THEN phase' = "end" /\ UNCHANGED date
     ELSE phase' = "open" /\ date' = Min(later)
  /\ UNCHANGED <<payload, cash, realized, held, closes, queued, today, trades, told>>

-----------------------------------------------------------------------------
(* The engines for one code                                                *)

\* The bar a signal of today is filled on, and the price.
FillDate == IF timing = "next_open" THEN Min(LaterBars(One, date)) ELSE date
FillPrice == IF timing = "next_open" THEN OpenOr(Bar(One, FillDate)) ELSE Bar(One, date).close

OneTrade(side, quantity) ==
  [code |-> One, date |-> FillDate, side |-> side, price |-> FillPrice,
   quantity |-> quantity, decided |-> date]

OneBuy ==
  LET quantity == ResolveBuyQuantity(cash, FillPrice, sizing)
  IN
  /\ ~ Held(One) /\ quantity > 0
  /\ cash' = cash - BuyCost(FillPrice, quantity)
  /\ held' = [held EXCEPT ![One] = [qty |-> quantity, cost |-> BuyCost(FillPrice, quantity),
                                   price |-> FillPrice, entry |-> FillDate]]
  /\ trades' = trades \cup {OneTrade("BUY", quantity)}
  /\ UNCHANGED realized

OneSell ==
  /\ Held(One)
  /\ cash' = cash + SellProceeds(FillPrice, held[One].qty)
  /\ realized' = realized + Profit([code |-> One, price |-> FillPrice])
  /\ held' = Without(One)
  /\ trades' = trades \cup {OneTrade("SELL", held[One].qty)}

\* One turn of the loop: the signal is filled at once, though next_open dates the
\* fill on the next bar, and the equity point is today's.  Without a price for the
\* fill the turn is skipped.  After the last bar the final equity is taken.
OneTurn ==
  LET more == timing = "same_close" \/ LaterBars(One, date) # {}
  IN
  /\ phase = "bar" /\ more
  /\ \/ /\ FillPrice = 0
        /\ UNCHANGED <<cash, realized, held, closes, trades, equity>>
     \/ /\ FillPrice > 0
        /\ OneBuy \/ OneSell \/ UNCHANGED <<cash, realized, held, trades>>
        /\ closes' = [closes EXCEPT ![One] = Bar(One, date).close]
        /\ equity' = cash' + held'[One].qty * closes'[One]
  /\ IF LaterBars(One, date) = {} THEN phase' = "mark" /\ UNCHANGED date
     ELSE phase' = phase /\ date' = Min(LaterBars(One, date))
  /\ UNCHANGED <<payload, queued, today, told>>

OneEnd ==
  /\ single
  /\ phase = "mark" \/ (phase = "bar" /\ timing = "next_open" /\ LaterBars(One, date) = {})
  /\ closes' = [closes EXCEPT ![One] = Bar(One, date).close]
  /\ equity' = cash + held[One].qty * closes'[One]
  /\ phase' = "end"
  /\ UNCHANGED <<payload, date, cash, realized, held, queued, today, trades, told>>

Next ==
  \/ DecideNow \/ TakeQueued \/ QueueNext \/ Sell \/ EndSales \/ Buy \/ EndBuys \/ Mark
  \/ OneTurn \/ OneEnd

Spec == Init /\ [][Next]_vars

-----------------------------------------------------------------------------
(* A backtest never spends cash it does not have, but for a fixed number   *)
(* of shares in the engines for one code, which spend it unchecked         *)
(* (backtest_service.py:168-172, 302-306, against 488).                    *)
CashNeverNegative == cash >= 0 \/ (single /\ sizing.mode = FixedShares)

(* It never holds more positions than the payload allows, also when        *)
(* several signals of a day are filled one after the other.                *)
WithinLimit == Cardinality(OpenCodes) =< limit

(* Every equity point is explained: it is the initial cash, the profits of *)
(* the closed trades and the unrealised gain of the open positions.        *)
EquityExplained ==
  phase \in {"bar", "open", "end"} => equity = InitialCash + realized + HoldingsValue - EntryCosts

(* No look-ahead: a trade happens on a day its code has a bar, at a price  *)
(* of this bar: its close, decided the same day, or its open, decided on   *)
(* the last bar of the code before it.                                     *)
NoLookAhead ==
  \A t \in trades :
    /\ HasBar(t.code, t.date)
    /\ timing = "same_close" => t.price = Bar(t.code, t.date).close /\ t.decided = t.date
    /\ timing = "next_open" => /\ t.price = OpenOr(Bar(t.code, t.date))
                               /\ t.date = Min(LaterBars(t.code, t.decided))

(* A sale that was decided is made: after the day it is due the position   *)
(* is closed (or one that was bought again later).                         *)
SalesHonoured ==
  \A s \in told : (s.due < date \/ (s.due = date /\ phase \in {"mark", "end"}))
                    => ~ Held(s.code) \/ held[s.code].entry >= s.due

(* The trades a backtest reports are the whole story of its cash and its   *)
(* positions: every step that moves one of them books one new trade, and   *)
(* moves them by what this trade says.  Cash and quantities cover it, but  *)
(* for a fixed number of shares of one code.  So a backtest does to its    *)
(* portfolio what the trading core does to the account, except that it is  *)
(* never replaced.                                                         *)
Abstract ==
  INSTANCE Ledger WITH Portfolios <- {},
                       qty <- [c \in Codes |-> held[c].qty]
MovesByTrades ==
  /\ Abstract!Open
  /\ [][\/ Abstract!BookTrades
        \/ Abstract!Booked /\ single /\ sizing.mode = FixedShares]_(Abstract!ledger)
=================================================================================
