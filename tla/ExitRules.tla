------------------------------- MODULE ExitRules -------------------------------
(***************************************************************************)
(* The life of a position under an automated strategy: the run of a        *)
(* morning decides on the bars that are cached, on the average cost of the *)
(* position and on its entry date, which strategy_service.py takes from    *)
(* the latest BUY trade of the code.  Bars come late or not at all, the    *)
(* user may start a run at any hour, change the strategy and import        *)
(* another position (portfolio_service.py), which writes no trade and      *)
(* deletes none.                                                           *)
(*                                                                         *)
(* One code, one user.  Indicators are any: a run finds the trend strong   *)
(* or weak as it likes, and an average true range of Atrs.  What the exits *)
(* need is kept: closes, cost, entry date, holding days, stops, the order  *)
(* of the rules.  The code has the history its strategies ask for.         *)
(***************************************************************************)
EXTENDS Integers, Sequences, FiniteSets, FiniteSetsExt

CONSTANTS
  LastDay,       \* bound: the days are 1 .. LastDay, 1 stands for the history
  Weekend,       \* days without trading
  Prices,        \* closes, fills and imported costs
  Commission,    \* the fee of a bought share, part of its average cost
  Atrs,          \* average true ranges
  KeepPct,       \* 100 less initial_stop_pct
  MaxHold        \* max_holding_days of each strategy with one

Breakout == "tw_momentum_breakout_long"
OpenMomentum == "tw_daily_open_momentum_long"
Rsi2 == "connors_rsi2_long"
Hybrid == "hybrid_tw_strategy"
Strategies == {Breakout, OpenMomentum, Rsi2, Hybrid}
Days == 1 .. LastDay
NoDate == 0

ASSUME ExitAssumption ==
  /\ LastDay \in Nat /\ LastDay >= 2 /\ Weekend \subseteq 2 .. LastDay
  /\ Prices \subseteq Nat \ {0} /\ Commission \in Nat /\ Atrs \subseteq Nat
  /\ KeepPct \in 0 .. 100 /\ MaxHold \in [Strategies \ {Hybrid} -> Nat \ {0}]

VARIABLES
  day,
  close,       \* the published closes; 0 for none
  bars,        \* days whose bar is in daily_prices
  strategy,    \* of the automation config
  pos,         \* the position; price is avg_cost; since and bought are ghosts:
               \* the day it was opened or imported, whether a strategy did
  lastBuy,     \* date of the latest BUY trade
  run          \* the run just made, its reason and the position it found

vars == <<day, close, bars, strategy, pos, lastBuy, run>>

Flat == [price |-> 0, since |-> NoDate, bought |-> FALSE]
NoRun == [reason |-> "none", atr |-> 0, found |-> Flat]
Held == pos.price > 0
Published == {d \in Days : close[d] > 0}
Closed == day \in Published \cup Weekend

Positions == [price : Nat \ {0}, since : 2 .. day, bought : BOOLEAN]

\* The latest BUY trade is that of the position, if a strategy bought it.
EntryDated == pos.bought => lastBuy \in {pos.since - 1, pos.since}

TypeOK ==
  /\ day \in 2 .. LastDay /\ strategy \in Strategies /\ lastBuy \in {NoDate} \cup Days
  /\ close \in [Days -> Prices \cup {0}]
  /\ Published = (1 .. day - 1) \ Weekend \/ Published = (1 .. day) \ Weekend
  /\ bars \subseteq Published /\ bars # {}
  /\ {pos, run.found} \subseteq {Flat} \cup Positions
  /\ EntryDated

Init ==
  /\ day = 2 /\ \E p \in Prices : close = [d \in Days |-> IF d = 1 THEN p ELSE 0]
  /\ bars = {1} /\ strategy = Rsi2
  /\ pos = Flat /\ lastBuy = NoDate /\ run = NoRun

-----------------------------------------------------------------------------
(* What a run knows                                                        *)

LastClose == close[Max(bars)]
BarsFrom(date) == {d \in bars : date # NoDate /\ date =< d}

(* Mutants: the day of the purchase counts, or the day after it does not.  *)
HoldingDaysFromEntry == Cardinality(BarsFrom(lastBuy))
HoldingDaysLate == Cardinality(BarsFrom(lastBuy)) - 2

HoldingDays == Max({Cardinality(BarsFrom(lastBuy)) - 1, 0})

HighestClose == Max({close[d] : d \in BarsFrom(lastBuy)})

\* The stops there are, of which the highest protects.
Stops(atr) ==
  LET trailing == IF BarsFrom(lastBuy) = {} THEN {} ELSE {HighestClose - (5 * atr) \div 2}
      initial == {pos.price - 2 * atr}
      fixed == {(pos.price * KeepPct) \div 100}
  IN CASE strategy = Breakout -> IF trailing = {} THEN {} ELSE trailing \cup initial
       [] strategy = OpenMomentum -> trailing \cup initial \cup fixed
       [] OTHER -> {}

Stopped(atr) == \E stop \in Stops(atr) : LastClose < stop

\* The exits of a strategy that looks at the position, in the order it tries them.
Ladder ==
  CASE strategy = Breakout -> <<"weak", "stop", "time">>
    [] strategy = OpenMomentum -> <<"stop", "weak", "time">>
    [] strategy = Rsi2 -> <<"weak", "profit", "time">>

Applies(rule, weak, atr) ==
  CASE rule = "weak" -> weak
    [] rule = "stop" -> Stopped(atr)
    [] rule = "profit" -> LastClose > pos.price
    [] rule = "time" -> HoldingDays >= MaxHold[strategy]

\* The hybrid strategy does not look at the position.
HybridReason(strong, weak) ==
  IF strong THEN "entry" ELSE IF weak THEN "weak" ELSE "wait"

\* The reason of the signal.
Reason(strong, weak, atr) ==
  LET exits == {i \in DOMAIN Ladder : Applies(Ladder[i], weak, atr)}
  IN CASE strategy = Hybrid -> HybridReason(strong, weak)
       [] strategy # Hybrid /\ Held /\ exits # {} -> Ladder[Min(exits)]
       [] strategy # Hybrid /\ Held /\ exits = {} -> "hold"
       [] OTHER -> IF strong THEN "entry" ELSE "wait"

-----------------------------------------------------------------------------
(* Steps                                                                   *)

(* Mutant: a sold position keeps its dates.                                *)
AfterSaleKeepsDates == [pos EXCEPT !.price = 0]

AfterSale == Flat

Exits == {"weak", "stop", "profit", "time"}

\* What the signal does to the position.  The order of a signal may fail or be
\* skipped: no quote, no cash, no place.  A trade is dated by the clock of the
\* database (UTC): before eight in the morning that is the day before.
Execute(reason, dates) ==
  \/ /\ reason = "entry" /\ ~ Held
     /\ \E price \in Prices, date \in dates :
          /\ lastBuy =< date
          /\ lastBuy' = date
          /\ pos' = [price |-> price + Commission, since |-> day, bought |-> TRUE]
  \/ reason \in Exits /\ Held /\ pos' = AfterSale /\ UNCHANGED lastBuy
  \/ UNCHANGED <<pos, lastBuy>>

Run(dates) ==
  /\ \E strong, weak \in BOOLEAN, atr \in Atrs :
       LET reason == Reason(strong, weak, atr)
       IN /\ run' = [reason |-> reason, atr |-> atr, found |-> pos]
          /\ Execute(reason, dates)
  /\ UNCHANGED <<day, close, bars, strategy>>

\* The job of 9:30, and a run the user starts at any hour.
Automation == day \notin Weekend /\ ~ Closed /\ Run({day})
ManualRun == Run(IF Closed /\ day \notin Weekend THEN {day} ELSE {day - 1, day})

Close ==
  /\ ~ Closed
  /\ \E p \in Prices : close' = [close EXCEPT ![day] = p]
  /\ run' = NoRun
  /\ UNCHANGED <<day, bars, strategy, pos, lastBuy>>

\* A batch leaves no gap in the past; today's bar it may skip.
Sync ==
  /\ bars' \in {bars \cup (Published \ {day}), Published}
  /\ run' = NoRun
  /\ UNCHANGED <<day, close, strategy, pos, lastBuy>>

NextDay ==
  /\ Closed /\ day < LastDay
  /\ day' = day + 1
  /\ run' = NoRun
  /\ UNCHANGED <<close, bars, strategy, pos, lastBuy>>

\* update_config: the position stays, its exits change.
Configure ==
  /\ strategy' \in Strategies
  /\ run' = NoRun
  /\ UNCHANGED <<day, close, bars, pos, lastBuy>>

\* The bootstrap deletes the position and stores that of the form, which is the
\* same one saved again, or one the user has bought elsewhere; the trades it leaves.
Import ==
  LET since == IF Held THEN pos.since ELSE day
  IN /\ pos' \in {Flat} \cup [price : Prices, since : {since}, bought : {pos.bought}]
     /\ run' = NoRun
     /\ UNCHANGED <<day, close, bars, strategy, lastBuy>>

Next == Automation \/ ManualRun \/ Close \/ Sync \/ NextDay \/ Configure \/ Import

Spec == Init /\ [][Next]_vars

-----------------------------------------------------------------------------
(* Properties                                                              *)

\* Closes of the days since a position was opened, as far as they are cached.
Age(p) == Cardinality({d \in bars : p.since =< d})

(* A run that keeps a position a strategy bought keeps it rightly: it has  *)
(* not lived through its days, and once it has seen a close its last close *)
(* is not under the stop of its cost (strategies/*.py and the entry date   *)
(* of strategy_service.py:312-335).                                        *)
KeptRightly ==
  run.reason = "hold" /\ pos.bought =>
    /\ Age(pos) =< MaxHold[strategy]
    /\ strategy \in {Breakout, OpenMomentum} /\ Age(pos) > 0
         => ~ (LastClose < pos.price - 2 * run.atr)

(* A position a strategy bought is not sold for its holding days before    *)
(* its code has had that many closes since, that of the day of purchase    *)
(* among them: the strategies count from the day after it, but a purchase  *)
(* before eight in the morning is dated the day before.                    *)
BoughtHeldThatLong ==
  run.reason = "time" /\ run.found.bought => Age(run.found) >= MaxHold[strategy]

(* The same of every position, as the reason max_hold_20_days says it: a   *)
(* position is not sold for the days of another one sold before it.        *)
HeldThatLong == run.reason = "time" => Age(run.found) >= MaxHold[strategy]
================================================================================
