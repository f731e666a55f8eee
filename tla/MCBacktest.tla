------------------------------ MODULE MCBacktest ------------------------------
(***************************************************************************)
(* Two codes, three dates and a date of history before them (the second    *)
(* code has none, so it is asked about from its second bar on).  With a    *)
(* fee and a tax of 1/20 a share at 10 costs 11 and one at 20 costs 21:    *)
(* from 40 both codes can be bought, but not both at 20.  A code           *)
(* may miss a day, both may miss the same one, and a bar may lack its open *)
(* or its close.                                                           *)
(***************************************************************************)
EXTENDS Backtest

B(o, c) == [open |-> o, close |-> c]

Bars1 == {B(10, 20), B(20, 10), NoBar}
Bars2 == {B(10, 0), B(0, 20), NoBar}

MCMarkets ==
  { <<<<B(10, 10), a, b, c>>, <<NoBar, x, y, z>>>> :
      <<a, b, c, x, y, z>> \in
        {B(10, 10)} \X Bars1 \X {B(10, 10), B(20, 20)}
          \X {B(10, 10), NoBar} \X Bars2 \X (Bars2 \ {NoBar}) }

OneLot == [mode |-> FixedShares, quantity |-> 1, pct |-> 10]
AllCash == [mode |-> CashPercent, quantity |-> 1, pct |-> 100]
MCSizings == {OneLot, AllCash}
================================================================================
