------------------------------- MODULE MCTrading -------------------------------
(***************************************************************************)
(* Small instances of Trading.  With a fee of 1/10 and a tax of 1/20, a    *)
(* share at 10 costs 11 and one at 20 costs 22; an account opened with 30  *)
(* can buy at 10 twice or at 20 once, and a preview at 10 followed by a    *)
(* fill at 20 can be too expensive.                                        *)
(***************************************************************************)
EXTENDS Trading, TLC

MCPrices == {10, 20}

OneLot == [mode |-> FixedShares, quantity |-> 1, pct |-> 10]
AllCash == [mode |-> CashPercent, quantity |-> 1, pct |-> 100]
SixtyPercent == [mode |-> CashPercent, quantity |-> 1, pct |-> 60]

Shares(q, avg) == [qty |-> q, avg |-> avg, price |-> 20]
NotHeld == [qty |-> 0, avg |-> 0, price |-> 0]

(* A payload that empties the portfolio and keeps the opening cash, as a   *)
(* user who saves the form again, and one that brings a position.          *)
Empty == [cash |-> OpeningCash, rows |-> [c \in Codes |-> NotHeld]]
Holding ==
  { [cash |-> 15, rows |-> [c \in Codes |-> IF c = d THEN Shares(2, 5) ELSE NotHeld]]
      : d \in Codes }

(* 60 % of 30 buys one share at 10 and none at 20; of the 19 that are left *)
(* it buys one more at 10, whose fill at 20 the cash no longer pays for.   *)
OneSizing == {SixtyPercent}
MCSizings == {OneLot, AllCash}
MCImports == {Empty} \cup Holding

(* Codes are interchangeable: nothing orders them.                         *)
CodeSymmetry == Permutations(Codes)
=============================================================================
