-------------------------------- MODULE Ledger --------------------------------
(***************************************************************************)
(* What the trading core promises, without sessions, locks or columns: a   *)
(* portfolio that changes in two ways only.  Either a set of trades is     *)
(* booked, all of it or nothing, and the cash and the quantities move by   *)
(* exactly what those trades say; or the portfolio is replaced.            *)
(* Trading implements this when the database has a write lock, Backtest    *)
(* without a replacement.                                                  *)
(***************************************************************************)
EXTENDS Charges, FiniteSets, FiniteSetsExt

CONSTANTS Codes, Portfolios   \* Portfolios: the [cash, qty] that can be put

VARIABLES cash, qty, trades

ledger == <<cash, qty, trades>>

(* What a trade does to the cash and to the quantity held.                 *)
CashFlow(t) ==
  IF t.side = "BUY" THEN - BuyCost(t.price, t.quantity)
                    ELSE SellProceeds(t.price, t.quantity)
ShareFlow(t) == IF t.side = "BUY" THEN t.quantity ELSE - t.quantity

Open ==
  /\ cash \in Nat
  /\ qty = [c \in Codes |-> 0]
  /\ trades = {}

(* The portfolio moves by what the new trades say, and by nothing else.    *)
Booked ==
  LET new == trades' \ trades IN
  /\ trades \subseteq trades' /\ new # {}
  /\ cash' = cash + MapThenSumSet(CashFlow, new)
  /\ qty' = [c \in Codes |->
       qty[c] + MapThenSumSet(ShareFlow, { t \in new : t.code = c })]

(* Book new trades.  Nobody sells what is not there or spends what is not  *)
(* there.                                                                  *)
BookTrades ==
  /\ Booked
  /\ cash' >= 0
  /\ \A c \in Codes : qty'[c] >= 0

(* Replace the portfolio; the history of trades stays.                     *)
Replace ==
  /\ trades' = trades
  /\ [cash |-> cash', qty |-> qty'] \in Portfolios

LedgerSpec == Open /\ [][BookTrades \/ Replace]_ledger
=============================================================================
