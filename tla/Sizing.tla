-------------------------------- MODULE Sizing --------------------------------
(***************************************************************************)
(* The loop of resolve_buy_quantity (position_sizing_service.py), one      *)
(* iteration a step, for a cash_percent request: it starts at              *)
(* floor(budget / price) and counts down until the total cost, fee         *)
(* included, fits both the cash and the budget.                            *)
(***************************************************************************)
EXTENDS Charges

CONSTANTS
  CashValues,   \* available cash at the call
  PriceValues,  \* preview prices, zero and below included
  PctValues     \* cash_allocation_pct

ASSUME SizingAssumption ==
  /\ CashValues \subseteq Nat
  /\ PriceValues \subseteq Int
  /\ PctValues \subseteq Int

VARIABLES
  cash, price, pct,   \* the arguments
  phase,              \* "check", "search", "returned" or "raised"
  quantity            \* the local variable of that name

vars == <<cash, price, pct, phase, quantity>>

TypeOK ==
  /\ cash \in CashValues
  /\ price \in PriceValues
  /\ pct \in PctValues
  /\ phase \in {"check", "search", "returned", "raised"}
  /\ quantity \in Nat

Init ==
  /\ cash \in CashValues
  /\ price \in PriceValues
  /\ pct \in PctValues
  /\ phase = "check"
  /\ quantity = 0

(* The early raises: no valid price, or a percentage out of (0, 100].      *)
Reject ==
  /\ phase = "check"
  /\ price <= 0 \/ pct <= 0 \/ pct > 100
  /\ phase' = "raised"
  /\ UNCHANGED <<cash, price, pct, quantity>>

StartSearch ==
  /\ phase = "check"
  /\ price > 0 /\ pct > 0 /\ pct <= 100
  /\ quantity' = Ceiling(cash, price, pct)
  /\ phase' = "search"
  /\ UNCHANGED <<cash, price, pct>>

(* Mutant: only the cash is compared with the cost, not the budget.        *)
ReturnOverBudget ==
  /\ phase = "search" /\ quantity > 0
  /\ BuyCost(price, quantity) <= cash
  /\ phase' = "returned"
  /\ UNCHANGED <<cash, price, pct, quantity>>

Return ==
  /\ phase = "search" /\ quantity > 0
  /\ Affordable(cash, price, pct, quantity)
  /\ phase' = "returned"
  /\ UNCHANGED <<cash, price, pct, quantity>>

(* Mutants: the search steps over every other quantity, or never moves.    *)
DecrementByTwo ==
  /\ phase = "search" /\ quantity > 0
  /\ ~ Affordable(cash, price, pct, quantity)
  /\ quantity' = quantity - 2
  /\ UNCHANGED <<cash, price, pct, phase>>

DecrementByNone ==
  /\ phase = "search" /\ quantity > 0
  /\ ~ Affordable(cash, price, pct, quantity)
  /\ UNCHANGED vars

Decrement ==
  /\ phase = "search" /\ quantity > 0
  /\ ~ Affordable(cash, price, pct, quantity)
  /\ quantity' = quantity - 1
  /\ UNCHANGED <<cash, price, pct, phase>>

GiveUp ==
  /\ phase = "search" /\ quantity <= 0
  /\ phase' = "raised"
  /\ UNCHANGED <<cash, price, pct, quantity>>

Next == Reject \/ StartSearch \/ Return \/ Decrement \/ GiveUp

Spec == Init /\ [][Next]_vars /\ WF_vars(Next)

-----------------------------------------------------------------------------

(* Every number of shares worth comparing with: a share costs at least one *)
(* unit, so more shares than units of cash are never affordable.           *)
Quantities == 1 .. cash + 1

(* The quantity returned is the largest number of shares whose cost, fee   *)
(* included, stays within the percentage of the cash: no share is left     *)
(* unbought and the budget is never exceeded.  The comparison is over all  *)
(* quantities, not over the ones the loop happened to visit.               *)
LargestAffordable ==
  phase = "returned" =>
    /\ Affordable(cash, price, pct, quantity)
    /\ \A more \in Quantities :
         more > quantity => ~ Affordable(cash, price, pct, more)

(* The loop raises only when not even one share, and no larger number of   *)
(* them, can be bought.                                                    *)
RaisesOnlyWhenNothingFits ==
  phase = "raised" /\ price > 0 /\ pct \in 1 .. 100 =>
    \A q \in Quantities : ~ Affordable(cash, price, pct, q)

(* The step-by-step loop computes what Charges promises of it, which is    *)
(* what the trading model uses in its place.                               *)
ReturnsWhatChargesSays ==
  phase \in {"returned", "raised"} =>
    ResolveBuyQuantity(cash, price,
        [mode |-> CashPercent, quantity |-> 0, pct |-> pct])
      = IF phase = "returned" THEN quantity ELSE 0

(* The loop ends, whatever the arguments.                                  *)
Terminates == <>(phase \in {"returned", "raised"})
=============================================================================
