------------------------------- MODULE Charges -------------------------------
(***************************************************************************)
(* The money arithmetic every order goes through: the brokerage fee and    *)
(* the transaction tax (app/utils/fees.py), what a fill costs or brings    *)
(* in (order_service.py), and the quantity a buy signal is sized to        *)
(* (position_sizing_service.py).  Pure operators, no state.                *)
(*                                                                         *)
(* Amounts are integers counted in 1/Unit of a dollar, so that the floors  *)
(* of the code, which round to whole dollars, are visible: with Unit = 1   *)
(* a price has no cents, with Unit = 10 a price of 5 is half a dollar.     *)
(* Rates are fractions with the common denominator RateDen.                *)
(***************************************************************************)
EXTENDS Integers

CONSTANTS
  Unit,       \* sub-units of a dollar
  FeeNum,     \* default_fee_rate = FeeNum / RateDen
  TaxNum,     \* default_tax_rate = TaxNum / RateDen
  RateDen,
  LotSize     \* default_lot_size

(* What Settings validates (ge=0 on both rates), plus a lot of at least    *)
(* one share, which resolve_buy_quantity itself insists on.                *)
ASSUME ChargesAssumption ==
  /\ Unit \in Nat \ {0}
  /\ RateDen \in Nat \ {0}
  /\ FeeNum \in Nat
  /\ TaxNum \in Nat
  /\ LotSize \in Nat \ {0}

FixedShares == "fixed_shares"
CashPercent == "cash_percent"

-----------------------------------------------------------------------------

(* max(floor(amount * fee_rate), 1) dollars.                               *)
Fee(amount) ==
  LET dollars == (amount * FeeNum) \div (RateDen * Unit)
  IN  Unit * (IF dollars >= 1 THEN dollars ELSE 1)

(* floor(amount * tax_rate) dollars, charged on sales only.                *)
Tax(amount) == Unit * ((amount * TaxNum) \div (RateDen * Unit))

(* What a buy takes from the available cash.                               *)
BuyCost(price, quantity) == price * quantity + Fee(price * quantity)

(* What a sale adds to it; below the minimum fee this is negative.         *)
SellProceeds(price, quantity) ==
  price * quantity - Fee(price * quantity) - Tax(price * quantity)

-----------------------------------------------------------------------------

(* The test of the sizing loop: the cost fits the cash and the budget,     *)
(* which is pct percent of the cash.                                       *)
Affordable(cash, price, pct, quantity) ==
  /\ BuyCost(price, quantity) <= cash
  /\ 100 * BuyCost(price, quantity) <= cash * pct

(* Where the sizing loop starts: floor(budget / price).                    *)
Ceiling(cash, price, pct) == (cash * pct) \div (100 * price)

(* resolve_buy_quantity.  It never returns 0, so 0 stands for its error.   *)
ResolveBuyQuantity(cash, price, sizing) ==
  IF price <= 0
  THEN 0
  ELSE IF sizing.mode = FixedShares
  THEN IF sizing.quantity > 0 /\ sizing.quantity % LotSize = 0
       THEN sizing.quantity ELSE 0
  ELSE IF sizing.pct <= 0 \/ sizing.pct > 100
  THEN 0
  ELSE LET fits == { q \in 1 .. Ceiling(cash, price, sizing.pct) :
                       Affordable(cash, price, sizing.pct, q) }
       IN  IF fits = {} THEN 0
           ELSE CHOOSE q \in fits : \A r \in fits : r <= q
=============================================================================
