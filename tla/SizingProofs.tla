----------------------------- MODULE SizingProofs -----------------------------
(***************************************************************************)
(* Proofs about the sizing loop, for every cash, price, percentage, fee    *)
(* rate and lot size.  The inductive invariant is that no quantity above   *)
(* the loop variable is affordable: the start value makes it true, because *)
(* even without its fee a larger quantity would exceed the budget, and     *)
(* each decrement steps over exactly one quantity it has just refused.     *)
(***************************************************************************)
EXTENDS Sizing, ChargesProofs

(* A quantity above the start of the loop does not fit the budget even     *)
(* before its fee.                                                         *)
LEMMA AboveCeiling ==
  ASSUME NEW c \in Nat, NEW p \in Nat \ {0}, NEW r \in Nat,
         NEW q \in Nat, q > Ceiling(c, p, r)
  PROVE  ~ Affordable(c, p, r, q)
  <1> DEFINE budget == c * r
  <1> DEFINE unit == 100 * p
  <1> DEFINE k == budget \div unit
  <1>1. budget \in Nat /\ unit \in Nat \ {0} /\ p * q \in Nat
    OBVIOUS
  <1>2. k \in Nat /\ budget < unit * (k + 1)
    BY <1>1, Division
  <1>3. k + 1 <= q
    BY <1>2 DEF Ceiling
  <1>4. unit * (k + 1) <= unit * q
    <2>1. \A u, x, y \in Nat : x <= y => u * x <= u * y
      OBVIOUS
    <2>2. QED
      BY <1>1, <1>2, <1>3, <2>1
  <1>5. unit * q = 100 * (p * q)
    OBVIOUS
  <1>6. budget < 100 * (p * q)
    BY <1>1, <1>2, <1>4, <1>5
  <1>7. Fee(p * q) \in Nat
    BY <1>1, FeeType
  <1>8. QED
    BY <1>1, <1>6, <1>7 DEF Affordable, BuyCost

-----------------------------------------------------------------------------

(* The loop has refused every quantity above the one it looks at.          *)
Searched ==
  phase \in {"search", "returned"} =>
    /\ price > 0 /\ pct \in 1 .. 100
    /\ quantity <= Ceiling(cash, price, pct)
    /\ \A q \in Nat : q > quantity => ~ Affordable(cash, price, pct, q)

Found ==
  phase = "returned" => quantity > 0 /\ Affordable(cash, price, pct, quantity)

Nothing ==
  phase = "raised" /\ price > 0 /\ pct \in 1 .. 100 =>
    \A q \in Nat : q > 0 => ~ Affordable(cash, price, pct, q)

SizingInv == TypeOK /\ Searched /\ Found /\ Nothing

LEMMA SizingInvInit == Init => SizingInv
  BY DEF Init, SizingInv, TypeOK, Searched, Found, Nothing

LEMMA SizingInvNext == SizingInv /\ [Next]_vars => SizingInv'
  <1> SUFFICES ASSUME SizingInv, [Next]_vars
               PROVE  SizingInv'
    OBVIOUS
  <1> USE SizingAssumption DEF SizingInv, TypeOK
  <1>1. CASE Reject
    BY <1>1 DEF Reject, Searched, Found, Nothing
  <1>2. CASE StartSearch
    <2>1. cash \in Nat /\ price \in Nat \ {0} /\ pct \in 1 .. 100
      BY <1>2 DEF StartSearch
    <2>2. Ceiling(cash, price, pct) \in Nat
      <3>1. cash * pct \in Nat /\ 100 * price \in Nat \ {0}
        BY <2>1
      <3>2. QED
        BY <3>1, Division DEF Ceiling
    <2>3. \A q \in Nat : q > Ceiling(cash, price, pct)
                            => ~ Affordable(cash, price, pct, q)
      BY <2>1, AboveCeiling
    <2>4. QED
      BY <1>2, <2>1, <2>2, <2>3 DEF StartSearch, Searched, Found, Nothing
  <1>3. CASE Return
    BY <1>3 DEF Return, Searched, Found, Nothing
  <1>4. CASE Decrement
    <2>1. quantity - 1 \in Nat
      BY <1>4 DEF Decrement
    <2>2. Ceiling(cash, price, pct) \in Nat
      <3>1. cash * pct \in Nat /\ 100 * price \in Nat \ {0}
        BY <1>4 DEF Decrement, Searched
      <3>2. QED
        BY <3>1, Division DEF Ceiling
    <2>3. ASSUME NEW q \in Nat, q > quantity - 1
          PROVE  ~ Affordable(cash, price, pct, q)
      <3>1. q = quantity \/ q > quantity
        BY <2>3
      <3>2. QED
        BY <1>4, <3>1 DEF Decrement, Searched
    <2>4. QED
      BY <1>4, <2>1, <2>2, <2>3 DEF Decrement, Searched, Found, Nothing
  <1>5. CASE GiveUp
    BY <1>5 DEF GiveUp, Searched, Found, Nothing
  <1>6. CASE UNCHANGED vars
    BY <1>6 DEF vars, Searched, Found, Nothing
  <1>7. QED
    BY <1>1, <1>2, <1>3, <1>4, <1>5, <1>6 DEF Next

LEMMA SizingInvariant == Spec => []SizingInv
  BY SizingInvInit, SizingInvNext, PTL DEF Spec

-----------------------------------------------------------------------------

(* resolve_buy_quantity returns the largest quantity the budget and the    *)
(* cash allow, fee included.                                               *)
THEOREM SizingLargest == Spec => []LargestAffordable
  <1>1. SizingInv => LargestAffordable
    BY SizingAssumption
    DEF SizingInv, TypeOK, Searched, Found, LargestAffordable, Quantities
  <1>2. QED
    BY <1>1, SizingInvariant, PTL

(* It raises only when no positive quantity at all is affordable.          *)
THEOREM SizingRaises == Spec => []RaisesOnlyWhenNothingFits
  <1>1. SizingInv => RaisesOnlyWhenNothingFits
    BY SizingAssumption
    DEF SizingInv, TypeOK, Nothing, RaisesOnlyWhenNothingFits, Quantities
  <1>2. QED
    BY <1>1, SizingInvariant, PTL

(* The loop and the closed form used by the trading model agree.           *)
THEOREM SizingClosedForm == Spec => []ReturnsWhatChargesSays
  <1>1. ASSUME SizingInv PROVE ReturnsWhatChargesSays
    <2> DEFINE sizing == [mode |-> CashPercent, quantity |-> 0, pct |-> pct]
    <2> DEFINE fits == { q \in 1 .. Ceiling(cash, price, pct) :
                           Affordable(cash, price, pct, q) }
    <2> USE <1>1 DEF SizingInv, TypeOK
    <2>0. sizing.mode # FixedShares /\ sizing.pct = pct
      BY DEF CashPercent, FixedShares
    <2>1. CASE phase = "returned"
      <3>1. price > 0 /\ pct \in 1 .. 100
        BY <2>1 DEF Searched
      <3>2. quantity \in fits /\ \A q \in fits : q <= quantity
        <4>1. Ceiling(cash, price, pct) \in Nat
          <5>1. cash * pct \in Nat /\ 100 * price \in Nat \ {0}
            BY <3>1, SizingAssumption
          <5>2. QED
            BY <5>1, Division DEF Ceiling
        <4>2. quantity \in fits
          BY <2>1, <4>1 DEF Searched, Found
        <4>3. ASSUME NEW q \in fits PROVE q <= quantity
          BY <2>1, <4>1, <4>3 DEF Searched
        <4>4. QED
          BY <4>2, <4>3
      <3>3. \A x \in fits : (\A y \in fits : y <= x) => x = quantity
        BY <3>2
      <3>4. (CHOOSE q \in fits : \A y \in fits : y <= q) = quantity
        BY <3>2, <3>3
      <3>5. ResolveBuyQuantity(cash, price, sizing)
              = CHOOSE q \in fits : \A y \in fits : y <= q
        BY <2>0, <3>1, <3>2, SizingAssumption DEF ResolveBuyQuantity
      <3>6. QED
        BY <2>1, <3>4, <3>5 DEF ReturnsWhatChargesSays
    <2>2. CASE phase = "raised"
      <3>1. CASE price > 0 /\ pct \in 1 .. 100
        <4>1. fits = {}
          <5>1. Ceiling(cash, price, pct) \in Nat
            <6>1. cash * pct \in Nat /\ 100 * price \in Nat \ {0}
              BY <3>1, SizingAssumption
            <6>2. QED
              BY <6>1, Division DEF Ceiling
          <5>2. QED
            BY <2>2, <3>1, <5>1 DEF Nothing
        <4>2. ResolveBuyQuantity(cash, price, sizing) = 0
          BY <2>0, <3>1, <4>1, SizingAssumption DEF ResolveBuyQuantity
        <4>3. QED
          BY <2>2, <4>2 DEF ReturnsWhatChargesSays
      <3>2. CASE ~(price > 0 /\ pct \in 1 .. 100)
        <4>1. price <= 0 \/ pct <= 0 \/ pct > 100
          BY <3>2, SizingAssumption
        <4>2. ResolveBuyQuantity(cash, price, sizing) = 0
          BY <2>0, <4>1 DEF ResolveBuyQuantity
        <4>3. QED
          BY <2>2, <4>2 DEF ReturnsWhatChargesSays
      <3>3. QED
        BY <3>1, <3>2
    <2>3. QED
      BY <2>1, <2>2 DEF ReturnsWhatChargesSays
  <1>2. QED
    BY <1>1, SizingInvariant, PTL
=============================================================================
