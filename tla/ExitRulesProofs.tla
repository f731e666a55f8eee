---------------------------- MODULE ExitRulesProofs ----------------------------
(***************************************************************************)
(* Theorems about ExitRules, for any number of days, prices and limits.    *)
(*                                                                         *)
(* TypeOK is inductive.  Its last part, EntryDated, carries the argument:  *)
(* the latest BUY trade is that of the position a strategy bought, dated   *)
(* on its day or the day before, so the bars a strategy counts are those   *)
(* since the purchase and at most one more.  With it the two properties    *)
(* follow from the single step that makes a run.                           *)
(***************************************************************************)
EXTENDS ExitRules, FiniteSetTheorems, TLAPS

\* The published days are those before today, or also today.
LEMMA PublishedStep ==
  ASSUME TypeOK, ~ Closed, NEW p \in Prices,
         close' = [close EXCEPT ![day] = p]
  PROVE  /\ close' \in [Days -> Prices \cup {0}]
         /\ Published' = Published \cup {day}
         /\ Published' = (1 .. day) \ Weekend
<1>1. day \in Days /\ p > 0
  BY ExitAssumption DEF TypeOK, Days, ExitAssumption
<1>2. close' \in [Days -> Prices \cup {0}]
  BY <1>1 DEF TypeOK
<1>3. Published' = Published \cup {day}
  BY <1>1, <1>2 DEF TypeOK, Published
<1>4. day \notin Published /\ day \notin Weekend
  BY DEF Closed
<1>5. Published' = (1 .. day) \ Weekend
  BY <1>1, <1>3, <1>4 DEF TypeOK, Days
<1> QED
  BY <1>2, <1>3, <1>5

\* A run: the position stays, is sold, or is bought today.
LEMMA RunKeepsTypes ==
  ASSUME TypeOK, NEW dates \in SUBSET {day - 1, day}, Run(dates)
  PROVE  TypeOK'
<1> DEFINE Fine(p) == p \in {Flat} \cup Positions
<1>1. UNCHANGED <<day, close, bars, strategy>>
  BY DEF Run
<1>2. PICK reason, atr : run' = [reason |-> reason, atr |-> atr, found |-> pos]
                         /\ Execute(reason, dates)
  BY DEF Run
<1>3. Fine(pos) /\ Fine(Flat)
  BY DEF TypeOK
<1>4. Fine(run'.found)
  BY <1>2, <1>3
<1>5. Fine(pos') /\ lastBuy' \in {NoDate} \cup Days /\ EntryDated'
  <2>1. CASE pos' = AfterSale /\ UNCHANGED lastBuy
    BY <2>1 DEF TypeOK, AfterSale, Flat, EntryDated
  <2>2. CASE UNCHANGED <<pos, lastBuy>>
    BY <2>2, <1>3 DEF TypeOK, EntryDated
  <2>3. CASE \E price \in Prices, date \in dates :
               /\ lastBuy =< date
               /\ lastBuy' = date
               /\ pos' = [price |-> price + Commission, since |-> day, bought |-> TRUE]
    <3>1. PICK price \in Prices, date \in dates :
            /\ lastBuy' = date
            /\ pos' = [price |-> price + Commission, since |-> day, bought |-> TRUE]
      BY <2>3
    <3>2. price + Commission \in Nat \ {0}
      BY ExitAssumption DEF ExitAssumption
    <3>3. day \in 2 .. day /\ day \in 2 .. LastDay /\ date \in {day - 1, day}
      BY ExitAssumption DEF TypeOK, ExitAssumption
    <3>4. Fine(pos')
      BY <3>1, <3>2, <3>3 DEF Positions
    <3>5. date \in Days
      BY <3>3, ExitAssumption DEF Days, ExitAssumption
    <3> QED
      BY <3>1, <3>3, <3>4, <3>5 DEF EntryDated
  <2> QED
    BY <1>2, <2>1, <2>2, <2>3 DEF Execute
<1>6. \A p \in {pos', run'.found} : Fine(p)
  BY <1>4, <1>5
<1> QED
  BY <1>1, <1>5, <1>6 DEF TypeOK, Published, Positions

(* Every state has the types of the tables, bars that are published, and   *)
(* an entry date that is the position's own if a strategy bought it        *)
(* (strategy_service.py:312-335).                                          *)
THEOREM ExitTypeOK == Spec => []TypeOK
<1>1. Init => TypeOK
  <2> SUFFICES ASSUME Init PROVE TypeOK
    OBVIOUS
  <2>1. close \in [Days -> Prices \cup {0}] /\ Published = {1}
    BY ExitAssumption DEF Init, Published, Days, ExitAssumption
  <2>2. day = 2 /\ {1} = (1 .. day - 1) \ Weekend
    BY ExitAssumption DEF Init, ExitAssumption
  <2> QED
    BY <2>1, <2>2, ExitAssumption
    DEF Init, TypeOK, EntryDated, NoRun, Flat, NoDate, Strategies, Rsi2, ExitAssumption
<1>2. TypeOK /\ [Next]_vars => TypeOK'
  <2> SUFFICES ASSUME TypeOK, [Next]_vars PROVE TypeOK'
    OBVIOUS
  <2>0. 2 =< day /\ day =< LastDay /\ day \in Int /\ LastDay \in Nat
    BY ExitAssumption DEF TypeOK, ExitAssumption
  <2>1. CASE Automation
    BY <2>1, RunKeepsTypes DEF Automation
  <2>2. CASE ManualRun
    BY <2>2, RunKeepsTypes DEF ManualRun
  <2>3. CASE Close
    <3>1. /\ close' \in [Days -> Prices \cup {0}] /\ Published \subseteq Published'
          /\ Published' = (1 .. day) \ Weekend
      BY <2>3, PublishedStep DEF Close
    <3> QED
      BY <2>3, <3>1 DEF Close, TypeOK, Positions, EntryDated, NoRun
  <2>4. CASE Sync
    <3>1. bars' \subseteq Published /\ bars' # {}
      BY <2>4 DEF Sync, TypeOK
    <3> QED
      BY <2>4, <3>1 DEF Sync, TypeOK, Published, Positions, EntryDated, NoRun
  <2>5. CASE NextDay
    <3>1. Published = (1 .. day) \ Weekend
      BY <2>5, <2>0 DEF NextDay, Closed, TypeOK
    <3>2. day' = day + 1 /\ day' \in 2 .. LastDay /\ Published' = Published
      BY <2>5, <2>0 DEF NextDay, Published
    <3>3. Published' = (1 .. day' - 1) \ Weekend
      BY <3>1, <3>2, <2>0
    <3>4. 2 .. day \subseteq 2 .. day'
      BY <3>2, <2>0
    <3> QED
      BY <2>5, <3>2, <3>3, <3>4 DEF NextDay, TypeOK, Positions, EntryDated, NoRun
  <2>6. CASE Configure
    BY <2>6 DEF Configure, TypeOK, Published, Positions, EntryDated, NoRun
  <2>7. CASE Import
    <3>1. (IF Held THEN pos.since ELSE day) \in 2 .. day /\ pos.bought \in BOOLEAN
      <4>1. pos = Flat \/ pos \in Positions
        BY DEF TypeOK
      <4>2. CASE pos = Flat
        BY <2>0, <4>2 DEF Held, Flat
      <4>3. CASE pos \in Positions
        BY <2>0, <4>3 DEF Positions
      <4> QED
        BY <4>1, <4>2, <4>3
    <3>2. pos' \in {Flat} \cup Positions
      <4> DEFINE since == IF Held THEN pos.since ELSE day
      <4> HIDE DEF since
      <4>1. pos' \in {Flat} \cup [price : Prices, since : {since}, bought : {pos.bought}]
        BY <2>7 DEF Import, since
      <4>2. since \in 2 .. day /\ Prices \subseteq Nat \ {0}
        BY <3>1, ExitAssumption DEF since, ExitAssumption
      <4>3. UNCHANGED day
        BY <2>7 DEF Import
      <4> QED
        BY <3>1, <4>1, <4>2, <4>3 DEF Positions
    <3>3. EntryDated'
      <4> SUFFICES ASSUME pos'.bought PROVE lastBuy' \in {pos'.since - 1, pos'.since}
        BY DEF EntryDated
      <4>1. /\ pos' \in {Flat} \cup [price : Prices, since : {IF Held THEN pos.since ELSE day},
                                    bought : {pos.bought}]
            /\ UNCHANGED lastBuy
        BY <2>7 DEF Import
      <4>2. pos' # Flat
        BY DEF Flat
      <4>3. pos'.bought = pos.bought /\ pos'.since = IF Held THEN pos.since ELSE day
        BY <4>1, <4>2
      <4>4. pos \in Positions
        BY <4>3 DEF TypeOK, Flat
      <4>5. Held
        BY <4>4 DEF Positions, Held
      <4> QED
        BY <4>1, <4>3, <4>5 DEF TypeOK, EntryDated
    <3> QED
      BY <2>7, <3>2, <3>3 DEF Import, TypeOK, Published, Positions, NoRun
  <2>8. CASE UNCHANGED vars
    BY <2>8 DEF vars, TypeOK, Published, Positions, EntryDated
  <2> QED
    BY <2>1, <2>2, <2>3, <2>4, <2>5, <2>6, <2>7, <2>8 DEF Next
<1> QED
  BY <1>1, <1>2, PTL DEF Spec

-----------------------------------------------------------------------------
(* Counting bars                                                           *)

\* The cached bars and their subsets can be counted.
LEMMA BarsFinite ==
  ASSUME TypeOK
  PROVE  /\ IsFiniteSet(bars)
         /\ \A S \in SUBSET bars : IsFiniteSet(S) /\ Cardinality(S) \in Nat
<1>1. IsFiniteSet(1 .. LastDay)
  BY ExitAssumption, FS_Interval DEF ExitAssumption
<1>2. bars \subseteq 1 .. LastDay
  BY DEF TypeOK, Published, Days
<1> QED
  BY <1>1, <1>2, FS_Subset, FS_CardinalityType

\* The days a strategy counts of a position it bought: those since the purchase
\* and at most one more.
LEMMA CountedSincePurchase ==
  ASSUME TypeOK, pos.bought
  PROVE  /\ Age(pos) \in Nat /\ Cardinality(BarsFrom(lastBuy)) \in Nat
         /\ Age(pos) =< Cardinality(BarsFrom(lastBuy))
         /\ Cardinality(BarsFrom(lastBuy)) =< Age(pos) + 1
         /\ Age(pos) > 0 => BarsFrom(lastBuy) # {}
<1> DEFINE A == {d \in bars : pos.since =< d}
           B == BarsFrom(lastBuy)
<1>1. pos.since \in 2 .. day /\ day \in Int /\ lastBuy \in {pos.since - 1, pos.since}
  <2>1. pos \in Positions
    BY DEF TypeOK, Flat
  <2>2. day \in Int
    BY ExitAssumption DEF TypeOK, ExitAssumption
  <2> QED
    BY <2>1, <2>2 DEF TypeOK, EntryDated, Positions
<1>2. bars \subseteq Int
  BY DEF TypeOK, Published, Days
<1>3. A \subseteq B /\ B \subseteq A \cup {pos.since - 1}
  <2>1. lastBuy # NoDate /\ lastBuy \in Int /\ lastBuy =< pos.since /\ pos.since - 1 =< lastBuy
        /\ pos.since \in Int
    BY <1>1 DEF NoDate
  <2>2. B = {d \in bars : lastBuy =< d}
    BY <2>1 DEF BarsFrom
  <2>3. \A d \in bars : pos.since =< d => lastBuy =< d
    BY <1>2, <2>1
  <2>4. \A d \in bars : lastBuy =< d => pos.since =< d \/ d = pos.since - 1
    BY <1>2, <2>1
  <2> QED
    BY <2>2, <2>3, <2>4
<1>4. A \subseteq bars /\ B \subseteq bars
  BY DEF BarsFrom
<1>5. IsFiniteSet(A) /\ IsFiniteSet(B) /\ Cardinality(A) \in Nat /\ Cardinality(B) \in Nat
  BY <1>4, BarsFinite
<1>6. Cardinality(A) =< Cardinality(B)
  BY <1>3, <1>5, FS_Subset
<1>7. IsFiniteSet(A \cup {pos.since - 1})
      /\ Cardinality(A \cup {pos.since - 1}) \in {Cardinality(A), Cardinality(A) + 1}
  BY <1>5, FS_AddElement
<1>8. Cardinality(B) =< Cardinality(A \cup {pos.since - 1})
  BY <1>3, <1>7, FS_Subset
<1>9. Cardinality(B) =< Cardinality(A) + 1
  BY <1>5, <1>7, <1>8
<1>10. Age(pos) = Cardinality(A)
  BY DEF Age
<1>11. Cardinality(A) > 0 => B # {}
  BY <1>5, <1>6, FS_EmptySet
<1> QED
  BY <1>5, <1>6, <1>9, <1>10, <1>11

\* The first of the rules that apply is one of them.
LEMMA LeastRule ==
  ASSUME NEW S \in SUBSET (1 .. 3), S # {}
  PROVE  Min(S) \in S
<1>1. \E m \in S : \A n \in S : m =< n
  <2>1. CASE 1 \in S
    BY <2>1
  <2>2. CASE 1 \notin S /\ 2 \in S
    BY <2>2
  <2>3. CASE 1 \notin S /\ 2 \notin S
    <3>1. \A n \in 1 .. 3 : n = 1 \/ n = 2 \/ n = 3
      OBVIOUS
    <3>2. \A n \in S : n = 3
      BY <2>3, <3>1
    <3>3. PICK m \in S : TRUE
      OBVIOUS
    <3>4. \A n \in S : m =< n
      BY <3>2, <3>3
    <3> QED
      BY <3>4
  <2> QED
    BY <2>1, <2>2, <2>3
<1> QED
  BY <1>1 DEF Min

\* Holding days are the bars counted, less the one of the entry date.
LEMMA HoldingDaysCount ==
  ASSUME Cardinality(BarsFrom(lastBuy)) \in Nat
  PROVE  /\ HoldingDays \in Nat
         /\ HoldingDays >= Cardinality(BarsFrom(lastBuy)) - 1
         /\ HoldingDays > 0 => HoldingDays = Cardinality(BarsFrom(lastBuy)) - 1
<1> DEFINE n == Cardinality(BarsFrom(lastBuy)) - 1
<1>1. n \in Int /\ (n >= 0 \/ n < 0)
  OBVIOUS
<1>2. \E m \in {n, 0} : \A k \in {n, 0} : k =< m
  BY <1>1
<1>3. HoldingDays \in {n, 0} /\ \A k \in {n, 0} : k =< HoldingDays
  BY <1>2 DEF HoldingDays, Max
<1> HIDE DEF n
<1>4. HoldingDays \in Nat /\ HoldingDays >= n /\ (HoldingDays > 0 => HoldingDays = n)
  BY <1>1, <1>3
<1> QED
  BY <1>4 DEF n

\* A position sold for its days has had them, and one that is kept has not, nor is
\* its last close under a stop.
LEMMA ReasonIsDue ==
  ASSUME TypeOK, NEW strong \in BOOLEAN, NEW weak \in BOOLEAN, NEW atr \in Atrs
  PROVE  /\ Reason(strong, weak, atr) = "time" =>
              Held /\ strategy # Hybrid /\ HoldingDays >= MaxHold[strategy]
         /\ Reason(strong, weak, atr) = "hold" =>
              /\ Held /\ strategy # Hybrid
              /\ ~(HoldingDays >= MaxHold[strategy])
              /\ strategy \in {Breakout, OpenMomentum} => ~ Stopped(atr)
<1> DEFINE exits == {i \in DOMAIN Ladder : Applies(Ladder[i], weak, atr)}
           looks == strategy # Hybrid /\ Held
<1>1. CASE strategy = Hybrid
  <2>1. Reason(strong, weak, atr) \in {"entry", "weak", "wait"}
    BY <1>1 DEF Reason, HybridReason
  <2> QED
    BY <2>1
<1>2. CASE strategy # Hybrid /\ ~ Held
  <2>1. Reason(strong, weak, atr) \in {"entry", "wait"}
    BY <1>2 DEF Reason
  <2> QED
    BY <2>1
<1>3. CASE looks
  <2>1. /\ DOMAIN Ladder = 1 .. 3 /\ Ladder[3] = "time"
        /\ \A i \in 1 .. 3 : Ladder[i] \in {"weak", "stop", "profit", "time"}
        /\ strategy \in {Breakout, OpenMomentum} => \E i \in 1 .. 3 : Ladder[i] = "stop"
    BY <1>3 DEF Ladder, TypeOK, Strategies, Breakout, OpenMomentum, Rsi2, Hybrid
  <2>2. CASE exits = {}
    <3>1. Reason(strong, weak, atr) = "hold"
      BY <1>3, <2>2 DEF Reason
    <3>2. ~ Applies("time", weak, atr)
      BY <2>1, <2>2
    <3>3. strategy \in {Breakout, OpenMomentum} => ~ Applies("stop", weak, atr)
      BY <2>1, <2>2
    <3> QED
      BY <1>3, <3>1, <3>2, <3>3 DEF Applies
  <2>3. CASE exits # {}
    <3>1. exits \subseteq 1 .. 3 /\ Min(exits) \in exits
      BY <2>1, <2>3, LeastRule
    <3>2. Reason(strong, weak, atr) = Ladder[Min(exits)]
      BY <1>3, <2>3 DEF Reason
    <3>3. Applies(Ladder[Min(exits)], weak, atr)
      BY <3>1
    <3>4. Ladder[Min(exits)] # "hold"
      BY <2>1, <3>1
    <3> QED
      BY <1>3, <3>2, <3>3, <3>4 DEF Applies
  <2> QED
    BY <2>2, <2>3
<1> QED
  BY <1>1, <1>2, <1>3

\* What a run finds, decides and leaves.
LEMMA RunDecides ==
  ASSUME TypeOK, NEW dates \in SUBSET {day - 1, day}, Run(dates)
  PROVE  /\ KeptRightly'
         /\ BoughtHeldThatLong'
<1>1. PICK strong \in BOOLEAN, weak \in BOOLEAN, atr \in Atrs :
        /\ run' = [reason |-> Reason(strong, weak, atr), atr |-> atr, found |-> pos]
        /\ Execute(Reason(strong, weak, atr), dates)
  BY DEF Run
<1>2. UNCHANGED <<day, close, bars, strategy>>
  BY DEF Run
<1>3. strategy # Hybrid => MaxHold[strategy] \in Nat \ {0}
  BY ExitAssumption DEF ExitAssumption, TypeOK
<1>4. BoughtHeldThatLong'
  <2> SUFFICES ASSUME Reason(strong, weak, atr) = "time", pos.bought
               PROVE  Age(pos) >= MaxHold[strategy]
    BY <1>1, <1>2 DEF BoughtHeldThatLong, Age
  <2>1. strategy # Hybrid /\ HoldingDays >= MaxHold[strategy]
    BY ReasonIsDue
  <2>2. HoldingDays \in Nat /\ HoldingDays > 0
    BY <1>3, <2>1, CountedSincePurchase, HoldingDaysCount
  <2> QED
    BY <1>3, <2>1, <2>2, CountedSincePurchase, HoldingDaysCount
<1>5. KeptRightly'
  <2> SUFFICES ASSUME Reason(strong, weak, atr) = "hold", pos'.bought
               PROVE  /\ Age(pos') =< MaxHold[strategy]
                      /\ strategy \in {Breakout, OpenMomentum} /\ Age(pos') > 0
                           => ~ (LastClose < pos'.price - 2 * atr)
    BY <1>1, <1>2 DEF KeptRightly, Age, LastClose
  <2>1. pos' = pos
    BY <1>1 DEF Execute, Exits
  <2>2. /\ strategy # Hybrid /\ ~(HoldingDays >= MaxHold[strategy])
        /\ strategy \in {Breakout, OpenMomentum} => ~ Stopped(atr)
    BY ReasonIsDue
  <2>3. Age(pos) =< MaxHold[strategy]
    BY <1>3, <2>1, <2>2, CountedSincePurchase, HoldingDaysCount
  <2>4. ASSUME strategy \in {Breakout, OpenMomentum}, Age(pos) > 0
        PROVE  ~ (LastClose < pos.price - 2 * atr)
    <3>1. BarsFrom(lastBuy) # {}
      BY <2>1, <2>4, CountedSincePurchase
    <3>2. pos.price - 2 * atr \in Stops(atr)
      BY <2>4, <3>1 DEF Stops, Breakout, OpenMomentum
    <3> QED
      BY <2>2, <2>4, <3>2 DEF Stopped
  <2> QED
    BY <2>1, <2>3, <2>4
<1> QED
  BY <1>4, <1>5

-----------------------------------------------------------------------------

\* No other step makes a run.
LEMMA OnlyRunsDecide ==
  ASSUME TypeOK, [Next]_vars, KeptRightly, BoughtHeldThatLong
  PROVE  KeptRightly' /\ BoughtHeldThatLong'
<1>1. CASE Automation
  <2>1. Run({day})
    BY <1>1 DEF Automation
  <2> QED
    BY <2>1, RunDecides
<1>2. CASE ManualRun
  BY <1>2, RunDecides DEF ManualRun
<1>3. CASE Close \/ Sync \/ NextDay \/ Configure \/ Import
  <2>1. run' = NoRun
    BY <1>3 DEF Close, Sync, NextDay, Configure, Import
  <2> QED
    BY <2>1 DEF KeptRightly, BoughtHeldThatLong, NoRun
<1>4. CASE UNCHANGED vars
  BY <1>4 DEF vars, KeptRightly, BoughtHeldThatLong, Age, LastClose
<1> QED
  BY <1>1, <1>2, <1>3, <1>4 DEF Next

(* A position a strategy bought and a run keeps has not lived through its  *)
(* holding days, and is not under the stop of its cost                     *)
(* (tw_momentum_breakout_strategy.py:85-94 and its like).                  *)
THEOREM ExitKeptRightly == Spec => []KeptRightly
<1>1. Init => KeptRightly /\ BoughtHeldThatLong
  BY DEF Init, KeptRightly, BoughtHeldThatLong, NoRun
<1>2. TypeOK /\ [Next]_vars /\ KeptRightly /\ BoughtHeldThatLong
        => KeptRightly' /\ BoughtHeldThatLong'
  BY OnlyRunsDecide
<1> QED
  BY <1>1, <1>2, ExitTypeOK, PTL DEF Spec

(* A position a strategy bought is not sold for its holding days before it *)
(* has had them, whatever was imported, configured or synchronised in      *)
(* between (strategy_service.py:312-335).                                  *)
THEOREM ExitBoughtHeldThatLong == Spec => []BoughtHeldThatLong
<1>1. Init => KeptRightly /\ BoughtHeldThatLong
  BY DEF Init, KeptRightly, BoughtHeldThatLong, NoRun
<1>2. TypeOK /\ [Next]_vars /\ KeptRightly /\ BoughtHeldThatLong
        => KeptRightly' /\ BoughtHeldThatLong'
  BY OnlyRunsDecide
<1> QED
  BY <1>1, <1>2, ExitTypeOK, PTL DEF Spec
================================================================================
