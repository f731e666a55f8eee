----------------------------- MODULE TradingProofs -----------------------------
(***************************************************************************)
(* Proofs about the trading core, for any number of sessions, codes and    *)
(* prices: its type correctness, and                                       *)
(*   - with a write lock (SQLite) the account and the positions are always *)
(*     what the committed trades make of them.  LedgerBalanced is not      *)
(*     inductive: a fill writes values it computed from objects loaded     *)
(*     earlier, so one must know that they are still current.              *)
(*     LockedLedger says so: the one holder of the lock sees the committed *)
(*     tables plus its own trades, and everybody else has nothing pending; *)
(*   - with either database nobody overdraws, and the committed runs,      *)
(*     orders and trades tell one story;                                   *)
(*   - with a write lock what is committed was decided on the tables it is *)
(*     committed to: no double buy, no sale of another position, no buy    *)
(*     beyond the session's limit;                                         *)
(*   - with a write lock the value of the account is conserved, its stored *)
(*     metrics are right, and the whole core implements Ledger.            *)
(***************************************************************************)
EXTENDS Trading, ChargesProofs

-----------------------------------------------------------------------------
(* The records a session builds *)

LEMMA RowOfType ==
  ASSUME TypeOK, NEW s \in Sessions, NEW c \in Codes
  PROVE  RowOf(s, c) \in RowType
  <1>1. txn[s].pos[c] \in Writes /\ pos[c] \in RowType
    BY DEF TypeOK, TxnType
  <1>2. QED
    BY <1>1 DEF RowOf, Col, RowType, Writes

LEMMA CashOfType ==
  ASSUME TypeOK, NEW s \in Sessions
  PROVE  CashOf(s) \in Int
  BY DEF TypeOK, TxnType, CashOf, Col

LEMMA WriteRowType ==
  ASSUME NEW own \in Writes, NEW loaded \in RowType, NEW new \in RowType
  PROVE  WriteRow(own, loaded, new) \in Writes
  BY DEF WriteRow, Write, Writes, RowType

LEMMA EmptyRecords ==
  /\ NoPosition \in RowType
  /\ KeepRow \in Writes
  /\ NoWrites \in TxnType
  /\ NoTally \in TallyType
  /\ NoRun \in ExeType
  <1>1. NoPosition \in RowType /\ KeepRow \in Writes
    BY DEF NoPosition, RowType, KeepRow, Writes
  <1>2. NoWrites \in TxnType
    BY <1>1 DEF NoWrites, TxnType
  <1>3. NoTally \in TallyType
    BY DEF NoTally, TallyType
  <1>4. NoRun \in ExeType
    BY <1>1 DEF NoRun, ExeType
  <1>5. QED
    BY <1>1, <1>2, <1>3, <1>4

(* A finished run leaves a session at its next code or at its commit.      *)
LEMMA FinishType ==
  ASSUME TypeOK, NEW s \in Traders, exe[s].code \in Codes,
         NEW status \in {"NONE", "SKIPPED", "FAILED", "APPLIED"},
         NEW writes \in TxnType, Finish(s, status, writes)
  PROVE  /\ txn' \in [Sessions -> TxnType]
         /\ exe' \in [Sessions -> ExeType]
         /\ todo' \in [Sessions -> SUBSET Codes]
         /\ pc' \in [Sessions -> Places]
         /\ pc'[s] \in {"evaluate", "commit"}
         /\ \A o \in Sessions \ {s} : pc'[o] = pc[o] /\ exe'[o] = exe[o]
  <1> DEFINE row == Outcome(s, status)
  <1> USE DEF TypeOK
  <1>0. s \in Sessions
    BY DEF Sessions
  <1>1. row \in RunType
    BY <1>0 DEF Outcome, RunType, ExeType
  <1>2. [writes EXCEPT !.runs = @ \cup {row}] \in TxnType
    BY <1>1 DEF TxnType
  <1>3. txn' = [txn EXCEPT ![s] = [writes EXCEPT !.runs = @ \cup {row}]]
    BY DEF Finish
  <1>4. txn' \in [Sessions -> TxnType]
    BY <1>0, <1>2, <1>3
  <1>5. exe' = [exe EXCEPT ![s] = NoRun]
    BY DEF Finish
  <1>6. exe' \in [Sessions -> ExeType] /\ \A o \in Sessions \ {s} : exe'[o] = exe[o]
    BY <1>0, <1>5, EmptyRecords
  <1>7. todo' = [todo EXCEPT ![s] = todo[s] \ {exe[s].code}]
    BY DEF Finish, NextCode
  <1>8. todo' \in [Sessions -> SUBSET Codes]
    BY <1>0, <1>7
  <1>9. pc' = [pc EXCEPT ![s] = IF todo[s] \ {exe[s].code} = {} THEN "commit"
                                ELSE "evaluate"]
    BY DEF Finish, NextCode, Go
  <1>10. QED
    BY <1>0, <1>4, <1>6, <1>8, <1>9 DEF Places

LEMMA AcquireType ==
  ASSUME TypeOK, NEW s \in Sessions, NEW rows \in SUBSET (Codes \cup {AccountRow}),
         Acquire(s, rows)
  PROVE  locks' \in [Sessions -> SUBSET (Codes \cup {AccountRow, "db"})]
  BY DEF TypeOK, Acquire

-----------------------------------------------------------------------------

LEMMA TypeInit == Init => TypeOK
  <1> SUFFICES ASSUME Init PROVE TypeOK
    OBVIOUS
  <1>1. pos \in [Codes -> RowType] /\ exe \in [Sessions -> ExeType]
        /\ txn \in [Sessions -> TxnType] /\ tally \in [Sessions -> TallyType]
    BY EmptyRecords DEF Init
  <1>2. cash \in Int /\ book \in TallyType
    BY TradingAssumption DEF Init, TallyType
  <1>3. /\ runs \subseteq RunType /\ orders \subseteq OrderType
        /\ trades \subseteq OrderType /\ pc \in [Sessions -> Places]
        /\ locks \in [Sessions -> SUBSET (Codes \cup {AccountRow, "db"})]
        /\ todo \in [Sessions -> SUBSET Codes]
        /\ req \in [Sessions -> {NoRequest} \cup Runs \cup Imports]
    BY DEF Init, Places
  <1>4. \A s \in Traders : TraderOK(s)
    BY DEF Init, TraderOK, Active, Sessions
  <1>5. \A b \in Boots : BootOK(b)
    BY DEF Init, BootOK, Active, Sessions
  <1>6. QED
    BY <1>1, <1>2, <1>3, <1>4, <1>5 DEF TypeOK

(* Nothing that a session has is read by the typing of another.            *)
LEMMA OthersOK ==
  ASSUME TypeOK, NEW s \in Sessions,
         \A o \in Sessions \ {s} :
           pc'[o] = pc[o] /\ exe'[o] = exe[o] /\ req'[o] = req[o]
  PROVE  /\ \A o \in Traders \ {s} : TraderOK(o)'
         /\ \A o \in Boots \ {s} : BootOK(o)'
  BY DEF TypeOK, TraderOK, BootOK, Active, Sessions

(* The tables and the transactions when nothing is committed.              *)
LEMMA TablesOK ==
  ASSUME TypeOK, UNCHANGED tables
  PROVE  /\ cash' \in Int /\ pos' \in [Codes -> RowType]
         /\ runs' \subseteq RunType /\ orders' \subseteq OrderType
         /\ trades' \subseteq OrderType
         /\ book' \in TallyType
  BY DEF TypeOK, tables

LEMMA TypeStartRun ==
  ASSUME TypeOK, NEW s \in Traders, StartRun(s)
  PROVE  TypeOK'
  <1> USE DEF TypeOK
  <1>0. s \in Sessions /\ s \notin Boots
    BY TradingAssumption DEF Sessions
  <1>1. PICK z \in Sizings, x \in BOOLEAN, targets \in SUBSET Codes :
          /\ req' = [req EXCEPT ![s] = [execute |-> x, sizing |-> z]]
          /\ NextCode(s, targets)
    BY DEF StartRun
  <1>2. /\ todo' \in [Sessions -> SUBSET Codes]
        /\ pc' \in [Sessions -> Places] /\ pc'[s] \in {"evaluate", "commit"}
        /\ \A o \in Sessions \ {s} : pc'[o] = pc[o]
    BY <1>0, <1>1 DEF NextCode, Go, Places
  <1>3. UNCHANGED <<tables, locks, exe, txn, tally>>
    BY DEF StartRun
  <1>4. TraderOK(s)' /\ req' \in [Sessions -> {NoRequest} \cup Runs \cup Imports]
    BY <1>0, <1>1, <1>2 DEF TraderOK, Active, Runs
  <1>5. (\A o \in Traders : TraderOK(o)') /\ (\A b \in Boots : BootOK(b)')
    BY <1>0, <1>1, <1>2, <1>3, <1>4, OthersOK
  <1>6. QED
    BY <1>2, <1>3, <1>4, <1>5, TablesOK

LEMMA TypeEvaluate ==
  ASSUME TypeOK, NEW s \in Traders, Evaluate(s)
  PROVE  TypeOK'
  <1> USE DEF TypeOK
  <1>0. s \in Sessions /\ s \notin Boots
    BY TradingAssumption DEF Sessions
  <1>1. PICK c \in todo[s], signal \in {"BUY", "SELL", "HOLD"} :
          exe' = [exe EXCEPT ![s] = [NoRun EXCEPT !.code = c, !.signal = signal]]
    BY DEF Evaluate
  <1>2. c \in Codes
    BY <1>0
  <1>3. [NoRun EXCEPT !.code = c, !.signal = signal] \in ExeType
    BY <1>2, EmptyRecords DEF ExeType
  <1>4. exe' \in [Sessions -> ExeType] /\ exe'[s].code \in Codes
        /\ \A o \in Sessions \ {s} : exe'[o] = exe[o]
    BY <1>0, <1>1, <1>2, <1>3 DEF NoRun
  <1>5. /\ pc' \in [Sessions -> Places] /\ pc'[s] = "record"
        /\ \A o \in Sessions \ {s} : pc'[o] = pc[o]
    BY <1>0 DEF Evaluate, Go, Places
  <1>6. UNCHANGED <<tables, locks, req, todo, txn, worth, tally>>
    BY DEF Evaluate
  <1>7. TraderOK(s)'
    BY <1>4, <1>5, <1>6 DEF TraderOK, Active, Evaluate
  <1>8. (\A o \in Traders : TraderOK(o)') /\ (\A b \in Boots : BootOK(b)')
    BY <1>0, <1>4, <1>5, <1>6, <1>7, OthersOK
  <1>9. QED
    BY <1>4, <1>5, <1>6, <1>8, TablesOK

LEMMA TypeCannotEvaluate ==
  ASSUME TypeOK, NEW s \in Traders, CannotEvaluate(s)
  PROVE  TypeOK'
  <1> USE DEF TypeOK
  <1>0. s \in Sessions /\ s \notin Boots
    BY TradingAssumption DEF Sessions
  <1>1. /\ todo' \in [Sessions -> SUBSET Codes]
        /\ pc' \in [Sessions -> Places] /\ pc'[s] \in {"evaluate", "commit"}
        /\ \A o \in Sessions \ {s} : pc'[o] = pc[o]
    BY <1>0 DEF CannotEvaluate, NextCode, Go, Places
  <1>2. UNCHANGED <<tables, locks, req, exe, txn, worth, tally>>
    BY DEF CannotEvaluate
  <1>3. TraderOK(s)'
    BY <1>1, <1>2 DEF TraderOK, Active, CannotEvaluate
  <1>4. (\A o \in Traders : TraderOK(o)') /\ (\A b \in Boots : BootOK(b)')
    BY <1>0, <1>1, <1>2, <1>3, OthersOK
  <1>5. QED
    BY <1>1, <1>2, <1>4, TablesOK

LEMMA TypeAbandon ==
  ASSUME TypeOK, NEW s \in Traders, Abandon(s)
  PROVE  TypeOK'
  <1> USE DEF TypeOK
  <1>0. s \in Sessions /\ s \notin Boots /\ txn[s] \in TxnType /\ exe[s] \in ExeType
    BY TradingAssumption DEF Sessions
  <1>1. /\ todo' \in [Sessions -> SUBSET Codes]
        /\ pc' \in [Sessions -> Places] /\ pc'[s] = "commit"
        /\ \A o \in Sessions \ {s} : pc'[o] = pc[o]
    BY <1>0 DEF Abandon, NextCode, Go, Places
  <1>2. exe' = [exe EXCEPT ![s] = NoRun]
    BY DEF Abandon
  <1>3. /\ exe' \in [Sessions -> ExeType]
        /\ \A o \in Sessions \ {s} : exe'[o] = exe[o]
    BY <1>0, <1>2, EmptyRecords
  <1>4. pc[s] # "evaluate" => Outcome(s, "NONE") \in RunType
    <2> SUFFICES ASSUME pc[s] # "evaluate" PROVE Outcome(s, "NONE") \in RunType
      OBVIOUS
    <2>1. exe[s].code \in Codes
      BY DEF Abandon, TraderOK
    <2>2. QED
      BY <1>0, <2>1 DEF Outcome, RunType, ExeType
  <1> DEFINE rows == IF pc[s] = "evaluate" THEN txn[s].runs
                     ELSE txn[s].runs \cup {Outcome(s, "NONE")}
  <1> DEFINE writes == [txn[s] EXCEPT !.runs = rows]
  <1>5. rows \subseteq RunType
    BY <1>0, <1>4 DEF TxnType
  <1>6. txn' = [txn EXCEPT ![s] = writes]
    BY <1>0 DEF Abandon
  <1> HIDE DEF rows
  <1>7. writes \in TxnType
    BY <1>0, <1>5 DEF TxnType
  <1>8. txn' \in [Sessions -> TxnType]
    BY <1>0, <1>6, <1>7
  <1>9. UNCHANGED <<tables, locks, req, worth, tally>>
    BY DEF Abandon
  <1>10. Active(s)
    BY DEF Abandon, Active
  <1>11. TraderOK(s)'
    BY <1>1, <1>9, <1>10 DEF TraderOK, Active
  <1>12. (\A o \in Traders : TraderOK(o)') /\ (\A b \in Boots : BootOK(b)')
    BY <1>0, <1>1, <1>3, <1>9, <1>11, OthersOK
  <1>13. QED
    BY <1>1, <1>3, <1>8, <1>9, <1>12, TablesOK

(* A step that ends the run in progress and commits nothing.               *)
LEMMA TypeFinish ==
  ASSUME TypeOK, NEW s \in Traders, pc[s] \in {"record", "check", "size", "place", "fill", "settle"},
         NEW status \in {"NONE", "SKIPPED", "FAILED", "APPLIED"},
         NEW writes \in TxnType, Finish(s, status, writes),
         UNCHANGED <<tables, req>>,
         locks' \in [Sessions -> SUBSET (Codes \cup {AccountRow, "db"})],
         tally' \in [Sessions -> TallyType]
  PROVE  TypeOK'
  <1>0. s \in Sessions /\ s \notin Boots
    BY TradingAssumption DEF Sessions
  <1>1. exe[s].code \in Codes /\ Active(s)
    BY DEF TypeOK, TraderOK, Active
  <1>2. /\ txn' \in [Sessions -> TxnType] /\ exe' \in [Sessions -> ExeType]
        /\ todo' \in [Sessions -> SUBSET Codes] /\ pc' \in [Sessions -> Places]
        /\ pc'[s] \in {"evaluate", "commit"}
        /\ \A o \in Sessions \ {s} : pc'[o] = pc[o] /\ exe'[o] = exe[o]
    BY <1>1, FinishType
  <1>3. TraderOK(s)'
    BY <1>1, <1>2 DEF TypeOK, TraderOK, Active
  <1>4. (\A o \in Traders : TraderOK(o)') /\ (\A b \in Boots : BootOK(b)')
    BY <1>0, <1>2, <1>3, OthersOK
  <1>5. QED
    BY <1>2, <1>4, TablesOK DEF TypeOK

LEMMA TypeRecord ==
  ASSUME TypeOK, NEW s \in Traders, Record(s)
  PROVE  TypeOK'
  <1>0. s \in Sessions /\ s \notin Boots
    BY TradingAssumption DEF Sessions
  <1>1. locks' \in [Sessions -> SUBSET (Codes \cup {AccountRow, "db"})]
    BY <1>0, AcquireType DEF Record
  <1>2. pc[s] = "record" /\ UNCHANGED <<tables, req, worth, tally>>
    BY DEF Record
  <1>3. CASE ~ req[s].execute
    <2>1. Finish(s, "NONE", txn[s]) /\ txn[s] \in TxnType
      BY <1>0, <1>3 DEF Record, TypeOK
    <2>2. QED
      BY <1>1, <1>2, <2>1, TypeFinish DEF TypeOK
  <1>4. CASE req[s].execute
    <2> USE DEF TypeOK
    <2>1. UNCHANGED <<todo, exe, txn>>
      BY <1>4 DEF Record
    <2>2. /\ pc' \in [Sessions -> Places] /\ pc'[s] = "check"
          /\ \A o \in Sessions \ {s} : pc'[o] = pc[o]
      BY <1>0, <1>4 DEF Record, Go, Places
    <2>3. TraderOK(s)'
      BY <1>2, <2>1, <2>2 DEF TraderOK, Active
    <2>4. (\A o \in Traders : TraderOK(o)') /\ (\A b \in Boots : BootOK(b)')
      BY <1>0, <1>2, <2>1, <2>2, <2>3, OthersOK
    <2>5. QED
      BY <1>1, <1>2, <2>1, <2>2, <2>4, TablesOK
  <1>5. QED
    BY <1>3, <1>4

LEMMA TypeCheck ==
  ASSUME TypeOK, NEW s \in Traders, Check(s)
  PROVE  TypeOK'
  <1> DEFINE row == RowOf(s, exe[s].code)
  <1> DEFINE open == OpenCodes([c \in Codes |-> RowOf(s, c)])
  <1>0. s \in Sessions /\ s \notin Boots /\ exe[s].code \in Codes
    BY TradingAssumption DEF Sessions, Check, TypeOK, TraderOK
  <1>1. pc[s] = "check" /\ UNCHANGED <<tables, locks, req, worth, tally>>
    BY DEF Check
  <1>2. CASE Skipped(s, row, open) /\ Finish(s, "SKIPPED", txn[s])
    <2>1. txn[s] \in TxnType
      BY <1>0 DEF TypeOK
    <2>2. QED
      BY <1>1, <1>2, <2>1, TypeFinish DEF TypeOK
  <1>3. CASE /\ ~ Skipped(s, row, open)
             /\ exe' = [exe EXCEPT ![s].held = row,
                                   ![s].quantity = IF exe[s].signal = "SELL"
                                                   THEN row.qty ELSE 0]
             /\ Go(s, IF exe[s].signal = "SELL" THEN "place" ELSE "size")
             /\ UNCHANGED <<todo, txn>>
    <2> USE DEF TypeOK
    <2>1. row \in RowType
      BY <1>0, RowOfType
    <2> HIDE DEF row, open
    <2>2. exe[s].signal \in {"BUY", "SELL"}
      BY <1>0, <1>3 DEF Skipped, ExeType
    <2>3. exe'[s] \in ExeType /\ exe'[s].signal = exe[s].signal
          /\ exe'[s].code = exe[s].code
          /\ \A o \in Sessions \ {s} : exe'[o] = exe[o]
      <3> DEFINE quantity == IF exe[s].signal = "SELL" THEN row.qty ELSE 0
      <3> DEFINE new == [exe[s] EXCEPT !.held = row, !.quantity = quantity]
      <3>1. quantity \in Nat
        BY <2>1 DEF RowType
      <3>2. exe[s] \in ExeType /\ exe' = [exe EXCEPT ![s] = new]
        BY <1>0, <1>3
      <3> HIDE DEF quantity
      <3>3. new \in ExeType /\ new.signal = exe[s].signal /\ new.code = exe[s].code
        BY <2>1, <3>1, <3>2 DEF ExeType
      <3>4. QED
        BY <1>0, <3>2, <3>3
    <2>4. exe' \in [Sessions -> ExeType]
      BY <1>0, <1>3, <2>3
    <2>5. /\ pc' \in [Sessions -> Places]
          /\ pc'[s] = IF exe[s].signal = "SELL" THEN "place" ELSE "size"
          /\ \A o \in Sessions \ {s} : pc'[o] = pc[o]
      BY <1>0, <1>3 DEF Go, Places
    <2>6. TraderOK(s)'
      BY <1>0, <1>1, <2>2, <2>3, <2>5 DEF TraderOK, Active
    <2>7. (\A o \in Traders : TraderOK(o)') /\ (\A b \in Boots : BootOK(b)')
      BY <1>0, <1>1, <2>3, <2>5, <2>6, OthersOK
    <2>8. QED
      BY <1>1, <1>3, <2>4, <2>5, <2>7, TablesOK
  <1>4. QED
    BY <1>2, <1>3 DEF Check

(* An order's record in place of the run's, and the preview's cash.        *)
LEMMA TypeSize ==
  ASSUME TypeOK, NEW s \in Traders, Size(s)
  PROVE  TypeOK'
  <1>0. s \in Sessions /\ s \notin Boots /\ exe[s] \in ExeType
        /\ exe[s].code \in Codes /\ exe[s].signal = "BUY" /\ req[s] \in Runs
    BY TradingAssumption DEF Sessions, Size, TypeOK, TraderOK, Active
  <1>1. pc[s] = "size" /\ UNCHANGED <<tables, locks, req, tally>>
    BY DEF Size
  <1>2. PICK price \in Prices \cup {NoQuote} :
          LET quantity == IF price = NoQuote THEN 0
                          ELSE ResolveBuyQuantity(CashOf(s), price, req[s].sizing)
          IN  IF quantity = 0
              THEN Finish(s, "FAILED", txn[s]) /\ UNCHANGED worth
              ELSE /\ exe' = [exe EXCEPT ![s].seen = CashOf(s),
                                         ![s].quantity = quantity]
                   /\ LoadWorth(s)
                   /\ Go(s, "place")
                   /\ UNCHANGED <<todo, txn>>
    BY DEF Size
  <1> DEFINE quantity == IF price = NoQuote THEN 0
                         ELSE ResolveBuyQuantity(CashOf(s), price, req[s].sizing)
  <1>3. CASE quantity = 0
    <2>1. Finish(s, "FAILED", txn[s]) /\ txn[s] \in TxnType
      BY <1>0, <1>2, <1>3 DEF TypeOK
    <2>2. QED
      BY <1>1, <2>1, TypeFinish DEF TypeOK
  <1>4. CASE quantity # 0
    <2>1. quantity \in Nat
      <3>1. CASE price = NoQuote
        BY <3>1
      <3>2. CASE price # NoQuote
        <4>1. price \in Nat \ {0} /\ CashOf(s) \in Int
          BY <1>0, <3>2, TradingAssumption, CashOfType
        <4>2. /\ req[s].sizing.mode \in {FixedShares, CashPercent}
              /\ req[s].sizing.quantity \in Nat /\ req[s].sizing.pct \in 1 .. 100
          BY <1>0, TradingAssumption DEF Runs
        <4>3. ResolveBuyQuantity(CashOf(s), price, req[s].sizing) \in Nat
          <5> DEFINE c == CashOf(s)
          <5> DEFINE z == req[s].sizing
          <5>1. /\ c \in Int /\ z.mode \in {FixedShares, CashPercent}
                /\ z.quantity \in Nat /\ z.pct \in 1 .. 100
            BY <4>1, <4>2
          <5> HIDE DEF c, z
          <5>2. ResolveBuyQuantity(c, price, z) \in Nat
            BY <4>1, <5>1, ResolveBuyQuantityType
          <5>3. QED
            BY <5>2 DEF c, z
        <4>4. QED
          BY <3>2, <4>3
      <3>3. QED
        BY <3>1, <3>2
    <2>2. /\ exe' = [exe EXCEPT ![s].seen = CashOf(s), ![s].quantity = quantity]
          /\ Go(s, "place") /\ UNCHANGED <<todo, txn>>
      BY <1>2, <1>4
    <2> HIDE DEF quantity
    <2> DEFINE new == [exe[s] EXCEPT !.seen = CashOf(s), !.quantity = quantity]
    <2>3. exe' = [exe EXCEPT ![s] = new]
      BY <2>2
    <2>4. new \in ExeType /\ new.signal = exe[s].signal /\ new.code = exe[s].code
      BY <1>0, <2>1, CashOfType DEF ExeType
    <2>5. /\ exe' \in [Sessions -> ExeType] /\ exe'[s] = new
          /\ \A o \in Sessions \ {s} : exe'[o] = exe[o]
      BY <1>0, <2>3, <2>4 DEF TypeOK
    <2>6. /\ pc' \in [Sessions -> Places] /\ pc'[s] = "place"
          /\ \A o \in Sessions \ {s} : pc'[o] = pc[o]
      BY <1>0, <2>2 DEF Go, Places, TypeOK
    <2>7. TraderOK(s)'
      BY <1>0, <1>1, <2>4, <2>5, <2>6 DEF TraderOK, Active
    <2>8. (\A o \in Traders : TraderOK(o)') /\ (\A b \in Boots : BootOK(b)')
      BY <1>0, <1>1, <2>5, <2>6, <2>7, OthersOK
    <2>9. QED
      BY <1>1, <2>2, <2>5, <2>6, <2>8, TablesOK DEF TypeOK
  <1>5. QED
    BY <1>3, <1>4

LEMMA TypePlace ==
  ASSUME TypeOK, NEW s \in Traders, Place(s)
  PROVE  TypeOK'
  <1>0. s \in Sessions /\ s \notin Boots /\ exe[s] \in ExeType
        /\ exe[s].code \in Codes /\ exe[s].signal \in {"BUY", "SELL"}
        /\ txn[s] \in TxnType
    BY TradingAssumption DEF Sessions, Place, TypeOK, TraderOK
  <1>1. pc[s] = "place" /\ UNCHANGED <<tables, locks, req, tally>>
    BY DEF Place
  <1>2. PICK price \in Prices \cup {NoQuote} :
       IF BadLot(s) \/ price = NoQuote
       THEN Finish(s, "FAILED", txn[s]) /\ UNCHANGED worth
       ELSE LET order == [by |-> s, code |-> exe[s].code,
                          side |-> exe[s].signal,
                          quantity |-> exe[s].quantity, price |-> price]
                loads == exe[s].signal = "SELL"
            IN  /\ txn' = [txn EXCEPT ![s].orders = @ \cup {order}]
                /\ exe' = [exe EXCEPT ![s].price = price,
                                      ![s].seen = IF loads THEN CashOf(s) ELSE @]
                /\ IF loads THEN LoadWorth(s) ELSE UNCHANGED worth
                /\ Go(s, "fill")
                /\ UNCHANGED todo
    BY DEF Place
  <1>3. CASE BadLot(s) \/ price = NoQuote
    <2>1. Finish(s, "FAILED", txn[s])
      BY <1>2, <1>3
    <2>2. QED
      BY <1>0, <1>1, <2>1, TypeFinish DEF TypeOK
  <1>4. CASE ~ BadLot(s) /\ price # NoQuote
    <2> DEFINE order == [by |-> s, code |-> exe[s].code, side |-> exe[s].signal,
                         quantity |-> exe[s].quantity, price |-> price]
    <2> DEFINE seen == IF exe[s].signal = "SELL" THEN CashOf(s) ELSE exe[s].seen
    <2> DEFINE new == [exe[s] EXCEPT !.price = price, !.seen = seen]
    <2>1. price \in Prices
      BY <1>4
    <2>2. order \in OrderType
      BY <1>0, <2>1 DEF OrderType, ExeType
    <2>3. seen \in Int
      BY <1>0, CashOfType DEF ExeType
    <2>4. /\ txn' = [txn EXCEPT ![s].orders = @ \cup {order}]
          /\ exe' = [exe EXCEPT ![s] = new]
          /\ Go(s, "fill") /\ UNCHANGED todo
      BY <1>2, <1>4
    <2> HIDE DEF order, seen
    <2>5. new \in ExeType /\ new.code = exe[s].code /\ new.signal = exe[s].signal
          /\ new.price = price
      BY <1>0, <2>1, <2>3 DEF ExeType
    <2>6. /\ exe' \in [Sessions -> ExeType] /\ exe'[s] = new
          /\ \A o \in Sessions \ {s} : exe'[o] = exe[o]
      BY <1>0, <2>4, <2>5 DEF TypeOK
    <2>7. txn' \in [Sessions -> TxnType]
      <3>1. [txn[s] EXCEPT !.orders = @ \cup {order}] \in TxnType
        BY <1>0, <2>2 DEF TxnType
      <3>2. QED
        BY <1>0, <2>4, <3>1 DEF TypeOK
    <2>8. /\ pc' \in [Sessions -> Places] /\ pc'[s] = "fill"
          /\ \A o \in Sessions \ {s} : pc'[o] = pc[o]
      BY <1>0, <2>4 DEF Go, Places, TypeOK
    <2>9. TraderOK(s)'
      BY <1>0, <1>1, <2>1, <2>5, <2>6, <2>8 DEF TraderOK, Active, TypeOK
    <2>10. (\A o \in Traders : TraderOK(o)') /\ (\A b \in Boots : BootOK(b)')
      BY <1>0, <1>1, <2>6, <2>8, <2>9, OthersOK
    <2>11. QED
      BY <1>1, <2>4, <2>6, <2>7, <2>8, <2>10, TablesOK DEF TypeOK
  <1>5. QED
    BY <1>3, <1>4

-----------------------------------------------------------------------------
(* Fills *)

LEMMA BoughtType ==
  ASSUME NEW s \in Sessions, exe[s] \in ExeType, exe[s].price \in Prices,
         NEW row \in RowType
  PROVE  Bought(s, row) \in RowType
  <1> DEFINE paid == BuyCost(exe[s].price, exe[s].quantity)
  <1>1. exe[s].quantity \in Nat /\ exe[s].price \in Nat
    BY TradingAssumption DEF ExeType
  <1>2. paid \in Nat
    BY <1>1, BuyCostType
  <1> DEFINE id == IF row.id = NoRow THEN s ELSE row.id
  <1> DEFINE qty == row.qty + exe[s].quantity
  <1> DEFINE cost == row.cost + paid
  <1>3. Bought(s, row) = [row EXCEPT !.id = id, !.qty = qty, !.cost = cost,
                                     !.price = exe[s].price]
    BY DEF Bought
  <1>4. id \in Sessions \cup {NoRow} /\ qty \in Nat /\ cost \in Nat
    BY <1>1, <1>2 DEF RowType
  <1> HIDE DEF id, qty, cost
  <1>5. QED
    BY <1>1, <1>3, <1>4 DEF RowType

LEMMA SoldType ==
  ASSUME NEW s \in Sessions, exe[s] \in ExeType, exe[s].price \in Prices,
         NEW row \in RowType, exe[s].quantity <= row.qty
  PROVE  Sold(s, row) \in RowType
  <1> DEFINE proceeds == SellProceeds(exe[s].price, exe[s].quantity)
  <1> DEFINE qty == row.qty - exe[s].quantity
  <1>1. exe[s].quantity \in Nat /\ exe[s].price \in Nat
    BY TradingAssumption DEF ExeType
  <1>2. proceeds \in Int
    BY <1>1, SellProceedsType
  <1>3. qty \in Nat /\ row.qty \in Nat /\ row.cost \in Nat /\ row.pnl \in Int
        /\ row.id \in Sessions \cup {NoRow}
    BY <1>1 DEF RowType
  <1> HIDE DEF qty
  <1>4. CostLeft(row, qty) \in Nat
    <2>1. CASE qty = 0
      BY <2>1 DEF CostLeft
    <2>2. CASE qty # 0
      <3>1. row.qty # 0
        BY <1>1, <1>3, <2>2 DEF qty
      <3>2. row.cost * qty \in Nat
        BY <1>3, Product
      <3>3. (row.cost * qty) \div row.qty \in Nat
        BY <1>3, <3>1, <3>2, Division
      <3>4. QED
        BY <2>2, <3>3 DEF CostLeft
    <2>3. QED
      BY <2>1, <2>2
  <1> DEFINE cost == CostLeft(row, qty)
  <1> DEFINE pnl == row.pnl + proceeds - (row.cost - cost)
  <1>5. Sold(s, row) = [row EXCEPT !.qty = qty, !.cost = cost,
                                   !.price = exe[s].price, !.pnl = pnl]
    BY DEF Sold, qty
  <1> HIDE DEF cost, proceeds
  <1>6. pnl \in Int /\ cost \in Nat
    BY <1>2, <1>3, <1>4 DEF cost
  <1> HIDE DEF pnl
  <1>7. Sold(s, row) = [id |-> row.id, qty |-> qty, cost |-> cost,
                        price |-> exe[s].price, pnl |-> pnl]
    BY <1>5 DEF RowType
  <1>8. QED
    BY <1>1, <1>3, <1>6, <1>7 DEF RowType

(* The position a fill selects, and what the step does to its session.     *)
LEMMA FoundType ==
  ASSUME TypeOK, NEW s \in Traders, pc[s] = "fill"
  PROVE  /\ s \in Sessions /\ exe[s] \in ExeType /\ exe[s].code \in Codes
         /\ exe[s].signal \in {"BUY", "SELL"} /\ exe[s].price \in Prices
         /\ txn[s] \in TxnType
         /\ Found(s) \in RowType
  <1>1. s \in Sessions /\ exe[s] \in ExeType /\ exe[s].code \in Codes
        /\ exe[s].signal \in {"BUY", "SELL"} /\ exe[s].price \in Prices
        /\ txn[s] \in TxnType
    BY DEF Sessions, TypeOK, TraderOK
  <1>2. RowOf(s, exe[s].code) \in RowType /\ exe[s].held \in RowType
    BY <1>1, RowOfType DEF ExeType
  <1>3. QED
    BY <1>1, <1>2 DEF Found

LEMMA FindStep ==
  ASSUME TypeOK, NEW s \in Traders, Find(s), ~ Refused(s)
  PROVE  /\ pc' = [pc EXCEPT ![s] = pc'[s]] /\ pc'[s] = "settle"
         /\ exe' = [exe EXCEPT ![s] = exe'[s]]
         /\ exe'[s] \in ExeType
         /\ exe'[s].held = Found(s) /\ exe'[s].code = exe[s].code
         /\ exe'[s].signal = exe[s].signal /\ exe'[s].quantity = exe[s].quantity
         /\ exe'[s].price = exe[s].price /\ exe'[s].seen = exe[s].seen
         /\ UNCHANGED <<tables, locks, req, todo, txn, worth, tally>>
  <1> DEFINE row == Found(s)
  <1> DEFINE new == [exe[s] EXCEPT !.held = row]
  <1>1. /\ pc' = [pc EXCEPT ![s] = "settle"] /\ exe' = [exe EXCEPT ![s] = new]
        /\ UNCHANGED <<tables, locks, req, todo, txn, worth, tally>>
    BY DEF Find, Go
  <1>2. s \in Sessions /\ exe[s] \in ExeType /\ row \in RowType
    BY FoundType DEF Find
  <1>3. exe'[s] = new /\ exe' = [exe EXCEPT ![s] = exe'[s]]
        /\ pc'[s] = "settle" /\ pc' = [pc EXCEPT ![s] = pc'[s]]
    BY <1>1, <1>2 DEF TypeOK
  <1> HIDE DEF row
  <1>4. /\ new \in ExeType /\ new.held = row /\ new.code = exe[s].code
        /\ new.signal = exe[s].signal /\ new.quantity = exe[s].quantity
        /\ new.price = exe[s].price /\ new.seen = exe[s].seen
    BY <1>2 DEF ExeType
  <1> HIDE DEF new
  <1>5. QED
    BY <1>1, <1>3, <1>4 DEF row

LEMMA TypeFind ==
  ASSUME TypeOK, NEW s \in Traders, Find(s)
  PROVE  TypeOK'
  <1>0. pc[s] = "fill" /\ UNCHANGED <<tables, locks, req, worth, tally>>
    BY DEF Find
  <1>1. s \in Sessions /\ s \notin Boots /\ exe[s] \in ExeType /\ exe[s].code \in Codes
        /\ exe[s].signal \in {"BUY", "SELL"} /\ exe[s].price \in Prices
        /\ txn[s] \in TxnType /\ Found(s) \in RowType
    BY <1>0, FoundType, TradingAssumption DEF Sessions
  <1>2. CASE Refused(s)
    <2>1. Finish(s, "FAILED", txn[s])
      BY <1>2 DEF Find
    <2>2. QED
      BY <1>0, <1>1, <2>1, TypeFinish DEF TypeOK
  <1>3. CASE ~ Refused(s)
    <2>1. /\ pc' = [pc EXCEPT ![s] = pc'[s]] /\ pc'[s] = "settle"
          /\ exe' = [exe EXCEPT ![s] = exe'[s]] /\ exe'[s] \in ExeType
          /\ exe'[s].held = Found(s) /\ exe'[s].code = exe[s].code
          /\ exe'[s].signal = exe[s].signal /\ exe'[s].quantity = exe[s].quantity
          /\ exe'[s].price = exe[s].price
          /\ UNCHANGED <<tables, locks, req, todo, txn, tally>>
      BY <1>3, FindStep
    <2>2. exe[s].signal = "SELL" => exe[s].quantity <= Found(s).qty
      BY <1>1, <1>3 DEF Refused, ExeType, RowType
    <2>3. TraderOK(s)'
      BY <1>0, <1>1, <2>1, <2>2 DEF TypeOK, TraderOK, Active
    <2>4. \A o \in Sessions \ {s} :
            pc'[o] = pc[o] /\ exe'[o] = exe[o] /\ req'[o] = req[o]
      BY <1>1, <2>1 DEF TypeOK
    <2>5. (\A o \in Traders : TraderOK(o)') /\ (\A b \in Boots : BootOK(b)')
      BY <1>1, <2>3, <2>4, OthersOK
    <2>6. pc' \in [Sessions -> Places] /\ exe' \in [Sessions -> ExeType]
      BY <1>1, <2>1 DEF TypeOK, Places
    <2>7. QED
      BY <1>0, <2>1, <2>5, <2>6, TablesOK DEF TypeOK
  <1>4. QED
    BY <1>2, <1>3

(* A settled fill: what it books is well formed.                           *)
LEMMA TypeSettle ==
  ASSUME TypeOK, NEW s \in Traders, NEW row \in RowType,
         NEW paid \in Int, NEW moved \in Int,
         Settle(s, row, paid, moved)
  PROVE  TypeOK'
  <1> DEFINE e == exe[s]
  <1> DEFINE loaded == e.held
  <1> DEFINE new == e.seen - paid
  <1> DEFINE trade == [by |-> s, code |-> e.code, side |-> e.signal,
                       quantity |-> e.quantity, price |-> e.price]
  <1> DEFINE writes == [txn[s] EXCEPT !.cash = Write(@, e.seen, new),
                                      !.pos[e.code] = WriteRow(@, loaded, row),
                                      !.trades = @ \cup {trade}]
  <1>0. pc[s] = "settle" /\ s \in Sessions /\ e \in ExeType /\ e.code \in Codes
        /\ loaded \in RowType /\ e.signal \in {"BUY", "SELL"} /\ e.price \in Prices /\ txn[s] \in TxnType
    BY DEF Sessions, TypeOK, TraderOK, Settle, ExeType
  <1>1. /\ UNCHANGED <<tables, req>>
        /\ Acquire(s, {AccountRow, e.code})
        /\ Finish(s, "APPLIED", writes)
        /\ tally' = [tally EXCEPT ![s].cash = @ - paid, ![s].qty[e.code] = @ + moved]
    BY DEF Settle
  <1>2. trade \in OrderType
    BY <1>0 DEF OrderType, ExeType
  <1>3. Write(txn[s].cash, e.seen, new) \in Int \cup {Keep}
    BY <1>0 DEF Write, TxnType, ExeType
  <1>4. WriteRow(txn[s].pos[e.code], loaded, row) \in Writes
    BY <1>0, WriteRowType DEF TxnType
  <1>5. writes \in TxnType
    <2> DEFINE w == WriteRow(txn[s].pos[e.code], loaded, row)
    <2> DEFINE p == [txn[s].pos EXCEPT ![e.code] = w]
    <2> DEFINE c == Write(txn[s].cash, e.seen, new)
    <2>1. p \in [Codes -> Writes]
      BY <1>0, <1>4 DEF TxnType
    <2>2. txn[s].trades \cup {trade} \in SUBSET OrderType
      BY <1>0, <1>2 DEF TxnType
    <2>3. writes = [txn[s] EXCEPT !.cash = c, !.pos = p, !.trades = @ \cup {trade}]
      BY <1>0
    <2> HIDE DEF p, c, w, trade, writes, e, new
    <2>4. QED
      BY <1>0, <1>3, <2>1, <2>2, <2>3 DEF TxnType, c
  <1>6. locks' \in [Sessions -> SUBSET (Codes \cup {AccountRow, "db"})]
    <2>1. {AccountRow, e.code} \in SUBSET (Codes \cup {AccountRow})
      BY <1>0
    <2>2. QED
      BY <1>0, <1>1, <2>1, AcquireType
  <1>7. tally' \in [Sessions -> TallyType]
    <2>1. tally[s] \in TallyType
      BY <1>0 DEF TypeOK
    <2> DEFINE qty == [tally[s].qty EXCEPT ![e.code] = @ + moved]
    <2>2. qty \in [Codes -> Int]
      BY <1>0, <2>1 DEF TallyType
    <2> DEFINE money == tally[s].cash - paid
    <2>3. money \in Int
      BY <2>1 DEF TallyType
    <2>4. tally' = [tally EXCEPT ![s] = [tally[s] EXCEPT !.cash = money, !.qty = qty]]
      BY <1>0, <1>1, <2>1 DEF TypeOK
    <2> HIDE DEF qty, money
    <2>5. [tally[s] EXCEPT !.cash = money, !.qty = qty] \in TallyType
      BY <2>1, <2>2, <2>3 DEF TallyType
    <2>6. QED
      BY <1>0, <2>4, <2>5 DEF TypeOK
  <1> HIDE DEF writes, loaded
  <1>8. QED
    BY <1>0, <1>1, <1>5, <1>6, <1>7, TypeFinish

LEMMA TypeFillBuy ==
  ASSUME TypeOK, NEW s \in Traders, FillBuy(s)
  PROVE  TypeOK'
  <1> DEFINE e == exe[s]
  <1> DEFINE cost == BuyCost(e.price, e.quantity)
  <1>1. Settle(s, Bought(s, e.held), cost, e.quantity)
    BY DEF FillBuy
  <1>2. s \in Sessions /\ e \in ExeType /\ e.price \in Prices
    BY <1>1 DEF Sessions, TypeOK, TraderOK, Settle
  <1>3. e.held \in RowType /\ e.quantity \in Nat /\ e.price \in Nat
    BY <1>2, TradingAssumption DEF ExeType
  <1>4. cost \in Nat
    BY <1>3, BuyCostType
  <1>5. Bought(s, e.held) \in RowType
    BY <1>2, <1>3, BoughtType
  <1> HIDE DEF cost
  <1>6. cost \in Int /\ e.quantity \in Int
    BY <1>3, <1>4
  <1>7. QED
    BY <1>1, <1>5, <1>6, TypeSettle

LEMMA TypeFillSell ==
  ASSUME TypeOK, NEW s \in Traders, FillSell(s)
  PROVE  TypeOK'
  <1> DEFINE e == exe[s]
  <1> DEFINE paid == - SellProceeds(e.price, e.quantity)
  <1> DEFINE moved == - e.quantity
  <1>1. e.signal = "SELL" /\ Settle(s, Sold(s, e.held), paid, moved)
    BY DEF FillSell
  <1>2. s \in Sessions /\ e \in ExeType /\ e.price \in Prices
        /\ e.quantity <= e.held.qty
    BY <1>1 DEF Sessions, TypeOK, TraderOK, Settle
  <1>3. e.held \in RowType /\ e.quantity \in Nat /\ e.price \in Nat
    BY <1>2, TradingAssumption DEF ExeType
  <1>4. SellProceeds(e.price, e.quantity) \in Int
    BY <1>3, SellProceedsType
  <1>5. paid \in Int /\ moved \in Int
    BY <1>3, <1>4
  <1>6. Sold(s, e.held) \in RowType
    BY <1>2, <1>3, SoldType
  <1> HIDE DEF paid, moved
  <1>7. QED
    BY <1>1, <1>5, <1>6, TypeSettle

-----------------------------------------------------------------------------
(* Bootstraps *)

LEMMA TypeLoadAccount ==
  ASSUME TypeOK, NEW b \in Boots, LoadAccount(b)
  PROVE  TypeOK'
  <1> USE DEF TypeOK
  <1>0. b \in Sessions /\ b \notin Traders /\ exe[b] \in ExeType
    BY TradingAssumption DEF Sessions
  <1>1. PICK p \in Imports : req' = [req EXCEPT ![b] = p]
    BY DEF LoadAccount
  <1>2. UNCHANGED <<tables, locks, todo, txn, tally>>
    BY DEF LoadAccount
  <1>3. exe' = [exe EXCEPT ![b] = [exe[b] EXCEPT !.seen = CashOf(b)]]
    BY DEF LoadAccount
  <1>4. [exe[b] EXCEPT !.seen = CashOf(b)] \in ExeType
    BY <1>0, CashOfType DEF ExeType
  <1>5. exe' \in [Sessions -> ExeType] /\ \A o \in Sessions \ {b} : exe'[o] = exe[o]
    BY <1>0, <1>3, <1>4
  <1>6. /\ pc' \in [Sessions -> Places] /\ pc'[b] = "reset"
        /\ \A o \in Sessions \ {b} : pc'[o] = pc[o]
    BY <1>0 DEF LoadAccount, Go, Places
  <1>7. BootOK(b)' /\ req' \in [Sessions -> {NoRequest} \cup Runs \cup Imports]
    BY <1>0, <1>1, <1>6 DEF BootOK
  <1>8. (\A o \in Traders : TraderOK(o)') /\ (\A o \in Boots : BootOK(o)')
    BY <1>0, <1>1, <1>5, <1>6, <1>7, OthersOK
  <1>9. QED
    BY <1>2, <1>5, <1>6, <1>7, <1>8, TablesOK

(* A step of a bootstrap that writes into its transaction.                 *)
LEMMA TypeImportStep ==
  ASSUME TypeOK, NEW b \in Boots, pc[b] \in {"reset", "import"},
         UNCHANGED <<tables, req, todo, exe, tally>>,
         NEW place \in {"import", "commit"}, Go(b, place),
         NEW rows \in SUBSET (Codes \cup {AccountRow}), Acquire(b, rows),
         NEW written \in TxnType, txn' = [txn EXCEPT ![b] = written]
  PROVE  TypeOK'
  <1> USE DEF TypeOK
  <1>0. b \in Sessions /\ b \notin Traders
    BY TradingAssumption DEF Sessions
  <1>1. txn' \in [Sessions -> TxnType]
    BY <1>0
  <1>2. /\ pc' \in [Sessions -> Places] /\ pc'[b] = place
        /\ \A o \in Sessions \ {b} : pc'[o] = pc[o]
    BY <1>0 DEF Go, Places
  <1>3. locks' \in [Sessions -> SUBSET (Codes \cup {AccountRow, "db"})]
    BY <1>0, AcquireType
  <1>4. BootOK(b)'
    BY <1>0, <1>2 DEF BootOK, Active
  <1>5. (\A o \in Traders : TraderOK(o)') /\ (\A o \in Boots : BootOK(o)')
    BY <1>0, <1>2, <1>4, OthersOK
  <1>6. QED
    BY <1>1, <1>2, <1>3, <1>5, TablesOK

LEMMA TypeReset ==
  ASSUME TypeOK, NEW b \in Boots, Reset(b)
  PROVE  TypeOK'
  <1> DEFINE deleted == { c \in Codes : pos[c].id # NoRow }
  <1> DEFINE rows == deleted \cup
                       (IF req[b].cash = exe[b].seen THEN {} ELSE {AccountRow})
  <1> DEFINE money == Write(txn[b].cash, exe[b].seen, req[b].cash)
  <1> DEFINE left == [c \in Codes |-> IF c \in deleted THEN NoPosition ELSE KeepRow]
  <1> DEFINE written == [txn[b] EXCEPT !.cash = money, !.pos = left]
  <1>0. b \in Sessions /\ txn[b] \in TxnType /\ req[b] \in Imports
        /\ exe[b] \in ExeType
    BY DEF Sessions, Reset, TypeOK, BootOK, Active
  <1>1. /\ pc[b] = "reset" /\ UNCHANGED <<tables, req, todo, exe, tally>>
        /\ Go(b, "import") /\ Acquire(b, rows) /\ txn' = [txn EXCEPT ![b] = written]
    BY DEF Reset
  <1>2. rows \in SUBSET (Codes \cup {AccountRow})
    OBVIOUS
  <1>3. money \in Int \cup {Keep}
    BY <1>0, TradingAssumption DEF Write, TxnType
  <1>4. left \in [Codes -> Writes]
    <2>1. NoPosition \in Writes /\ KeepRow \in Writes
      BY EmptyRecords DEF RowType, Writes, NoPosition
    <2>2. QED
      BY <2>1
  <1> HIDE DEF money, left, rows
  <1>5. written \in TxnType
    BY <1>0, <1>3, <1>4 DEF TxnType
  <1> HIDE DEF written
  <1>6. QED
    BY <1>1, <1>2, <1>5, TypeImportStep

(* The rows of a payload are well formed.                                  *)
ImportedRow(b, c) ==
  [id |-> b, qty |-> req[b].rows[c].qty,
   cost |-> req[b].rows[c].qty * req[b].rows[c].avg,
   price |-> req[b].rows[c].price, pnl |-> 0]

LEMMA ImportedRowType ==
  ASSUME NEW b \in Boots, req[b] \in Imports, NEW c \in Codes
  PROVE  ImportedRow(b, c) \in RowType
  <1> DEFINE given == req[b].rows[c]
  <1>1. given \in [qty : Nat, avg : Nat, price : Nat]
    BY TradingAssumption
  <1>2. given.qty \in Nat /\ given.avg \in Nat /\ given.price \in Nat
    BY <1>1
  <1>3. given.qty * given.avg \in Nat
    BY <1>2
  <1> DEFINE cost == given.qty * given.avg
  <1>4. ImportedRow(b, c) = [id |-> b, qty |-> given.qty, cost |-> cost,
                             price |-> given.price, pnl |-> 0]
    BY DEF ImportedRow
  <1>5. b \in Sessions /\ cost \in Nat
    BY <1>3 DEF Sessions
  <1> HIDE DEF given, cost
  <1>6. QED
    BY <1>2, <1>4, <1>5 DEF RowType

LEMMA TypeImport ==
  ASSUME TypeOK, NEW b \in Boots, Import(b)
  PROVE  TypeOK'
  <1> DEFINE rows == Imported(req[b]) \cup {AccountRow}
  <1> DEFINE brought == [c \in Codes |-> IF c \in Imported(req[b])
                                         THEN ImportedRow(b, c)
                                         ELSE txn[b].pos[c]]
  <1> DEFINE written == [txn[b] EXCEPT !.pos = brought]
  <1>0. b \in Sessions /\ txn[b] \in TxnType /\ req[b] \in Imports
    BY DEF Sessions, Import, TypeOK, BootOK, Active
  <1>1. /\ pc[b] = "import" /\ UNCHANGED <<tables, req, todo, exe, tally>>
        /\ Go(b, "commit") /\ Acquire(b, rows)
        /\ txn' = [txn EXCEPT ![b] = written]
    BY DEF Import, ImportedRow, Imported
  <1>2. rows \in SUBSET (Codes \cup {AccountRow})
    BY DEF Imported
  <1>3. brought \in [Codes -> Writes]
    <2>1. \A c \in Codes : ImportedRow(b, c) \in Writes
      BY <1>0, ImportedRowType DEF RowType, Writes
    <2>2. \A c \in Codes : txn[b].pos[c] \in Writes
      BY <1>0 DEF TxnType
    <2>3. QED
      BY <2>1, <2>2
  <1> HIDE DEF brought, rows
  <1>4. written \in TxnType
    BY <1>0, <1>3 DEF TxnType
  <1> HIDE DEF written
  <1>5. QED
    BY <1>1, <1>2, <1>4, TypeImportStep

-----------------------------------------------------------------------------
(* Ends *)

LEMMA CloseType ==
  ASSUME TypeOK, NEW s \in Sessions, NEW how \in {"done", "failed"}, Close(s, how)
  PROVE  /\ pc' \in [Sessions -> Places]
         /\ locks' \in [Sessions -> SUBSET (Codes \cup {AccountRow, "db"})]
         /\ req' \in [Sessions -> {NoRequest} \cup Runs \cup Imports]
         /\ todo' \in [Sessions -> SUBSET Codes]
         /\ exe' \in [Sessions -> ExeType]
         /\ txn' \in [Sessions -> TxnType]
         /\ tally' \in [Sessions -> TallyType]
         /\ \A o \in Traders : TraderOK(o)'
         /\ \A o \in Boots : BootOK(o)'
  <1> USE DEF TypeOK
  <1>1. /\ pc' \in [Sessions -> Places] /\ pc'[s] = how
        /\ \A o \in Sessions \ {s} :
              pc'[o] = pc[o] /\ exe'[o] = exe[o] /\ req'[o] = req[o]
    BY DEF Close, Go, Places
  <1>2. /\ exe' \in [Sessions -> ExeType] /\ txn' \in [Sessions -> TxnType]
        /\ tally' \in [Sessions -> TallyType]
    BY EmptyRecords DEF Close
  <1>3. /\ locks' \in [Sessions -> SUBSET (Codes \cup {AccountRow, "db"})]
        /\ req' \in [Sessions -> {NoRequest} \cup Runs \cup Imports]
        /\ todo' \in [Sessions -> SUBSET Codes]
    BY DEF Close
  <1>4. (s \in Traders => TraderOK(s)') /\ (s \in Boots => BootOK(s)')
    BY <1>1 DEF TraderOK, BootOK, Active
  <1>5. QED
    BY <1>1, <1>2, <1>3, <1>4, OthersOK

LEMMA ApplyType ==
  ASSUME TypeOK, NEW s \in Sessions, Apply(s)
  PROVE  /\ cash' \in Int /\ pos' \in [Codes -> RowType]
         /\ runs' \subseteq RunType /\ orders' \subseteq OrderType
         /\ trades' \subseteq OrderType
  <1>1. cash' \in Int
    BY CashOfType DEF Apply
  <1>2. pos' \in [Codes -> RowType]
    BY RowOfType DEF Apply
  <1>3. txn[s] \in TxnType
    BY DEF TypeOK
  <1>4. QED
    BY <1>1, <1>2, <1>3 DEF Apply, TypeOK, TxnType

LEMMA TypeCommitRun ==
  ASSUME TypeOK, NEW s \in Traders, CommitRun(s)
  PROVE  TypeOK'
  <1>0. s \in Sessions /\ tally[s] \in TallyType
    BY DEF Sessions, TypeOK
  <1>1. Apply(s) /\ Close(s, "done")
    BY DEF CommitRun
  <1>2. book' \in TallyType
    <2> DEFINE money == book.cash + tally[s].cash
    <2> DEFINE held == [c \in Codes |-> book.qty[c] + tally[s].qty[c]]
    <2>1. book \in TallyType
      BY DEF TypeOK
    <2>2. book' = [book EXCEPT !.cash = money, !.qty = held]
      BY DEF CommitRun
    <2>3. money \in Int /\ held \in [Codes -> Int]
      BY <1>0, <2>1 DEF TallyType
    <2> HIDE DEF money, held
    <2>4. QED
      BY <2>1, <2>2, <2>3 DEF TallyType
  <1>3. QED
    BY <1>0, <1>1, <1>2, ApplyType, CloseType DEF TypeOK

LEMMA TypeCommitImport ==
  ASSUME TypeOK, NEW b \in Boots, CommitImport(b)
  PROVE  TypeOK'
  <1>0. b \in Sessions
    BY DEF Sessions
  <1>1. Apply(b) /\ Close(b, "done")
    BY DEF CommitImport
  <1>2. cash' \in Int /\ pos' \in [Codes -> RowType]
    BY <1>0, <1>1, ApplyType
  <1>3. book' = [cash |-> cash', qty |-> [c \in Codes |-> pos'[c].qty]]
    BY DEF CommitImport
  <1>4. book' \in TallyType
    BY <1>2, <1>3 DEF RowType, TallyType
  <1>5. QED
    BY <1>0, <1>1, <1>4, ApplyType, CloseType DEF TypeOK

LEMMA TypeFail ==
  ASSUME TypeOK, NEW s \in Sessions, Fail(s)
  PROVE  TypeOK'
  <1>1. Close(s, "failed") /\ UNCHANGED tables
    BY DEF Fail
  <1>2. QED
    BY <1>1, TablesOK, CloseType DEF TypeOK

-----------------------------------------------------------------------------

LEMMA TypeNext == TypeOK /\ [Next]_vars => TypeOK'
  <1> SUFFICES ASSUME TypeOK, [Next]_vars PROVE TypeOK'
    OBVIOUS
  <1>1. ASSUME NEW s \in Traders, Run(s) PROVE TypeOK'
    BY <1>1, TypeStartRun, TypeEvaluate, TypeCannotEvaluate, TypeAbandon,
       TypeRecord, TypeCheck, TypeSize, TypePlace, TypeFind, TypeFillBuy, TypeFillSell,
       TypeCommitRun
    DEF Run
  <1>2. ASSUME NEW b \in Boots, Bootstrap(b) PROVE TypeOK'
    BY <1>2, TypeLoadAccount, TypeReset, TypeImport, TypeCommitImport DEF Bootstrap
  <1>3. ASSUME NEW s \in Sessions, Fail(s) PROVE TypeOK'
    BY <1>3, TypeFail
  <1>4. CASE UNCHANGED vars
    BY <1>4 DEF vars, TypeOK, TraderOK, BootOK, Active
  <1>5. QED
    BY <1>1, <1>2, <1>3, <1>4 DEF Next

(* Every session, whatever it interleaves with and wherever it fails, has  *)
(* a code and a signal when it records a run, a sizing when it sizes and a *)
(* price when it fills; no stored quantity, cost or price is negative.     *)
THEOREM TradingTypeOK == Spec => []TypeOK
  BY TypeInit, TypeNext, PTL DEF Spec

-----------------------------------------------------------------------------
(* The ledger under a write lock *)

(* Taking the write lock excludes the others.                              *)
LEMMA AcquireLock ==
  ASSUME TypeOK, WriteLock, LockedLedger, NEW s \in Sessions, NEW rows,
         Acquire(s, rows)
  PROVE  /\ Holds(s)'
         /\ \A o \in Sessions \ {s} : locks'[o] = locks[o] /\ ~ Holds(o)'
  BY DEF TypeOK, Acquire, Holds

(* What a session reads depends on the tables and its transaction only.    *)
LEMMA SameView ==
  ASSUME NEW o \in Sessions, cash' = cash, pos' = pos,
         txn'[o].cash = txn[o].cash, txn'[o].pos = txn[o].pos
  PROVE  CashOf(o)' = CashOf(o) /\ \A c \in Codes : RowOf(o, c)' = RowOf(o, c)
  BY DEF CashOf, RowOf

(* A step of one session, which commits nothing, does not disturb another. *)
LEMMA OthersUndisturbed ==
  ASSUME TypeOK, LockedLedger, NEW s \in Sessions, UNCHANGED tables,
         \A o \in Sessions \ {s} :
           /\ pc'[o] = pc[o] /\ locks'[o] = locks[o] /\ exe'[o] = exe[o]
           /\ txn'[o] = txn[o] /\ tally'[o] = tally[o]
  PROVE  \A o \in Sessions \ {s} : Undisturbed(o)'
  <1> SUFFICES ASSUME NEW o \in Sessions \ {s} PROVE Undisturbed(o)'
    OBVIOUS
  <1>1. CashOf(o)' = CashOf(o) /\ \A c \in Codes : RowOf(o, c)' = RowOf(o, c)
    BY SameView DEF tables
  <1>2. Undisturbed(o)
    BY DEF LockedLedger
  <1>3. Holds(o)' <=> Holds(o)
    BY DEF Holds
  <1>4. o \in Traders /\ pc[o] \in {"size", "place", "fill", "settle"} =>
          exe[o].code \in Codes
    BY DEF TypeOK, TraderOK
  <1>5. QED
    BY <1>1, <1>2, <1>3, <1>4 DEF Undisturbed, tables

(* So a step that commits nothing has to keep its own session undisturbed  *)
(* and the lock exclusive.                                                 *)
LEMMA LockedStep ==
  ASSUME TypeOK, LockedLedger, NEW s \in Sessions, UNCHANGED tables,
         \A o \in Sessions \ {s} :
           /\ pc'[o] = pc[o] /\ locks'[o] = locks[o] /\ exe'[o] = exe[o]
           /\ txn'[o] = txn[o] /\ tally'[o] = tally[o],
         Holds(s)' => Holds(s) \/ \A o \in Sessions \ {s} : ~ Holds(o)',
         Undisturbed(s)'
  PROVE  LockedLedger'
  <1>1. \A o \in Sessions : Undisturbed(o)'
    BY OthersUndisturbed
  <1>2. \A o \in Sessions \ {s} : Holds(o)' <=> Holds(o)
    BY DEF Holds
  <1>3. \A p, o \in Sessions : Holds(p)' /\ Holds(o)' => p = o
    BY <1>2 DEF LockedLedger
  <1>4. LedgerBalanced'
    BY DEF LockedLedger, LedgerBalanced, tables
  <1>5. QED
    BY <1>1, <1>3, <1>4 DEF LockedLedger

(* A step that changes nothing of a session but where it is and what it    *)
(* has in its local variables.                                             *)
LEMMA LocalStep ==
  ASSUME TypeOK, LockedLedger, NEW s \in Traders, UNCHANGED <<tables, locks, tally>>,
         pc' = [pc EXCEPT ![s] = pc'[s]], exe' = [exe EXCEPT ![s] = exe'[s]],
         txn' = [txn EXCEPT ![s] = txn'[s]],
         txn'[s].cash = txn[s].cash, txn'[s].pos = txn[s].pos,
         pc'[s] # "import",
         pc'[s] \in {"check", "size", "place", "fill", "settle"} => Holds(s),
         pc'[s] \in {"size", "place", "fill", "settle"} =>
           exe'[s].code \in Codes /\ exe'[s].held = RowOf(s, exe'[s].code),
         pc'[s] \in {"fill", "settle"} \/ (pc'[s] = "place" /\ exe'[s].signal = "BUY") =>
           exe'[s].seen = CashOf(s)
  PROVE  LockedLedger'
  <1>0. s \in Sessions /\ s \notin Boots
    BY TradingAssumption DEF Sessions
  <1>1. \A o \in Sessions \ {s} :
           /\ pc'[o] = pc[o] /\ locks'[o] = locks[o] /\ exe'[o] = exe[o]
           /\ txn'[o] = txn[o] /\ tally'[o] = tally[o]
    BY <1>0 DEF TypeOK
  <1>2. CashOf(s)' = CashOf(s) /\ \A c \in Codes : RowOf(s, c)' = RowOf(s, c)
    BY <1>0, SameView DEF tables
  <1>3. Holds(s)' <=> Holds(s)
    BY DEF Holds
  <1>4. Undisturbed(s)
    BY <1>0 DEF LockedLedger
  <1>5. Undisturbed(s)'
    BY <1>0, <1>2, <1>3, <1>4 DEF Undisturbed, tables
  <1>6. QED
    BY <1>0, <1>1, <1>3, <1>5, LockedStep

-----------------------------------------------------------------------------

LEMMA LockedInit == WriteLock /\ Init => LockedLedger
  <1> SUFFICES ASSUME Init PROVE LockedLedger
    OBVIOUS
  <1>1. \A s \in Sessions : ~ Holds(s)
    BY DEF Init, Holds
  <1>2. LedgerBalanced
    BY DEF Init, LedgerBalanced, NoPosition
  <1>3. \A s \in Sessions : Undisturbed(s)
    <2> SUFFICES ASSUME NEW s \in Sessions PROVE Undisturbed(s)
      OBVIOUS
    <2>1. pc[s] = "idle" /\ txn[s] = NoWrites /\ tally[s] = NoTally
      BY DEF Init
    <2>2. txn[s].cash = Keep /\ \A c \in Codes : txn[s].pos[c] = KeepRow
      BY <2>1 DEF NoWrites
    <2>3. CashOf(s) = cash + tally[s].cash
      BY <2>1, <2>2, TradingAssumption DEF CashOf, Col, NoTally, Init
    <2>4. \A c \in Codes : RowOf(s, c).qty = pos[c].qty + tally[s].qty[c]
      BY <2>1, <2>2 DEF RowOf, Col, KeepRow, NoTally, Init, NoPosition
    <2>5. QED
      BY <2>1, <2>2, <2>3, <2>4 DEF Undisturbed
  <1>4. QED
    BY <1>1, <1>2, <1>3 DEF LockedLedger

LEMMA LockedStartRun ==
  ASSUME TypeOK, LockedLedger, NEW s \in Traders, StartRun(s)
  PROVE  LockedLedger'
  <1>0. s \in Sessions
    BY DEF Sessions
  <1>1. /\ UNCHANGED <<tables, locks, exe, txn, tally>>
        /\ \E where \in {"evaluate", "commit"} : pc' = [pc EXCEPT ![s] = where]
    BY DEF StartRun, NextCode, Go
  <1>2. pc' = [pc EXCEPT ![s] = pc'[s]] /\ pc'[s] \in {"evaluate", "commit"}
    BY <1>0, <1>1 DEF TypeOK
  <1>3. exe' = [exe EXCEPT ![s] = exe'[s]] /\ txn' = [txn EXCEPT ![s] = txn'[s]]
    BY <1>0, <1>1 DEF TypeOK
  <1>4. QED
    BY <1>1, <1>2, <1>3, LocalStep

LEMMA LockedEvaluate ==
  ASSUME TypeOK, LockedLedger, NEW s \in Traders, Evaluate(s)
  PROVE  LockedLedger'
  <1>0. s \in Sessions
    BY DEF Sessions
  <1>1. /\ UNCHANGED <<tables, locks, txn, tally>>
        /\ pc' = [pc EXCEPT ![s] = "record"]
        /\ \E run : exe' = [exe EXCEPT ![s] = run]
    BY DEF Evaluate, Go
  <1>2. pc' = [pc EXCEPT ![s] = pc'[s]] /\ pc'[s] = "record"
    BY <1>0, <1>1 DEF TypeOK
  <1>3. exe' = [exe EXCEPT ![s] = exe'[s]] /\ txn' = [txn EXCEPT ![s] = txn'[s]]
    BY <1>0, <1>1 DEF TypeOK
  <1>4. QED
    BY <1>1, <1>2, <1>3, LocalStep

LEMMA LockedCannotEvaluate ==
  ASSUME TypeOK, LockedLedger, NEW s \in Traders, CannotEvaluate(s)
  PROVE  LockedLedger'
  <1>0. s \in Sessions
    BY DEF Sessions
  <1>1. /\ UNCHANGED <<tables, locks, exe, txn, tally>>
        /\ \E where \in {"evaluate", "commit"} : pc' = [pc EXCEPT ![s] = where]
    BY DEF CannotEvaluate, NextCode, Go
  <1>2. pc' = [pc EXCEPT ![s] = pc'[s]] /\ pc'[s] \in {"evaluate", "commit"}
    BY <1>0, <1>1 DEF TypeOK
  <1>3. exe' = [exe EXCEPT ![s] = exe'[s]] /\ txn' = [txn EXCEPT ![s] = txn'[s]]
    BY <1>0, <1>1 DEF TypeOK
  <1>4. QED
    BY <1>1, <1>2, <1>3, LocalStep

(* What Abandon does to the session itself.                                *)
LEMMA AbandonStep ==
  ASSUME TypeOK, NEW s \in Traders, Abandon(s)
  PROVE  /\ pc' = [pc EXCEPT ![s] = pc'[s]] /\ pc'[s] = "commit"
         /\ exe' = [exe EXCEPT ![s] = exe'[s]] /\ exe'[s] = NoRun
         /\ txn' = [txn EXCEPT ![s] = txn'[s]]
         /\ txn'[s].cash = txn[s].cash /\ txn'[s].pos = txn[s].pos
  <1>0. s \in Sessions /\ txn[s] \in TxnType
    BY DEF Sessions, TypeOK
  <1>1. pc' = [pc EXCEPT ![s] = "commit"] /\ exe' = [exe EXCEPT ![s] = NoRun]
    BY DEF Abandon, NextCode, Go
  <1>2. PICK rows : txn' = [txn EXCEPT ![s].runs = rows]
    BY DEF Abandon
  <1>3. /\ txn' = [txn EXCEPT ![s] = txn'[s]]
        /\ txn'[s].cash = txn[s].cash /\ txn'[s].pos = txn[s].pos
    BY <1>0, <1>2 DEF TypeOK, TxnType
  <1>4. QED
    BY <1>0, <1>1, <1>3 DEF TypeOK

LEMMA LockedAbandon ==
  ASSUME TypeOK, LockedLedger, NEW s \in Traders, Abandon(s)
  PROVE  LockedLedger'
  BY AbandonStep, LocalStep DEF Abandon

(* What Finish does to the session itself.                                 *)
LEMMA FinishStep ==
  ASSUME TypeOK, NEW s \in Traders, NEW status, NEW writes \in TxnType,
         Finish(s, status, writes)
  PROVE  /\ pc' = [pc EXCEPT ![s] = pc'[s]] /\ pc'[s] \in {"evaluate", "commit"}
         /\ exe' = [exe EXCEPT ![s] = exe'[s]]
         /\ txn' = [txn EXCEPT ![s] = txn'[s]]
         /\ txn'[s].cash = writes.cash /\ txn'[s].pos = writes.pos
         /\ txn'[s].trades = writes.trades
  <1>0. s \in Sessions
    BY DEF Sessions
  <1>1. pc' = [pc EXCEPT ![s] = IF todo[s] \ {exe[s].code} = {} THEN "commit"
                                ELSE "evaluate"]
    BY DEF Finish, NextCode, Go
  <1>2. exe' = [exe EXCEPT ![s] = NoRun]
    BY DEF Finish
  <1>3. PICK row : txn' = [txn EXCEPT ![s] = [writes EXCEPT !.runs = @ \cup {row}]]
    BY DEF Finish
  <1>4. txn'[s] = [writes EXCEPT !.runs = @ \cup {row}]
    BY <1>0, <1>3 DEF TypeOK
  <1>5. /\ txn'[s].cash = writes.cash /\ txn'[s].pos = writes.pos
        /\ txn'[s].trades = writes.trades
    BY <1>4 DEF TxnType
  <1>6. txn' = [txn EXCEPT ![s] = txn'[s]]
    BY <1>3, <1>4
  <1>7. pc' = [pc EXCEPT ![s] = pc'[s]] /\ pc'[s] \in {"evaluate", "commit"}
    BY <1>0, <1>1 DEF TypeOK
  <1>8. exe' = [exe EXCEPT ![s] = exe'[s]]
    BY <1>0, <1>2 DEF TypeOK
  <1>9. QED
    BY <1>5, <1>6, <1>7, <1>8

(* A run that ends without a fill.                                         *)
LEMMA LockedFinish ==
  ASSUME TypeOK, LockedLedger, NEW s \in Traders, NEW status,
         Finish(s, status, txn[s]), UNCHANGED <<tables, locks, tally>>
  PROVE  LockedLedger'
  <1>1. txn[s] \in TxnType
    BY DEF TypeOK, Sessions
  <1>2. QED
    BY <1>1, FinishStep, LocalStep

LEMMA LockedRecord ==
  ASSUME TypeOK, WriteLock, LockedLedger, NEW s \in Traders, Record(s)
  PROVE  LockedLedger'
  <1>0. s \in Sessions /\ s \notin Boots /\ txn[s] \in TxnType
    BY TradingAssumption DEF Sessions, TypeOK
  <1>1. Acquire(s, {}) /\ UNCHANGED <<tables, req, worth, tally>>
    BY DEF Record
  <1>2. Holds(s)' /\ \A o \in Sessions \ {s} : locks'[o] = locks[o] /\ ~ Holds(o)'
    BY <1>0, <1>1, AcquireLock
  <1>3. /\ pc' = [pc EXCEPT ![s] = pc'[s]] /\ pc'[s] \in {"check", "evaluate", "commit"}
        /\ exe' = [exe EXCEPT ![s] = exe'[s]] /\ txn' = [txn EXCEPT ![s] = txn'[s]]
        /\ txn'[s].cash = txn[s].cash /\ txn'[s].pos = txn[s].pos
    <2>1. CASE req[s].execute
      BY <1>0, <2>1 DEF Record, Go, TypeOK
    <2>2. CASE ~ req[s].execute
      <3>1. Finish(s, "NONE", txn[s])
        BY <2>2 DEF Record
      <3>2. QED
        BY <1>0, <3>1, FinishStep
    <2>3. QED
      BY <2>1, <2>2
  <1>4. \A o \in Sessions \ {s} :
           /\ pc'[o] = pc[o] /\ exe'[o] = exe[o]
           /\ txn'[o] = txn[o] /\ tally'[o] = tally[o]
    BY <1>0, <1>1, <1>3 DEF TypeOK
  <1>5. CashOf(s)' = CashOf(s) /\ \A c \in Codes : RowOf(s, c)' = RowOf(s, c)
    BY <1>0, <1>1, <1>3, SameView DEF tables
  <1>6. Undisturbed(s)
    BY <1>0 DEF LockedLedger
  <1>7. Undisturbed(s)'
    BY <1>0, <1>1, <1>2, <1>3, <1>5, <1>6 DEF Undisturbed, tables
  <1>8. QED
    BY <1>0, <1>1, <1>2, <1>4, <1>7, LockedStep

LEMMA LockedCheck ==
  ASSUME TypeOK, LockedLedger, NEW s \in Traders, Check(s)
  PROVE  LockedLedger'
  <1> DEFINE row == RowOf(s, exe[s].code)
  <1> DEFINE open == OpenCodes([c \in Codes |-> RowOf(s, c)])
  <1>0. s \in Sessions /\ exe[s].code \in Codes /\ exe[s] \in ExeType
    BY DEF Sessions, Check, TypeOK, TraderOK
  <1>1. pc[s] = "check" /\ UNCHANGED <<tables, locks, req, worth, tally>>
    BY DEF Check
  <1>2. CASE Finish(s, "SKIPPED", txn[s])
    BY <1>1, <1>2, LockedFinish
  <1>3. CASE /\ exe' = [exe EXCEPT ![s].held = row,
                                   ![s].quantity = IF exe[s].signal = "SELL"
                                                   THEN row.qty ELSE 0]
             /\ Go(s, IF exe[s].signal = "SELL" THEN "place" ELSE "size")
             /\ UNCHANGED <<todo, txn>>
    <2> HIDE DEF row
    <2> DEFINE quantity == IF exe[s].signal = "SELL" THEN row.qty ELSE 0
    <2> DEFINE new == [exe[s] EXCEPT !.held = row, !.quantity = quantity]
    <2>1. exe' = [exe EXCEPT ![s] = new]
      BY <1>3
    <2> HIDE DEF quantity
    <2>2. new.held = row /\ new.code = exe[s].code /\ new.signal = exe[s].signal
      BY <1>0 DEF ExeType
    <2>3. exe'[s] = new /\ exe' = [exe EXCEPT ![s] = exe'[s]]
      BY <1>0, <2>1 DEF TypeOK
    <2>4. /\ pc' = [pc EXCEPT ![s] = pc'[s]]
          /\ pc'[s] = IF exe[s].signal = "SELL" THEN "place" ELSE "size"
      BY <1>0, <1>3 DEF Go, TypeOK
    <2>5. txn' = [txn EXCEPT ![s] = txn'[s]] /\ txn'[s] = txn[s]
      BY <1>0, <1>3 DEF TypeOK
    <2>6. Holds(s)
      BY <1>0, <1>1 DEF LockedLedger, Undisturbed
    <2>7. pc'[s] = "place" => exe'[s].signal # "BUY"
      BY <2>2, <2>3, <2>4
    <2>8. exe'[s].held = RowOf(s, exe'[s].code) /\ exe'[s].code \in Codes
      BY <1>0, <2>2, <2>3 DEF row
    <2>9. QED
      BY <1>1, <2>3, <2>4, <2>5, <2>6, <2>7, <2>8, LocalStep
  <1>4. QED
    BY <1>2, <1>3 DEF Check

LEMMA LockedSize ==
  ASSUME TypeOK, LockedLedger, NEW s \in Traders, Size(s)
  PROVE  LockedLedger'
  <1>0. s \in Sessions /\ exe[s].code \in Codes /\ exe[s] \in ExeType
    BY DEF Sessions, Size, TypeOK, TraderOK
  <1>1. pc[s] = "size" /\ UNCHANGED <<tables, locks, req, tally>>
    BY DEF Size
  <1>2. CASE Finish(s, "FAILED", txn[s])
    BY <1>1, <1>2, LockedFinish
  <1>3. ASSUME NEW quantity,
               exe' = [exe EXCEPT ![s].seen = CashOf(s), ![s].quantity = quantity],
               Go(s, "place"), UNCHANGED <<todo, txn>>
        PROVE  LockedLedger'
    <2> DEFINE new == [exe[s] EXCEPT !.seen = CashOf(s), !.quantity = quantity]
    <2>1. exe' = [exe EXCEPT ![s] = new]
      BY <1>3
    <2>2. new.held = exe[s].held /\ new.code = exe[s].code /\ new.seen = CashOf(s)
      BY <1>0 DEF ExeType
    <2>3. exe'[s] = new /\ exe' = [exe EXCEPT ![s] = exe'[s]]
      BY <1>0, <2>1 DEF TypeOK
    <2>4. pc' = [pc EXCEPT ![s] = pc'[s]] /\ pc'[s] = "place"
      BY <1>0, <1>3 DEF Go, TypeOK
    <2>5. txn' = [txn EXCEPT ![s] = txn'[s]] /\ txn'[s] = txn[s]
      BY <1>0, <1>3 DEF TypeOK
    <2>6. Holds(s) /\ exe[s].held = RowOf(s, exe[s].code)
      BY <1>0, <1>1 DEF LockedLedger, Undisturbed
    <2> HIDE DEF new
    <2>7. exe'[s].held = RowOf(s, exe'[s].code) /\ exe'[s].seen = CashOf(s)
          /\ exe'[s].code \in Codes
      BY <1>0, <2>2, <2>3, <2>6
    <2>8. QED
      BY <1>1, <2>3, <2>4, <2>5, <2>6, <2>7, LocalStep
  <1>4. QED
    BY <1>2, <1>3 DEF Size

LEMMA LockedPlace ==
  ASSUME TypeOK, LockedLedger, NEW s \in Traders, Place(s)
  PROVE  LockedLedger'
  <1>0. s \in Sessions /\ exe[s].code \in Codes /\ exe[s] \in ExeType
        /\ txn[s] \in TxnType /\ exe[s].signal \in {"BUY", "SELL"}
    BY DEF Sessions, Place, TypeOK, TraderOK
  <1>1. pc[s] = "place" /\ UNCHANGED <<tables, locks, req, tally>>
    BY DEF Place
  <1>2. CASE Finish(s, "FAILED", txn[s])
    BY <1>1, <1>2, LockedFinish
  <1> DEFINE seen == IF exe[s].signal = "SELL" THEN CashOf(s) ELSE exe[s].seen
  <1>3. ASSUME NEW price, NEW order,
               txn' = [txn EXCEPT ![s].orders = @ \cup {order}],
               exe' = [exe EXCEPT ![s].price = price, ![s].seen = seen],
               Go(s, "fill")
        PROVE  LockedLedger'
    <2> HIDE DEF seen
    <2> DEFINE new == [exe[s] EXCEPT !.price = price, !.seen = seen]
    <2>1. exe' = [exe EXCEPT ![s] = new]
      BY <1>3
    <2>2. new.held = exe[s].held /\ new.code = exe[s].code /\ new.seen = seen
      BY <1>0 DEF ExeType
    <2>3. exe'[s] = new /\ exe' = [exe EXCEPT ![s] = exe'[s]]
      BY <1>0, <2>1 DEF TypeOK
    <2>4. pc' = [pc EXCEPT ![s] = pc'[s]] /\ pc'[s] = "fill"
      BY <1>0, <1>3 DEF Go, TypeOK
    <2>5. /\ txn' = [txn EXCEPT ![s] = txn'[s]]
          /\ txn'[s].cash = txn[s].cash /\ txn'[s].pos = txn[s].pos
      <3>1. txn'[s] = [txn[s] EXCEPT !.orders = @ \cup {order}]
        BY <1>0, <1>3 DEF TypeOK
      <3>2. QED
        BY <1>0, <1>3, <3>1 DEF TypeOK, TxnType
    <2>6. /\ Holds(s) /\ exe[s].held = RowOf(s, exe[s].code)
          /\ seen = CashOf(s)
      BY <1>0, <1>1 DEF LockedLedger, Undisturbed, seen
    <2> HIDE DEF new
    <2>7. exe'[s].held = RowOf(s, exe'[s].code) /\ exe'[s].seen = CashOf(s)
          /\ exe'[s].code \in Codes
      BY <1>0, <2>2, <2>3, <2>6
    <2>8. QED
      BY <1>1, <2>3, <2>4, <2>5, <2>6, <2>7, LocalStep
  <1>4. QED
    BY <1>2, <1>3 DEF Place

-----------------------------------------------------------------------------
(* Fills *)

(* Under the lock the position found is the one that was loaded.           *)
LEMMA FoundCurrent ==
  ASSUME LockedLedger, NEW s \in Traders, pc[s] = "fill"
  PROVE  Found(s) = RowOf(s, exe[s].code) /\ exe[s].held = RowOf(s, exe[s].code)
  BY DEF LockedLedger, Undisturbed, Found, Sessions

LEMMA LockedFind ==
  ASSUME TypeOK, LockedLedger, NEW s \in Traders, Find(s)
  PROVE  LockedLedger'
  <1>0. pc[s] = "fill" /\ UNCHANGED <<tables, locks, req, worth, tally>>
    BY DEF Find
  <1>1. s \in Sessions /\ exe[s].code \in Codes
    BY <1>0, FoundType
  <1>2. CASE Refused(s)
    BY <1>0, <1>2, LockedFinish DEF Find
  <1>3. CASE ~ Refused(s)
    <2>1. /\ pc' = [pc EXCEPT ![s] = pc'[s]] /\ pc'[s] = "settle"
          /\ exe' = [exe EXCEPT ![s] = exe'[s]]
          /\ exe'[s].held = Found(s) /\ exe'[s].code = exe[s].code
          /\ exe'[s].seen = exe[s].seen
          /\ UNCHANGED txn
      BY <1>3, FindStep
    <2>2. Holds(s) /\ exe[s].seen = CashOf(s)
      BY <1>0, <1>1 DEF LockedLedger, Undisturbed
    <2>3. exe'[s].held = RowOf(s, exe'[s].code) /\ exe'[s].seen = CashOf(s)
      BY <1>0, <2>1, <2>2, FoundCurrent
    <2>4. txn' = [txn EXCEPT ![s] = txn'[s]]
      BY <1>1, <2>1 DEF TypeOK
    <2>5. QED
      BY <1>0, <1>1, <2>1, <2>2, <2>3, <2>4, LocalStep
  <1>4. QED
    BY <1>2, <1>3

(* Flushing a changed attribute of a current object makes the session see  *)
(* the new value, whether or not a column is written.                      *)
LEMMA WrittenColumn ==
  ASSUME NEW own, NEW stored, NEW new, new # Keep
  PROVE  Col(Write(own, Col(own, stored), new), stored) = new
  BY DEF Col, Write

LEMMA LockedSettle ==
  ASSUME TypeOK, WriteLock, LockedLedger, NEW s \in Traders,
         NEW code \in Codes, code = exe[s].code,
         NEW row \in RowType, NEW paid \in Int, NEW moved \in Int,
         row.qty = RowOf(s, code).qty + moved,
         Settle(s, row, paid, moved)
  PROVE  LockedLedger'
  <1> DEFINE e == exe[s]
  <1> DEFINE loaded == RowOf(s, code)
  <1> DEFINE new == e.seen - paid
  <1> DEFINE trade == [by |-> s, code |-> e.code, side |-> e.signal,
                       quantity |-> e.quantity, price |-> e.price]
  <1> DEFINE writes == [txn[s] EXCEPT !.cash = Write(@, e.seen, new),
                                      !.pos[code] = WriteRow(@, loaded, row),
                                      !.trades = @ \cup {trade}]
  <1>0. pc[s] = "settle" /\ UNCHANGED tables
        /\ s \in Sessions /\ s \notin Boots /\ code \in Codes /\ txn[s] \in TxnType
        /\ e \in ExeType /\ e.signal \in {"BUY", "SELL"} /\ e.price \in Prices
    BY TradingAssumption DEF Sessions, TypeOK, TraderOK, Settle
  <1>2. Undisturbed(s) /\ Holds(s) /\ e.seen = CashOf(s) /\ e.held = loaded
    BY <1>0 DEF LockedLedger, Undisturbed
  <1>1. /\ Acquire(s, {AccountRow, code})
        /\ Finish(s, "APPLIED", writes)
        /\ tally' = [tally EXCEPT ![s].cash = @ - paid, ![s].qty[code] = @ + moved]
    BY <1>2 DEF Settle
  <1>3. Holds(s)' /\ \A o \in Sessions \ {s} : locks'[o] = locks[o] /\ ~ Holds(o)'
    BY <1>0, <1>1, AcquireLock
  <1>4. /\ writes \in TxnType
        /\ writes.cash = Write(txn[s].cash, e.seen, new)
        /\ writes.pos = [txn[s].pos EXCEPT ![code] = WriteRow(@, loaded, row)]
    <2> DEFINE w == WriteRow(txn[s].pos[code], loaded, row)
    <2> DEFINE rows == [txn[s].pos EXCEPT ![code] = w]
    <2> DEFINE money == Write(txn[s].cash, e.seen, new)
    <2>1. loaded \in RowType /\ txn[s].pos[code] \in Writes
      BY <1>0, RowOfType DEF TxnType
    <2>2. w \in Writes
      BY <2>1, WriteRowType
    <2>3. rows \in [Codes -> Writes]
      BY <1>0, <2>2 DEF TxnType
    <2>4. money \in Int \cup {Keep}
      BY <1>0 DEF Write, TxnType, ExeType
    <2>5. trade \in OrderType
      BY <1>0 DEF OrderType, ExeType
    <2>6. writes = [txn[s] EXCEPT !.cash = money, !.pos = rows, !.trades = @ \cup {trade}]
      BY <1>0
    <2> HIDE DEF rows, money, w, trade, writes, e, new, loaded
    <2>7. writes \in TxnType
      BY <1>0, <2>3, <2>4, <2>5, <2>6 DEF TxnType
    <2>8. writes.cash = money /\ writes.pos = rows
      BY <1>0, <2>6 DEF TxnType
    <2>9. QED
      BY <2>7, <2>8 DEF money, rows, w
  <1> HIDE DEF writes
  <1>5. /\ pc' = [pc EXCEPT ![s] = pc'[s]] /\ pc'[s] \in {"evaluate", "commit"}
        /\ exe' = [exe EXCEPT ![s] = exe'[s]] /\ txn' = [txn EXCEPT ![s] = txn'[s]]
        /\ txn'[s].cash = writes.cash /\ txn'[s].pos = writes.pos
    BY <1>1, <1>4, FinishStep
  <1>6. \A o \in Sessions \ {s} :
           /\ pc'[o] = pc[o] /\ exe'[o] = exe[o]
           /\ txn'[o] = txn[o] /\ tally'[o] = tally[o]
    BY <1>0, <1>1, <1>5 DEF TypeOK
  <1>7. /\ tally'[s].cash = tally[s].cash - paid
        /\ tally'[s].qty = [tally[s].qty EXCEPT ![code] = @ + moved]
    BY <1>0, <1>1 DEF TypeOK, TallyType
  <1>8. CashOf(s)' = new
    <2>1. e.seen = Col(txn[s].cash, cash)
      BY <1>2 DEF CashOf
    <2>2. new \in Int
      BY <1>0 DEF ExeType
    <2>3. new # Keep
      BY <2>2, TradingAssumption
    <2>4. Col(txn'[s].cash, cash) = new
      BY <1>4, <1>5, <2>1, <2>3, WrittenColumn
    <2>5. QED
      BY <1>0, <2>4 DEF CashOf, tables
  <1>9. RowOf(s, code)'.qty = row.qty
    <2>1. txn'[s].pos[code].qty = Write(txn[s].pos[code].qty, loaded.qty, row.qty)
      BY <1>0, <1>4, <1>5 DEF WriteRow, TxnType
    <2>2. loaded.qty = Col(txn[s].pos[code].qty, pos[code].qty)
      BY DEF RowOf
    <2>3. row.qty # Keep
      BY TradingAssumption DEF RowType
    <2>4. Col(txn'[s].pos[code].qty, pos[code].qty) = row.qty
      BY <2>1, <2>2, <2>3, WrittenColumn
    <2>5. RowOf(s, code)'.qty = Col(txn'[s].pos[code].qty, pos'[code].qty)
      BY DEF RowOf
    <2>6. pos' = pos
      BY <1>0 DEF tables
    <2>7. QED
      BY <2>4, <2>5, <2>6
  <1>10. \A c \in Codes \ {code} : RowOf(s, c)' = RowOf(s, c)
    <2>1. \A c \in Codes \ {code} : txn'[s].pos[c] = txn[s].pos[c]
      BY <1>0, <1>4, <1>5 DEF TxnType
    <2>2. QED
      BY <1>0, <2>1 DEF RowOf, tables
  <1>11. CashOf(s)' = cash' + tally'[s].cash
    <2>1. CashOf(s) = cash + tally[s].cash
      BY <1>2 DEF Undisturbed
    <2>2. cash \in Int /\ tally[s].cash \in Int /\ cash' = cash
      BY <1>0 DEF TypeOK, TallyType, tables
    <2>3. QED
      BY <1>2, <1>7, <1>8, <2>1, <2>2
  <1>12. \A c \in Codes : RowOf(s, c)'.qty = pos'[c].qty + tally'[s].qty[c]
    <2> SUFFICES ASSUME NEW c \in Codes
                 PROVE  RowOf(s, c)'.qty = pos'[c].qty + tally'[s].qty[c]
      OBVIOUS
    <2>1. RowOf(s, c).qty = pos[c].qty + tally[s].qty[c]
      BY <1>2 DEF Undisturbed
    <2>2. /\ pos[c].qty \in Int /\ pos'[c] = pos[c]
          /\ tally[s].qty \in [Codes -> Int]
      BY <1>0 DEF TypeOK, RowType, TallyType, tables
    <2>3. CASE c = code
      <3>1. tally'[s].qty[code] = tally[s].qty[code] + moved
        BY <1>0, <1>7, <2>2
      <3>2. RowOf(s, code).qty = pos[code].qty + tally[s].qty[code]
        BY <2>1, <2>3
      <3>3. row.qty = pos[code].qty + tally[s].qty[code] + moved
        BY <3>2
      <3>4. tally[s].qty[code] \in Int /\ pos[code].qty \in Int
        BY <1>0, <2>2, <2>3
      <3>5. row.qty = pos[code].qty + tally'[s].qty[code]
        BY <3>1, <3>3, <3>4
      <3>6. QED
        BY <1>9, <2>2, <2>3, <3>5
    <2>4. CASE c # code
      BY <1>0, <1>7, <1>10, <2>1, <2>2, <2>4
    <2>5. QED
      BY <2>3, <2>4
  <1>13. Undisturbed(s)'
    BY <1>0, <1>3, <1>5, <1>11, <1>12 DEF Undisturbed
  <1>14. QED
    BY <1>0, <1>3, <1>6, <1>13, LockedStep

LEMMA LockedFillBuy ==
  ASSUME TypeOK, WriteLock, LockedLedger, NEW s \in Traders, FillBuy(s)
  PROVE  LockedLedger'
  <1> DEFINE e == exe[s]
  <1> DEFINE cost == BuyCost(e.price, e.quantity)
  <1> DEFINE row == RowOf(s, e.code)
  <1>1. pc[s] = "settle" /\ Settle(s, Bought(s, e.held), cost, e.quantity)
    BY DEF FillBuy, Settle
  <1>0. s \in Sessions /\ e \in ExeType /\ e.code \in Codes /\ e.price \in Prices
    BY <1>1 DEF Sessions, TypeOK, TraderOK
  <1>2. e.held = row
    BY <1>0, <1>1 DEF LockedLedger, Undisturbed
  <1>3. row \in RowType
    BY <1>0, RowOfType
  <1>4. e.quantity \in Nat /\ e.price \in Nat
    BY <1>0, TradingAssumption DEF ExeType
  <1>5. cost \in Nat
    BY <1>4, BuyCostType
  <1> HIDE DEF row, cost
  <1>6. Bought(s, row) \in RowType
    BY <1>0, <1>3, BoughtType
  <1>7. Bought(s, row).qty = row.qty + e.quantity
    BY <1>3 DEF Bought, RowType
  <1>8. QED
    BY <1>0, <1>1, <1>2, <1>4, <1>5, <1>6, <1>7, LockedSettle DEF row

LEMMA LockedFillSell ==
  ASSUME TypeOK, WriteLock, LockedLedger, NEW s \in Traders, FillSell(s)
  PROVE  LockedLedger'
  <1> DEFINE e == exe[s]
  <1> DEFINE paid == - SellProceeds(e.price, e.quantity)
  <1> DEFINE moved == - e.quantity
  <1> DEFINE row == RowOf(s, e.code)
  <1>1. /\ pc[s] = "settle" /\ e.signal = "SELL"
        /\ Settle(s, Sold(s, e.held), paid, moved)
    BY DEF FillSell, Settle
  <1>0. s \in Sessions /\ e \in ExeType /\ e.price \in Prices /\ e.code \in Codes
        /\ e.quantity <= e.held.qty
    BY <1>1 DEF Sessions, TypeOK, TraderOK
  <1>2. e.held = row
    BY <1>0, <1>1 DEF LockedLedger, Undisturbed
  <1>3. row \in RowType /\ e.quantity \in Nat /\ e.price \in Nat
    BY <1>0, RowOfType, TradingAssumption DEF ExeType
  <1>4. SellProceeds(e.price, e.quantity) \in Int
    BY <1>3, SellProceedsType
  <1>5. paid \in Int /\ moved \in Int
    BY <1>3, <1>4
  <1> HIDE DEF row
  <1>6. Sold(s, row) \in RowType
    BY <1>0, <1>2, <1>3, SoldType
  <1>7. Sold(s, row).qty = row.qty + moved
    BY <1>3 DEF Sold, RowType
  <1> HIDE DEF paid, moved
  <1>8. QED
    BY <1>0, <1>1, <1>2, <1>5, <1>6, <1>7, LockedSettle DEF row

-----------------------------------------------------------------------------
(* Bootstraps *)

LEMMA LockedLoadAccount ==
  ASSUME TypeOK, LockedLedger, NEW b \in Boots, LoadAccount(b)
  PROVE  LockedLedger'
  <1>0. b \in Sessions /\ b \notin Traders
    BY TradingAssumption DEF Sessions
  <1>1. UNCHANGED <<tables, locks, todo, txn, tally>>
    BY DEF LoadAccount
  <1>2. pc' = [pc EXCEPT ![b] = "reset"] /\ \A o \in Sessions \ {b} : exe'[o] = exe[o]
    BY <1>0 DEF LoadAccount, Go, TypeOK
  <1>3. pc'[b] = "reset" /\ \A o \in Sessions \ {b} : pc'[o] = pc[o]
    BY <1>0, <1>2 DEF TypeOK
  <1>4. Holds(b)' <=> Holds(b)
    BY <1>1 DEF Holds
  <1>5. Undisturbed(b)
    BY <1>0 DEF LockedLedger
  <1>6. Undisturbed(b)'
    BY <1>0, <1>1, <1>3, <1>4, <1>5 DEF Undisturbed
  <1>7. QED
    BY <1>0, <1>1, <1>2, <1>3, <1>4, <1>6, LockedStep

(* Reset and Import flush with the lock taken.                             *)
LEMMA LockedFlush ==
  ASSUME TypeOK, WriteLock, LockedLedger, NEW b \in Boots,
         UNCHANGED <<tables, exe, tally>>,
         NEW place \in {"import", "commit"}, Go(b, place),
         NEW rows, Acquire(b, rows),
         NEW written, txn' = [txn EXCEPT ![b] = written]
  PROVE  LockedLedger'
  <1>0. b \in Sessions /\ b \notin Traders
    BY TradingAssumption DEF Sessions
  <1>1. Holds(b)' /\ \A o \in Sessions \ {b} : locks'[o] = locks[o] /\ ~ Holds(o)'
    BY <1>0, AcquireLock
  <1>2. \A o \in Sessions \ {b} :
           /\ pc'[o] = pc[o] /\ exe'[o] = exe[o]
           /\ txn'[o] = txn[o] /\ tally'[o] = tally[o]
    BY <1>0 DEF Go, TypeOK
  <1>3. Undisturbed(b)'
    BY <1>0, <1>1 DEF Undisturbed
  <1>4. QED
    BY <1>0, <1>1, <1>2, <1>3, LockedStep

LEMMA LockedReset ==
  ASSUME TypeOK, WriteLock, LockedLedger, NEW b \in Boots, Reset(b)
  PROVE  LockedLedger'
  <1>1. /\ UNCHANGED <<tables, exe, tally>> /\ Go(b, "import")
        /\ \E rows : Acquire(b, rows)
        /\ \E written : txn' = [txn EXCEPT ![b] = written]
    BY DEF Reset
  <1>2. QED
    BY <1>1, LockedFlush

LEMMA LockedImport ==
  ASSUME TypeOK, WriteLock, LockedLedger, NEW b \in Boots, Import(b)
  PROVE  LockedLedger'
  <1>1. /\ UNCHANGED <<tables, exe, tally>> /\ Go(b, "commit")
        /\ \E rows : Acquire(b, rows)
        /\ \E written : txn' = [txn EXCEPT ![b] = written]
    BY DEF Import
  <1>2. QED
    BY <1>1, LockedFlush

-----------------------------------------------------------------------------
(* Ends *)

(* A session with nothing pending sees the committed tables.               *)
LEMMA NothingPending ==
  ASSUME TypeOK', NEW s \in Sessions, txn'[s].cash = Keep,
         \A c \in Codes : txn'[s].pos[c] = KeepRow, tally'[s] = NoTally
  PROVE  /\ CashOf(s)' = cash' + tally'[s].cash
         /\ \A c \in Codes : RowOf(s, c)'.qty = pos'[c].qty + tally'[s].qty[c]
  <1>1. CashOf(s)' = cash' + tally'[s].cash
    <2>1. PICK money \in Int : money = cash'
      BY DEF TypeOK
    <2>2. CashOf(s)' = money
      BY <2>1 DEF CashOf, Col
    <2>3. tally'[s].cash = 0
      BY DEF NoTally
    <2>4. money + 0 = money
      OBVIOUS
    <2>5. QED
      BY <2>1, <2>2, <2>3, <2>4, Zenon
  <1>2. ASSUME NEW c \in Codes
        PROVE  RowOf(s, c)'.qty = pos'[c].qty + tally'[s].qty[c]
    <2>1. RowOf(s, c)'.qty = Col(txn'[s].pos[c].qty, pos'[c].qty)
      BY DEF RowOf
    <2>2. Col(txn'[s].pos[c].qty, pos'[c].qty) = pos'[c].qty
      BY DEF Col, KeepRow
    <2>3. pos'[c].qty \in Int /\ tally'[s].qty[c] = 0
      BY DEF TypeOK, RowType, NoTally
    <2>4. QED
      BY <2>1, <2>2, <2>3
  <1>3. QED
    BY <1>1, <1>2

(* A session that closes has nothing pending.                              *)
LEMMA ClosedUndisturbed ==
  ASSUME TypeOK, TypeOK', NEW s \in Sessions, NEW how \in {"done", "failed"},
         Close(s, how)
  PROVE  /\ ~ Holds(s)' /\ Undisturbed(s)'
         /\ \A o \in Sessions \ {s} :
              /\ pc'[o] = pc[o] /\ locks'[o] = locks[o] /\ exe'[o] = exe[o]
              /\ txn'[o] = txn[o] /\ tally'[o] = tally[o]
  <1>1. pc'[s] = how /\ locks'[s] = {} /\ txn'[s] = NoWrites /\ tally'[s] = NoTally
    BY DEF Close, Go, TypeOK
  <1>2. \A o \in Sessions \ {s} :
          /\ pc'[o] = pc[o] /\ locks'[o] = locks[o] /\ exe'[o] = exe[o]
          /\ txn'[o] = txn[o] /\ tally'[o] = tally[o]
    BY DEF Close, Go, TypeOK
  <1>3. ~ Holds(s)'
    BY <1>1 DEF Holds
  <1>4. txn'[s].cash = Keep /\ \A c \in Codes : txn'[s].pos[c] = KeepRow
    BY <1>1 DEF NoWrites
  <1>5. /\ CashOf(s)' = cash' + tally'[s].cash
        /\ \A c \in Codes : RowOf(s, c)'.qty = pos'[c].qty + tally'[s].qty[c]
    BY <1>1, <1>4, NothingPending
  <1>6. Undisturbed(s)'
    BY <1>1, <1>3, <1>4, <1>5 DEF Undisturbed
  <1>7. QED
    BY <1>2, <1>3, <1>6

LEMMA LockedFail ==
  ASSUME TypeOK, TypeOK', LockedLedger, NEW s \in Sessions, Fail(s)
  PROVE  LockedLedger'
  <1>1. Close(s, "failed") /\ UNCHANGED tables
    BY DEF Fail
  <1>2. QED
    BY <1>1, ClosedUndisturbed, LockedStep

(* A session without the lock has written nothing, so that its commit does *)
(* not change the cash or the quantities.                                  *)
LEMMA IdleCommit ==
  ASSUME TypeOK, LockedLedger, NEW s \in Sessions, ~ Holds(s), Apply(s)
  PROVE  cash' = cash /\ pos' = pos /\ tally[s] = NoTally
  <1>1. txn[s].cash = Keep /\ (\A c \in Codes : txn[s].pos[c] = KeepRow)
        /\ tally[s] = NoTally
    BY DEF LockedLedger, Undisturbed
  <1>2. cash' = cash
    BY <1>1 DEF Apply, CashOf, Col
  <1>3. \A c \in Codes : RowOf(s, c) = pos[c]
    <2> SUFFICES ASSUME NEW c \in Codes PROVE RowOf(s, c) = pos[c]
      OBVIOUS
    <2>1. RowOf(s, c) = [id |-> pos[c].id, qty |-> pos[c].qty, cost |-> pos[c].cost,
                         price |-> pos[c].price, pnl |-> pos[c].pnl]
      BY <1>1 DEF RowOf, Col, KeepRow
    <2>2. pos[c] \in RowType
      BY DEF TypeOK
    <2>3. QED
      BY <2>1, <2>2 DEF RowType
  <1>4. pos' = pos
    BY <1>3 DEF Apply, TypeOK
  <1>5. QED
    BY <1>1, <1>2, <1>4

(* The tables may change under a session that has nothing pending.         *)
LEMMA OthersAtCommit ==
  ASSUME TypeOK, TypeOK', LockedLedger, NEW s \in Sessions, Apply(s),
         \A o \in Sessions \ {s} :
           /\ pc'[o] = pc[o] /\ locks'[o] = locks[o] /\ exe'[o] = exe[o]
           /\ txn'[o] = txn[o] /\ tally'[o] = tally[o]
  PROVE  \A o \in Sessions \ {s} : Undisturbed(o)'
  <1> SUFFICES ASSUME NEW o \in Sessions \ {s} PROVE Undisturbed(o)'
    OBVIOUS
  <1>1. Undisturbed(o) /\ (Holds(o)' <=> Holds(o))
    BY DEF LockedLedger, Holds
  <1>2. CASE ~ Holds(s)
    <2>1. cash' = cash /\ pos' = pos
      BY <1>2, IdleCommit
    <2>2. CashOf(o)' = CashOf(o) /\ \A c \in Codes : RowOf(o, c)' = RowOf(o, c)
      BY <2>1, SameView
    <2>3. o \in Traders /\ pc[o] \in {"size", "place", "fill", "settle"} =>
          exe[o].code \in Codes
      BY DEF TypeOK, TraderOK
    <2>4. QED
      BY <1>1, <2>1, <2>2, <2>3 DEF Undisturbed
  <1>3. CASE Holds(s)
    <2>1. ~ Holds(o)
      BY <1>3 DEF LockedLedger
    <2>2. /\ txn'[o].cash = Keep /\ \A c \in Codes : txn'[o].pos[c] = KeepRow
          /\ tally'[o] = NoTally
      BY <1>1, <2>1 DEF Undisturbed
    <2>3. /\ CashOf(o)' = cash' + tally'[o].cash
          /\ \A c \in Codes : RowOf(o, c)'.qty = pos'[c].qty + tally'[o].qty[c]
      BY <2>2, NothingPending
    <2>4. QED
      BY <1>1, <2>1, <2>2, <2>3 DEF Undisturbed
  <1>4. QED
    BY <1>2, <1>3

LEMMA LockedCommit ==
  ASSUME TypeOK, TypeOK', LockedLedger, NEW s \in Sessions,
         Apply(s), Close(s, "done"), LedgerBalanced'
  PROVE  LockedLedger'
  <1>1. /\ ~ Holds(s)' /\ Undisturbed(s)'
        /\ \A o \in Sessions \ {s} :
              /\ pc'[o] = pc[o] /\ locks'[o] = locks[o] /\ exe'[o] = exe[o]
              /\ txn'[o] = txn[o] /\ tally'[o] = tally[o]
    BY ClosedUndisturbed
  <1>2. \A o \in Sessions : Undisturbed(o)'
    BY <1>1, OthersAtCommit
  <1>3. \A p, o \in Sessions : Holds(p)' /\ Holds(o)' => p = o
    <2>1. \A o \in Sessions \ {s} : Holds(o)' <=> Holds(o)
      BY <1>1 DEF Holds
    <2>2. QED
      BY <1>1, <2>1 DEF LockedLedger
  <1>4. QED
    BY <1>2, <1>3 DEF LockedLedger

LEMMA LockedCommitRun ==
  ASSUME TypeOK, TypeOK', LockedLedger, NEW s \in Traders, CommitRun(s)
  PROVE  LockedLedger'
  <1>0. s \in Sessions
    BY DEF Sessions
  <1>1. Apply(s) /\ Close(s, "done")
    BY DEF CommitRun
  <1>2. CashOf(s) = cash + tally[s].cash
        /\ \A c \in Codes : RowOf(s, c).qty = pos[c].qty + tally[s].qty[c]
    BY <1>0 DEF LockedLedger, Undisturbed
  <1>3. /\ book'.cash = book.cash + tally[s].cash
        /\ book'.qty = [c \in Codes |-> book.qty[c] + tally[s].qty[c]]
    BY DEF CommitRun, TypeOK, TallyType
  <1>4. cash' = CashOf(s) /\ \A c \in Codes : pos'[c].qty = RowOf(s, c).qty
    BY <1>1 DEF Apply
  <1>5. cash = book.cash /\ \A c \in Codes : pos[c].qty = book.qty[c]
    BY DEF LockedLedger, LedgerBalanced
  <1>6. LedgerBalanced'
    BY <1>2, <1>3, <1>4, <1>5 DEF LedgerBalanced
  <1>7. QED
    BY <1>0, <1>1, <1>6, LockedCommit

LEMMA LockedCommitImport ==
  ASSUME TypeOK, TypeOK', LockedLedger, NEW b \in Boots, CommitImport(b)
  PROVE  LockedLedger'
  <1>0. b \in Sessions
    BY DEF Sessions
  <1>1. Apply(b) /\ Close(b, "done")
    BY DEF CommitImport
  <1>2. book' = [cash |-> cash', qty |-> [c \in Codes |-> pos'[c].qty]]
    BY DEF CommitImport
  <1>3. LedgerBalanced'
    BY <1>2 DEF LedgerBalanced
  <1>4. QED
    BY <1>0, <1>1, <1>3, LockedCommit

-----------------------------------------------------------------------------

LEMMA LockedNext ==
  ASSUME WriteLock, TypeOK, TypeOK', LockedLedger, [Next]_vars
  PROVE  LockedLedger'
  <1>1. ASSUME NEW s \in Traders, Run(s) PROVE LockedLedger'
    BY <1>1, LockedStartRun, LockedEvaluate, LockedCannotEvaluate, LockedAbandon,
       LockedRecord, LockedCheck, LockedSize, LockedPlace, LockedFind, LockedFillBuy,
       LockedFillSell, LockedCommitRun
    DEF Run
  <1>2. ASSUME NEW b \in Boots, Bootstrap(b) PROVE LockedLedger'
    BY <1>2, LockedLoadAccount, LockedReset, LockedImport, LockedCommitImport
    DEF Bootstrap
  <1>3. ASSUME NEW s \in Sessions, Fail(s) PROVE LockedLedger'
    BY <1>3, LockedFail
  <1>4. CASE UNCHANGED vars
    BY <1>4 DEF vars, LockedLedger, Undisturbed, LedgerBalanced, Holds, CashOf, RowOf
  <1>5. QED
    BY <1>1, <1>2, <1>3, <1>4 DEF Next

LEMMA LockedInvariant == WriteLock /\ Spec => []LockedLedger
  <1> SUFFICES ASSUME WriteLock PROVE Spec => []LockedLedger
    OBVIOUS
  <1>1. Init => LockedLedger
    BY LockedInit
  <1>2. TypeOK /\ TypeOK' /\ LockedLedger /\ [Next]_vars => LockedLedger'
    BY LockedNext
  <1>3. QED
    BY <1>1, <1>2, TradingTypeOK, PTL DEF Spec

(* With the write lock of SQLite no fill overwrites another session's:     *)
(* whatever the interleaving, the stored cash and the stored quantities    *)
(* are what the committed trades since the last bootstrap make of what it  *)
(* left.                                                                   *)
THEOREM TradingLedgerBalanced == WriteLock /\ Spec => []LedgerBalanced
  <1>1. LockedLedger => LedgerBalanced
    BY DEF LockedLedger
  <1>2. QED
    BY <1>1, LockedInvariant, PTL

-----------------------------------------------------------------------------
(* Nobody overdraws, with or without a write lock.                         *)
(*                                                                         *)
(* NoOverdraft is not inductive either: a fill writes the cash it loaded   *)
(* less the cost, so the cash that was LOADED has to be solvent, and has   *)
(* to pay for the buy when it is flushed.  Whether the row of the account  *)
(* still holds that cash does not matter.                                  *)

(* Prices of two dollars and more, a tax of at most a half, and fee and    *)
(* tax together of at most the whole: the code does not see to it, but     *)
(* below that a sale can cost more than it brings.                         *)
OrdinaryCharges ==
  /\ \A price \in Prices : price >= 2 * Unit
  /\ FeeNum + TaxNum <= RateDen /\ 2 * TaxNum <= RateDen

LEMMA CashOfSolvent ==
  ASSUME TypeOK, Solvent, NEW s \in Sessions
  PROVE  CashOf(s) \in Int /\ CashOf(s) >= 0
  <1>1. cash >= 0 /\ (txn[s].cash # Keep => txn[s].cash >= 0)
    BY DEF Solvent, SolventRun
  <1>2. QED
    BY <1>1, CashOfType DEF CashOf, Col

(* A step of one session that commits nothing.                             *)
LEMMA SolventStep ==
  ASSUME TypeOK, Solvent, NEW s \in Sessions, UNCHANGED tables,
         \A o \in Sessions \ {s} :
           pc'[o] = pc[o] /\ exe'[o] = exe[o] /\ txn'[o] = txn[o],
         SolventRun(s)'
  PROVE  Solvent'
  <1>1. \A o \in Sessions : SolventRun(o)'
    BY DEF Solvent, SolventRun
  <1>2. QED
    BY <1>1 DEF Solvent, tables

(* A step that leaves the cash of the transaction alone and moves its      *)
(* session to a place where no order is in hand.                           *)
LEMMA SolventMove ==
  ASSUME TypeOK, Solvent, NEW s \in Sessions, UNCHANGED tables,
         pc' = [pc EXCEPT ![s] = pc'[s]], exe' = [exe EXCEPT ![s] = exe'[s]],
         txn' = [txn EXCEPT ![s] = txn'[s]], txn'[s].cash = txn[s].cash,
         pc'[s] \notin {"place", "fill", "settle"}, exe'[s].seen >= 0
  PROVE  Solvent'
  <1>1. \A o \in Sessions \ {s} :
          pc'[o] = pc[o] /\ exe'[o] = exe[o] /\ txn'[o] = txn[o]
    BY DEF TypeOK
  <1>2. SolventRun(s)'
    BY DEF Solvent, SolventRun
  <1>3. QED
    BY <1>1, <1>2, SolventStep

(* A run that ends, with what it has written.                              *)
LEMMA SolventFinish ==
  ASSUME TypeOK, Solvent, NEW s \in Traders, NEW status, NEW writes \in TxnType,
         Finish(s, status, writes), UNCHANGED tables,
         writes.cash # Keep => writes.cash >= 0
  PROVE  Solvent'
  <1>0. s \in Sessions
    BY DEF Sessions
  <1>1. /\ pc' = [pc EXCEPT ![s] = pc'[s]] /\ pc'[s] \in {"evaluate", "commit"}
        /\ exe' = [exe EXCEPT ![s] = exe'[s]] /\ txn' = [txn EXCEPT ![s] = txn'[s]]
        /\ txn'[s].cash = writes.cash
    BY FinishStep
  <1>2. exe'[s].seen = 0
    BY <1>0 DEF Finish, TypeOK, NoRun
  <1>3. \A o \in Sessions \ {s} :
          pc'[o] = pc[o] /\ exe'[o] = exe[o] /\ txn'[o] = txn[o]
    BY <1>0, <1>1 DEF TypeOK
  <1>4. SolventRun(s)'
    BY <1>1, <1>2 DEF SolventRun
  <1>5. QED
    BY <1>0, <1>3, <1>4, SolventStep

LEMMA SolventEnd ==
  ASSUME TypeOK, Solvent, NEW s \in Traders, NEW status,
         Finish(s, status, txn[s]), UNCHANGED tables
  PROVE  Solvent'
  <1>1. txn[s] \in TxnType /\ (txn[s].cash # Keep => txn[s].cash >= 0)
    BY DEF Sessions, TypeOK, Solvent, SolventRun
  <1>2. QED
    BY <1>1, SolventFinish

LEMMA SolventInit == Init => Solvent
  <1> SUFFICES ASSUME Init PROVE Solvent
    OBVIOUS
  <1>1. cash >= 0
    BY TradingAssumption DEF Init
  <1>2. \A s \in Sessions : /\ pc[s] = "idle" /\ exe[s].seen = 0
                            /\ txn[s].cash = Keep
    BY DEF Init, NoRun, NoWrites
  <1>3. QED
    BY <1>1, <1>2 DEF Solvent, SolventRun

(* The steps that decide nothing.                                          *)
LEMMA SolventLocal ==
  ASSUME TypeOK, Solvent, NEW s \in Traders,
         \/ StartRun(s) \/ CannotEvaluate(s) \/ Evaluate(s) \/ Abandon(s) \/ Record(s)
  PROVE  Solvent'
  <1>0. s \in Sessions /\ exe[s].seen >= 0
    BY DEF Sessions, Solvent, SolventRun
  <1>1. CASE StartRun(s) \/ CannotEvaluate(s)
    <2>1. PICK where \in {"evaluate", "commit"} : pc' = [pc EXCEPT ![s] = where]
      BY <1>1 DEF StartRun, CannotEvaluate, NextCode, Go
    <2>2. UNCHANGED <<tables, txn, exe>>
      BY <1>1 DEF StartRun, CannotEvaluate
    <2>3. QED
      BY <1>0, <2>1, <2>2, SolventMove DEF TypeOK
  <1>2. CASE Evaluate(s)
    <2>1. PICK c, signal :
            exe' = [exe EXCEPT ![s] = [NoRun EXCEPT !.code = c, !.signal = signal]]
      BY <1>2 DEF Evaluate
    <2> DEFINE run == [NoRun EXCEPT !.code = c, !.signal = signal]
    <2>2. run.seen = 0
      BY DEF NoRun
    <2> HIDE DEF run
    <2>3. pc' = [pc EXCEPT ![s] = "record"] /\ UNCHANGED <<tables, txn>>
      BY <1>2 DEF Evaluate, Go
    <2>4. exe' = [exe EXCEPT ![s] = run]
      BY <2>1 DEF run
    <2>5. /\ pc'[s] = "record" /\ pc' = [pc EXCEPT ![s] = pc'[s]]
          /\ exe'[s] = run /\ exe' = [exe EXCEPT ![s] = exe'[s]]
          /\ txn'[s] = txn[s] /\ txn' = [txn EXCEPT ![s] = txn'[s]]
      BY <1>0, <2>3, <2>4 DEF TypeOK
    <2>6. pc'[s] \notin {"place", "fill", "settle"} /\ exe'[s].seen >= 0
      BY <2>2, <2>5
    <2>7. QED
      BY <1>0, <2>3, <2>5, <2>6, SolventMove
  <1>3. CASE Abandon(s)
    <2>1. UNCHANGED tables /\ exe'[s] = NoRun /\ pc'[s] = "commit"
      BY <1>3, AbandonStep DEF Abandon
    <2>2. exe'[s].seen >= 0 /\ pc'[s] \notin {"place", "fill", "settle"}
      BY <2>1 DEF NoRun
    <2>3. QED
      BY <1>0, <1>3, <2>1, <2>2, AbandonStep, SolventMove
  <1>4. CASE Record(s)
    <2>1. UNCHANGED tables
      BY <1>4 DEF Record
    <2>2. CASE Finish(s, "NONE", txn[s])
      BY <2>1, <2>2, SolventEnd
    <2>3. CASE Go(s, "check") /\ UNCHANGED <<todo, exe, txn>>
      BY <1>0, <2>1, <2>3, SolventMove DEF Go, TypeOK
    <2>4. QED
      BY <1>4, <2>2, <2>3 DEF Record
  <1>5. QED
    BY <1>1, <1>2, <1>3, <1>4

LEMMA SolventCheck ==
  ASSUME TypeOK, Solvent, NEW s \in Traders, Check(s)
  PROVE  Solvent'
  <1> DEFINE row == RowOf(s, exe[s].code)
  <1> DEFINE open == OpenCodes([c \in Codes |-> RowOf(s, c)])
  <1>0. s \in Sessions /\ exe[s].code \in Codes /\ exe[s] \in ExeType
        /\ SolventRun(s)
    BY DEF Sessions, Check, TypeOK, TraderOK, Solvent
  <1>1. UNCHANGED tables
    BY DEF Check
  <1>2. CASE Finish(s, "SKIPPED", txn[s])
    BY <1>1, <1>2, SolventEnd
  <1>3. CASE /\ ~ Skipped(s, row, open)
             /\ exe' = [exe EXCEPT ![s].held = row,
                                   ![s].quantity = IF exe[s].signal = "SELL"
                                                   THEN row.qty ELSE 0]
             /\ Go(s, IF exe[s].signal = "SELL" THEN "place" ELSE "size")
             /\ UNCHANGED <<todo, txn>>
    <2>1. row \in RowType
      BY <1>0, RowOfType
    <2>2. exe[s].signal = "SELL" => row.qty > 0
      BY <1>3, <2>1 DEF Skipped, RowType
    <2> HIDE DEF row, open
    <2> DEFINE quantity == IF exe[s].signal = "SELL" THEN row.qty ELSE 0
    <2> DEFINE new == [exe[s] EXCEPT !.held = row, !.quantity = quantity]
    <2>3. exe' = [exe EXCEPT ![s] = new]
      BY <1>3
    <2>4. exe[s].signal = "SELL" => quantity > 0
      BY <2>2
    <2> HIDE DEF quantity
    <2>5. new.quantity = quantity /\ new.signal = exe[s].signal
          /\ new.seen = exe[s].seen
      BY <1>0 DEF ExeType
    <2>6. exe'[s] = new /\ txn'[s] = txn[s]
          /\ pc'[s] = IF exe[s].signal = "SELL" THEN "place" ELSE "size"
      BY <1>0, <1>3, <2>3 DEF TypeOK, Go
    <2>7. \A o \in Sessions \ {s} :
            pc'[o] = pc[o] /\ exe'[o] = exe[o] /\ txn'[o] = txn[o]
      BY <1>0, <1>3, <2>3 DEF TypeOK, Go
    <2> HIDE DEF new
    <2>8. SolventRun(s)'
      BY <1>0, <2>4, <2>5, <2>6 DEF SolventRun
    <2>9. QED
      BY <1>0, <1>1, <2>7, <2>8, SolventStep
  <1>4. QED
    BY <1>2, <1>3 DEF Check

LEMMA SolventSize ==
  ASSUME TypeOK, TypeOK', Solvent, NEW s \in Traders, Size(s)
  PROVE  Solvent'
  <1>0. s \in Sessions /\ exe[s] \in ExeType /\ SolventRun(s)
    BY DEF Sessions, Size, TypeOK, TraderOK, Solvent
  <1>1. UNCHANGED tables
    BY DEF Size
  <1>2. CASE Finish(s, "FAILED", txn[s])
    BY <1>1, <1>2, SolventEnd
  <1>3. ASSUME NEW quantity, quantity # 0,
               exe' = [exe EXCEPT ![s].seen = CashOf(s), ![s].quantity = quantity],
               Go(s, "place"), UNCHANGED <<todo, txn>>
        PROVE  Solvent'
    <2> DEFINE new == [exe[s] EXCEPT !.seen = CashOf(s), !.quantity = quantity]
    <2>1. exe' = [exe EXCEPT ![s] = new]
      BY <1>3
    <2>2. new.quantity = quantity /\ new.seen = CashOf(s)
      BY <1>0 DEF ExeType
    <2>3. exe'[s] = new /\ pc'[s] = "place" /\ txn'[s] = txn[s]
      BY <1>0, <1>3, <2>1 DEF TypeOK, Go
    <2>4. \A o \in Sessions \ {s} :
            pc'[o] = pc[o] /\ exe'[o] = exe[o] /\ txn'[o] = txn[o]
      BY <1>0, <1>3, <2>1 DEF TypeOK, Go
    <2> HIDE DEF new
    <2>5. quantity \in Nat
      <3>1. exe'[s].quantity \in Nat
        BY <1>0 DEF TypeOK, ExeType
      <3>2. QED
        BY <2>2, <2>3, <3>1
    <2>6. quantity > 0 /\ CashOf(s) >= 0
      BY <1>0, <1>3, <2>5, CashOfSolvent
    <2>7. SolventRun(s)'
      BY <1>0, <2>2, <2>3, <2>6 DEF SolventRun
    <2>8. QED
      BY <1>0, <1>1, <2>4, <2>7, SolventStep
  <1>4. QED
    BY <1>2, <1>3 DEF Size

LEMMA SolventPlace ==
  ASSUME TypeOK, Solvent, NEW s \in Traders, Place(s)
  PROVE  Solvent'
  <1>0. s \in Sessions /\ exe[s] \in ExeType /\ txn[s] \in TxnType
        /\ SolventRun(s) /\ pc[s] = "place"
    BY DEF Sessions, Place, TypeOK, Solvent
  <1>1. UNCHANGED tables
    BY DEF Place
  <1>2. CASE Finish(s, "FAILED", txn[s])
    BY <1>1, <1>2, SolventEnd
  <1> DEFINE seen == IF exe[s].signal = "SELL" THEN CashOf(s) ELSE exe[s].seen
  <1>3. ASSUME NEW price, NEW order,
               txn' = [txn EXCEPT ![s].orders = @ \cup {order}],
               exe' = [exe EXCEPT ![s].price = price, ![s].seen = seen],
               Go(s, "fill")
        PROVE  Solvent'
    <2>1. seen >= 0
      BY <1>0, CashOfSolvent DEF SolventRun
    <2> HIDE DEF seen
    <2> DEFINE new == [exe[s] EXCEPT !.price = price, !.seen = seen]
    <2>2. exe' = [exe EXCEPT ![s] = new]
      BY <1>3
    <2>3. new.quantity = exe[s].quantity /\ new.seen = seen
      BY <1>0 DEF ExeType
    <2>4. exe'[s] = new /\ pc'[s] = "fill"
          /\ txn'[s] = [txn[s] EXCEPT !.orders = @ \cup {order}]
      BY <1>0, <1>3, <2>2 DEF TypeOK, Go
    <2>5. \A o \in Sessions \ {s} :
            pc'[o] = pc[o] /\ exe'[o] = exe[o] /\ txn'[o] = txn[o]
      BY <1>0, <1>3, <2>2 DEF TypeOK, Go
    <2>6. txn'[s].cash = txn[s].cash
      BY <1>0, <2>4 DEF TxnType
    <2> HIDE DEF new
    <2>7. SolventRun(s)'
      BY <1>0, <2>1, <2>3, <2>4, <2>6 DEF SolventRun
    <2>8. QED
      BY <1>0, <1>1, <2>5, <2>7, SolventStep
  <1>4. QED
    BY <1>2, <1>3 DEF Place

(* A buy that is not refused is paid for by the cash that was loaded.      *)
LEMMA SolventFind ==
  ASSUME TypeOK, Solvent, NEW s \in Traders, Find(s)
  PROVE  Solvent'
  <1>0. pc[s] = "fill" /\ UNCHANGED tables
    BY DEF Find
  <1>1. s \in Sessions /\ exe[s] \in ExeType /\ exe[s].price \in Nat /\ SolventRun(s)
    BY <1>0, FoundType, TradingAssumption DEF Solvent
  <1>2. CASE Refused(s)
    BY <1>0, <1>2, SolventEnd DEF Find
  <1>3. CASE ~ Refused(s)
    <2> DEFINE cost == BuyCost(exe[s].price, exe[s].quantity)
    <2>1. /\ pc' = [pc EXCEPT ![s] = pc'[s]] /\ pc'[s] = "settle"
          /\ exe' = [exe EXCEPT ![s] = exe'[s]]
          /\ exe'[s].signal = exe[s].signal /\ exe'[s].quantity = exe[s].quantity
          /\ exe'[s].price = exe[s].price /\ exe'[s].seen = exe[s].seen
          /\ UNCHANGED txn
      BY <1>3, FindStep
    <2>2. cost \in Nat /\ exe[s].seen \in Int
      BY <1>1, BuyCostType DEF ExeType
    <2>3. exe[s].signal = "BUY" => ~ (exe[s].seen < cost)
      BY <1>3 DEF Refused
    <2> HIDE DEF cost
    <2>4. exe[s].signal = "BUY" => cost <= exe[s].seen
      BY <2>2, <2>3
    <2>5. SolventRun(s)'
      BY <1>0, <1>1, <2>1, <2>4 DEF SolventRun, cost
    <2>6. \A o \in Sessions \ {s} :
            pc'[o] = pc[o] /\ exe'[o] = exe[o] /\ txn'[o] = txn[o]
      BY <1>1, <2>1 DEF TypeOK
    <2>7. QED
      BY <1>0, <1>1, <2>5, <2>6, SolventStep
  <1>4. QED
    BY <1>2, <1>3

(* A fill that leaves the account with money.                              *)
LEMMA SolventSettle ==
  ASSUME TypeOK, Solvent, NEW s \in Traders, NEW row \in RowType,
         NEW paid \in Int, NEW moved \in Int, exe[s].seen - paid >= 0,
         Settle(s, row, paid, moved)
  PROVE  Solvent'
  <1> DEFINE e == exe[s]
  <1> DEFINE code == e.code
  <1> DEFINE new == e.seen - paid
  <1> DEFINE trade == [by |-> s, code |-> e.code, side |-> e.signal,
                       quantity |-> e.quantity, price |-> e.price]
  <1> DEFINE money == Write(txn[s].cash, e.seen, new)
  <1> DEFINE w == WriteRow(txn[s].pos[code], e.held, row)
  <1> DEFINE rows == [txn[s].pos EXCEPT ![code] = w]
  <1> DEFINE writes == [txn[s] EXCEPT !.cash = money, !.pos = rows,
                                      !.trades = @ \cup {trade}]
  <1>0. s \in Sessions /\ txn[s] \in TxnType /\ e \in ExeType
        /\ e.signal \in {"BUY", "SELL"} /\ e.price \in Prices /\ code \in Codes
        /\ e.held \in RowType /\ SolventRun(s)
    BY DEF Sessions, TypeOK, TraderOK, Solvent, Settle, ExeType
  <1>1. Finish(s, "APPLIED", writes) /\ UNCHANGED tables
    BY <1>0 DEF Settle
  <1>2. money \in Int \cup {Keep} /\ (money # Keep => money >= 0)
    BY <1>0 DEF Write, SolventRun, TxnType, ExeType
  <1>3. w \in Writes
    <2>1. txn[s].pos[code] \in Writes
      BY <1>0 DEF TxnType
    <2>2. QED
      BY <1>0, <2>1, WriteRowType
  <1>4. trade \in OrderType
    BY <1>0 DEF OrderType, ExeType
  <1> HIDE DEF money, w, trade, new
  <1>5. rows \in [Codes -> Writes]
    BY <1>0, <1>3 DEF TxnType
  <1> HIDE DEF rows, e, code
  <1>6. writes \in TxnType /\ writes.cash = money
    BY <1>0, <1>2, <1>4, <1>5 DEF TxnType
  <1> HIDE DEF writes
  <1>7. QED
    BY <1>1, <1>2, <1>6, SolventFinish

LEMMA SolventFillBuy ==
  ASSUME TypeOK, Solvent, NEW s \in Traders, FillBuy(s)
  PROVE  Solvent'
  <1> DEFINE e == exe[s]
  <1> DEFINE cost == BuyCost(e.price, e.quantity)
  <1>1. e.signal = "BUY" /\ pc[s] = "settle"
        /\ Settle(s, Bought(s, e.held), cost, e.quantity)
    BY DEF FillBuy, Settle
  <1>2. s \in Sessions /\ e \in ExeType /\ e.price \in Prices /\ SolventRun(s)
    BY <1>1 DEF Sessions, TypeOK, TraderOK, Solvent
  <1>3. e.held \in RowType /\ e.quantity \in Nat /\ e.price \in Nat /\ e.seen \in Int
    BY <1>2, TradingAssumption DEF ExeType
  <1>4. cost \in Nat /\ cost <= e.seen
    BY <1>1, <1>2, <1>3, BuyCostType DEF SolventRun
  <1>5. Bought(s, e.held) \in RowType
    BY <1>2, <1>3, BoughtType
  <1> HIDE DEF cost
  <1>6. cost \in Int /\ e.quantity \in Int /\ e.seen - cost >= 0
    BY <1>3, <1>4
  <1>7. QED
    BY <1>1, <1>5, <1>6, SolventSettle

LEMMA SolventFillSell ==
  ASSUME TypeOK, Solvent, OrdinaryCharges, NEW s \in Traders, FillSell(s)
  PROVE  Solvent'
  <1> DEFINE e == exe[s]
  <1> DEFINE proceeds == SellProceeds(e.price, e.quantity)
  <1> DEFINE paid == - proceeds
  <1> DEFINE moved == - e.quantity
  <1>1. e.signal = "SELL" /\ pc[s] = "settle" /\ Settle(s, Sold(s, e.held), paid, moved)
    BY DEF FillSell, Settle
  <1>2. s \in Sessions /\ e \in ExeType /\ e.price \in Prices
        /\ e.quantity <= e.held.qty /\ SolventRun(s)
    BY <1>1 DEF Sessions, TypeOK, TraderOK, Solvent
  <1>3. /\ e.held \in RowType /\ e.quantity \in Nat /\ e.quantity > 0
        /\ e.seen \in Int /\ e.seen >= 0 /\ e.price \in Nat
    BY <1>1, <1>2, TradingAssumption DEF ExeType, SolventRun
  <1>4. proceeds \in Int /\ proceeds >= 0
    <2>1. e.price >= 2 * Unit /\ 2 * Unit \in Nat
      BY <1>2, ChargesAssumption DEF OrdinaryCharges
    <2>2. e.price <= e.price * e.quantity
      BY <1>3, Product
    <2>3. e.price * e.quantity >= 2 * Unit
      BY <1>3, <2>1, <2>2, Product
    <2>4. QED
      BY <1>3, <2>3, SellProceedsType, SaleCoversCharges DEF OrdinaryCharges
  <1>5. Sold(s, e.held) \in RowType
    BY <1>2, <1>3, SoldType
  <1> HIDE DEF proceeds
  <1>6. paid \in Int /\ moved \in Int /\ e.seen - paid >= 0
    BY <1>3, <1>4
  <1> HIDE DEF paid, moved
  <1>7. QED
    BY <1>1, <1>5, <1>6, SolventSettle

-----------------------------------------------------------------------------

LEMMA SolventLoadAccount ==
  ASSUME TypeOK, Solvent, NEW b \in Boots, LoadAccount(b)
  PROVE  Solvent'
  <1>0. b \in Sessions /\ exe[b] \in ExeType
    BY DEF Sessions, TypeOK
  <1> DEFINE run == [exe[b] EXCEPT !.seen = CashOf(b)]
  <1>1. /\ UNCHANGED <<tables, txn>> /\ pc' = [pc EXCEPT ![b] = "reset"]
        /\ exe' = [exe EXCEPT ![b] = run]
    BY DEF LoadAccount, Go
  <1>2. run.seen >= 0
    BY <1>0, CashOfSolvent DEF ExeType
  <1> HIDE DEF run
  <1>3. QED
    BY <1>0, <1>1, <1>2, SolventMove DEF TypeOK

(* What Reset and Import write.                                            *)
LEMMA SolventFlush ==
  ASSUME TypeOK, Solvent, NEW b \in Boots, UNCHANGED <<tables, exe>>,
         NEW place \in {"import", "commit"}, Go(b, place),
         NEW written, txn' = [txn EXCEPT ![b] = written],
         written.cash # Keep => written.cash >= 0
  PROVE  Solvent'
  <1>0. b \in Sessions
    BY DEF Sessions
  <1>1. pc'[b] = place /\ exe'[b] = exe[b] /\ txn'[b] = written
    BY <1>0 DEF Go, TypeOK
  <1>2. \A o \in Sessions \ {b} :
          pc'[o] = pc[o] /\ exe'[o] = exe[o] /\ txn'[o] = txn[o]
    BY <1>0 DEF Go, TypeOK
  <1>3. SolventRun(b)'
    BY <1>0, <1>1 DEF Solvent, SolventRun
  <1>4. QED
    BY <1>0, <1>2, <1>3, SolventStep

LEMMA SolventReset ==
  ASSUME TypeOK, Solvent, NEW b \in Boots, Reset(b)
  PROVE  Solvent'
  <1> DEFINE deleted == { c \in Codes : pos[c].id # NoRow }
  <1> DEFINE money == Write(txn[b].cash, exe[b].seen, req[b].cash)
  <1> DEFINE left == [c \in Codes |-> IF c \in deleted THEN NoPosition ELSE KeepRow]
  <1> DEFINE written == [txn[b] EXCEPT !.cash = money, !.pos = left]
  <1>0. b \in Sessions /\ txn[b] \in TxnType /\ req[b] \in Imports /\ SolventRun(b)
    BY DEF Sessions, Reset, TypeOK, BootOK, Active, Solvent
  <1>1. /\ UNCHANGED <<tables, exe>> /\ Go(b, "import")
        /\ txn' = [txn EXCEPT ![b] = written]
    BY DEF Reset
  <1>2. money # Keep => money >= 0
    BY <1>0, TradingAssumption DEF Write, SolventRun
  <1> HIDE DEF money, left
  <1>3. written.cash = money
    BY <1>0 DEF TxnType
  <1> HIDE DEF written
  <1>4. QED
    BY <1>1, <1>2, <1>3, SolventFlush

LEMMA SolventImport ==
  ASSUME TypeOK, Solvent, NEW b \in Boots, Import(b)
  PROVE  Solvent'
  <1>0. b \in Sessions /\ txn[b] \in TxnType /\ SolventRun(b)
    BY DEF Sessions, TypeOK, Solvent
  <1>1. UNCHANGED <<tables, exe>> /\ Go(b, "commit")
    BY DEF Import
  <1>2. PICK brought : txn' = [txn EXCEPT ![b].pos = brought]
    BY DEF Import
  <1> DEFINE written == [txn[b] EXCEPT !.pos = brought]
  <1>3. txn' = [txn EXCEPT ![b] = written]
    BY <1>2
  <1>4. written.cash = txn[b].cash
    BY <1>0 DEF TxnType
  <1> HIDE DEF written
  <1>5. QED
    BY <1>0, <1>1, <1>3, <1>4, SolventFlush DEF SolventRun

LEMMA SolventClose ==
  ASSUME TypeOK, Solvent, NEW s \in Sessions, NEW how, how \in {"done", "failed"},
         Close(s, how), cash' >= 0
  PROVE  Solvent'
  <1>1. pc'[s] = how /\ exe'[s] = NoRun /\ txn'[s] = NoWrites
    BY DEF Close, Go, TypeOK
  <1>2. \A o \in Sessions \ {s} :
          pc'[o] = pc[o] /\ exe'[o] = exe[o] /\ txn'[o] = txn[o]
    BY DEF Close, Go, TypeOK
  <1>3. \A o \in Sessions : SolventRun(o)'
    BY <1>1, <1>2 DEF Solvent, SolventRun, NoRun, NoWrites
  <1>4. QED
    BY <1>3 DEF Solvent

LEMMA SolventCommit ==
  ASSUME TypeOK, Solvent, NEW s \in Sessions, Apply(s), Close(s, "done")
  PROVE  Solvent'
  <1>1. cash' >= 0
    BY CashOfSolvent DEF Apply
  <1>2. QED
    BY <1>1, SolventClose

LEMMA SolventFail ==
  ASSUME TypeOK, Solvent, NEW s \in Sessions, Fail(s)
  PROVE  Solvent'
  BY SolventClose DEF Fail, tables, Solvent

LEMMA SolventNext ==
  ASSUME OrdinaryCharges, TypeOK, TypeOK', Solvent, [Next]_vars
  PROVE  Solvent'
  <1>1. ASSUME NEW s \in Traders, Run(s) PROVE Solvent'
    <2>1. CASE CommitRun(s)
      BY <2>1, SolventCommit DEF CommitRun, Sessions
    <2>2. QED
      BY <1>1, <2>1, SolventLocal, SolventCheck, SolventSize, SolventPlace,
         SolventFind, SolventFillBuy, SolventFillSell
      DEF Run
  <1>2. ASSUME NEW b \in Boots, Bootstrap(b) PROVE Solvent'
    <2>1. CASE CommitImport(b)
      BY <2>1, SolventCommit DEF CommitImport, Sessions
    <2>2. QED
      BY <1>2, <2>1, SolventLoadAccount, SolventReset, SolventImport DEF Bootstrap
  <1>3. ASSUME NEW s \in Sessions, Fail(s) PROVE Solvent'
    BY <1>3, SolventFail
  <1>4. CASE UNCHANGED vars
    BY <1>4 DEF vars, Solvent, SolventRun
  <1>5. QED
    BY <1>1, <1>2, <1>3, <1>4 DEF Next

(* No interleaving of sessions, on either database, makes the cash         *)
(* negative, as long as a sale covers its own charges (OrdinaryCharges):   *)
(* every buy is decided on a cash that was solvent when it was loaded,     *)
(* even when that cash or the position found at the fill has gone stale.   *)
THEOREM TradingNoOverdraft ==
  OrdinaryCharges /\ Spec => []NoOverdraft
  <1> SUFFICES ASSUME OrdinaryCharges PROVE Spec => []NoOverdraft
    OBVIOUS
  <1>1. Init => Solvent
    BY SolventInit
  <1>2. TypeOK /\ TypeOK' /\ Solvent /\ [Next]_vars => Solvent'
    BY SolventNext
  <1>3. Solvent => NoOverdraft
    BY DEF Solvent, NoOverdraft
  <1>4. QED
    BY <1>1, <1>2, <1>3, TradingTypeOK, PTL DEF Spec

-----------------------------------------------------------------------------
(* Runs, orders and trades agree, with or without a write lock.            *)
(*                                                                         *)
(* RunsTellTheTruth is about committed rows only.  Its strengthening says  *)
(* the same of every transaction in progress, and that a transaction has   *)
(* nothing to say of the codes its session has still to run.               *)

(* The order a fill is about to settle.                                    *)
Pending(s) ==
  [by |-> s, code |-> exe[s].code, side |-> exe[s].signal,
   quantity |-> exe[s].quantity, price |-> exe[s].price]

Running(s) == pc[s] \in {"record", "check", "size", "place", "fill", "settle"}

(* The order in hand: written, and neither settled nor refused yet.        *)
InHand(s, o) == pc[s] \in {"fill", "settle"} /\ o = Pending(s)

(* What a session has written so far is its own, and of codes it is done   *)
(* with, but for the order it is about to fill.                            *)
OwnWork(s) ==
  /\ \A x \in txn[s].runs \cup txn[s].orders \cup txn[s].trades : x.by = s
  /\ \A x \in txn[s].runs \cup txn[s].trades : x.code \notin todo[s]
  /\ \A o \in txn[s].orders : o.code \in todo[s] => InHand(s, o)
  /\ Running(s) => exe[s].code \in todo[s]
  /\ pc[s] \in {"fill", "settle"} => Pending(s) \in txn[s].orders
  /\ pc[s] = "idle" => txn[s] = NoWrites

(* It tells the story of RunsTellTheTruth, the order in hand excepted.     *)
OwnStory(s) ==
  /\ \A r \in txn[s].runs :
       r.status = "APPLIED" <=>
         \E t \in txn[s].trades : t.code = r.code /\ t.side = r.signal
  /\ txn[s].trades \subseteq txn[s].orders
  /\ \A o \in txn[s].orders \ txn[s].trades :
       \/ InHand(s, o)
       \/ \E r \in txn[s].runs : /\ r.code = o.code
                                 /\ r.signal = o.side /\ r.status = "FAILED"

NoStory(b) == txn[b].runs = {} /\ txn[b].orders = {} /\ txn[b].trades = {}

(* The strengthening of RunsTellTheTruth that steps preserve.              *)
Story ==
  /\ RunsTellTheTruth
  /\ \A s \in Traders : OwnWork(s) /\ OwnStory(s)
  /\ \A b \in Boots : NoStory(b)

LEMMA StoryInit == Init => Story
  <1> SUFFICES ASSUME Init PROVE Story
    OBVIOUS
  <1>1. RunsTellTheTruth
    BY DEF Init, RunsTellTheTruth
  <1>2. \A s \in Sessions : /\ pc[s] = "idle" /\ txn[s] = NoWrites
                            /\ txn[s].runs = {} /\ txn[s].orders = {} /\ txn[s].trades = {}
    BY DEF Init, NoWrites
  <1>3. \A s \in Traders : OwnWork(s) /\ OwnStory(s)
    BY <1>2 DEF OwnWork, OwnStory, Running, InHand, Sessions
  <1>4. \A b \in Boots : NoStory(b)
    BY <1>2 DEF NoStory, Sessions
  <1>5. QED
    BY <1>1, <1>3, <1>4 DEF Story

(* Another session's step does not touch a session's story.                *)
LEMMA StoryOther ==
  ASSUME NEW o, pc'[o] = pc[o], exe'[o] = exe[o], todo'[o] = todo[o], txn'[o] = txn[o]
  PROVE  /\ OwnWork(o) => OwnWork(o)'
         /\ OwnStory(o) => OwnStory(o)'
         /\ NoStory(o) => NoStory(o)'
  <1>1. /\ Pending(o)' = Pending(o) /\ (Running(o)' <=> Running(o))
        /\ \A x : InHand(o, x)' <=> InHand(o, x)
    BY DEF Pending, Running, InHand
  <1>2. QED
    BY <1>1 DEF OwnWork, OwnStory, NoStory

(* A step of one session, which commits nothing.                           *)
LEMMA StoryStep ==
  ASSUME TypeOK, Story, NEW s \in Sessions, pc[s] # "done",
         UNCHANGED <<runs, orders, trades>>,
         \A o \in Sessions \ {s} :
           /\ pc'[o] = pc[o] /\ exe'[o] = exe[o] /\ todo'[o] = todo[o] /\ txn'[o] = txn[o],
         s \in Traders => OwnWork(s)' /\ OwnStory(s)',
         s \in Boots => NoStory(s)'
  PROVE  Story'
  <1>1. \A x \in runs \cup orders \cup trades : x.by \in Sessions /\ pc[x.by] = "done"
    BY DEF TypeOK, RunType, OrderType, Sessions, Story, RunsTellTheTruth
  <1>2. \A x \in runs \cup orders \cup trades : pc'[x.by] = "done"
    BY <1>1
  <1>3. RunsTellTheTruth'
    BY <1>2 DEF Story, RunsTellTheTruth
  <1>4. ASSUME NEW o \in Traders PROVE OwnWork(o)' /\ OwnStory(o)'
    BY StoryOther DEF Story, Sessions
  <1>5. ASSUME NEW b \in Boots PROVE NoStory(b)'
    BY StoryOther DEF Story, Sessions
  <1>6. QED
    BY <1>3, <1>4, <1>5 DEF Story

(* A session moves on, perhaps with codes it is done with, and writes      *)
(* nothing.                                                                *)
LEMMA StoryMove ==
  ASSUME TypeOK, Story, NEW s \in Traders, pc[s] \notin {"fill", "settle", "done", "failed"},
         UNCHANGED <<runs, orders, trades>>,
         pc' = [pc EXCEPT ![s] = pc'[s]], exe' = [exe EXCEPT ![s] = exe'[s]],
         txn' = [txn EXCEPT ![s] = txn[s]],
         todo' = [todo EXCEPT ![s] = todo'[s]],
         todo'[s] \subseteq todo[s] \/ txn[s] = NoWrites,
         pc'[s] \notin {"idle", "fill", "settle"},
         pc'[s] \in {"record", "check", "size", "place"} => exe'[s].code \in todo'[s]
  PROVE  Story'
  <1>0. s \in Sessions /\ s \notin Boots
    BY TradingAssumption DEF Sessions
  <1>1. \A o \in Sessions \ {s} :
          pc'[o] = pc[o] /\ exe'[o] = exe[o] /\ todo'[o] = todo[o] /\ txn'[o] = txn[o]
    BY <1>0 DEF TypeOK
  <1>2. txn'[s] = txn[s]
    BY <1>0 DEF TypeOK
  <1>3. OwnWork(s) /\ OwnStory(s)
    BY DEF Story
  <1>4. txn[s] = NoWrites => txn[s].runs = {} /\ txn[s].orders = {} /\ txn[s].trades = {}
    BY DEF NoWrites
  <1>5. OwnWork(s)'
    <2>1. \A x \in txn[s].runs \cup txn[s].orders \cup txn[s].trades : x.code \notin todo'[s]
      BY <1>3, <1>4 DEF OwnWork, InHand
    <2>2. Running(s)' => exe'[s].code \in todo'[s]
      BY DEF Running
    <2>3. QED
      BY <1>2, <1>3, <2>1, <2>2 DEF OwnWork
  <1>6. OwnStory(s)'
    BY <1>2, <1>3 DEF OwnStory, InHand
  <1>7. QED
    BY <1>0, <1>1, <1>5, <1>6, StoryStep

LEMMA StoryStartRun ==
  ASSUME TypeOK, Story, NEW s \in Traders, StartRun(s)
  PROVE  Story'
  <1>0. s \in Sessions /\ pc[s] = "idle"
    BY DEF Sessions, StartRun
  <1>1. PICK targets : NextCode(s, targets)
    BY DEF StartRun
  <1>2. /\ UNCHANGED <<runs, orders, trades, exe, txn>>
        /\ \E where \in {"evaluate", "commit"} : pc' = [pc EXCEPT ![s] = where]
        /\ todo' = [todo EXCEPT ![s] = targets]
    BY <1>1 DEF StartRun, NextCode, Go, tables
  <1>3. txn[s] = NoWrites
    BY <1>0 DEF Story, OwnWork
  <1>4. /\ pc' = [pc EXCEPT ![s] = pc'[s]] /\ pc'[s] \in {"evaluate", "commit"}
        /\ exe' = [exe EXCEPT ![s] = exe'[s]] /\ txn' = [txn EXCEPT ![s] = txn[s]]
        /\ todo' = [todo EXCEPT ![s] = todo'[s]]
    BY <1>0, <1>2 DEF TypeOK
  <1>5. QED
    BY <1>0, <1>2, <1>3, <1>4, StoryMove

LEMMA StoryEvaluate ==
  ASSUME TypeOK, Story, NEW s \in Traders, Evaluate(s)
  PROVE  Story'
  <1>0. s \in Sessions /\ pc[s] = "evaluate"
    BY DEF Sessions, Evaluate
  <1>1. PICK c \in todo[s], signal \in {"BUY", "SELL", "HOLD"} :
          exe' = [exe EXCEPT ![s] = [NoRun EXCEPT !.code = c, !.signal = signal]]
    BY DEF Evaluate
  <1>2. UNCHANGED <<runs, orders, trades, todo, txn>> /\ pc' = [pc EXCEPT ![s] = "record"]
    BY DEF Evaluate, Go, tables
  <1>3. /\ pc' = [pc EXCEPT ![s] = pc'[s]] /\ pc'[s] = "record"
        /\ exe' = [exe EXCEPT ![s] = exe'[s]] /\ txn' = [txn EXCEPT ![s] = txn[s]]
        /\ todo' = [todo EXCEPT ![s] = todo'[s]] /\ todo'[s] = todo[s]
    BY <1>0, <1>1, <1>2 DEF TypeOK
  <1>4. exe'[s].code = c
    BY <1>0, <1>1 DEF TypeOK, NoRun
  <1>5. QED
    BY <1>0, <1>2, <1>3, <1>4, StoryMove

LEMMA StoryCannotEvaluate ==
  ASSUME TypeOK, Story, NEW s \in Traders, CannotEvaluate(s)
  PROVE  Story'
  <1>0. s \in Sessions /\ pc[s] = "evaluate"
    BY DEF Sessions, CannotEvaluate
  <1>1. PICK c \in todo[s] : NextCode(s, todo[s] \ {c})
    BY DEF CannotEvaluate
  <1>2. /\ UNCHANGED <<runs, orders, trades, exe, txn>>
        /\ \E where \in {"evaluate", "commit"} : pc' = [pc EXCEPT ![s] = where]
        /\ todo' = [todo EXCEPT ![s] = todo[s] \ {c}]
    BY <1>1 DEF CannotEvaluate, NextCode, Go, tables
  <1>3. /\ pc' = [pc EXCEPT ![s] = pc'[s]] /\ pc'[s] \in {"evaluate", "commit"}
        /\ exe' = [exe EXCEPT ![s] = exe'[s]] /\ txn' = [txn EXCEPT ![s] = txn[s]]
        /\ todo' = [todo EXCEPT ![s] = todo'[s]] /\ todo'[s] \subseteq todo[s]
    BY <1>0, <1>2 DEF TypeOK
  <1>4. QED
    BY <1>0, <1>2, <1>3, StoryMove

(* The row a run ends with: no run or trade of its code is there yet.      *)
LEMMA OwnOutcome ==
  ASSUME TypeOK, NEW s \in Traders, OwnWork(s), Running(s), NEW status
  PROVE  /\ exe[s].code \in Codes /\ exe[s].code \in todo[s]
         /\ Outcome(s, status).by = s /\ Outcome(s, status).code = exe[s].code
         /\ Outcome(s, status).signal = exe[s].signal /\ Outcome(s, status).status = status
         /\ \A x \in txn[s].runs \cup txn[s].trades : x.code # exe[s].code
         /\ Pending(s).by = s /\ Pending(s).code = exe[s].code
         /\ Pending(s).side = exe[s].signal
  BY DEF TypeOK, TraderOK, OwnWork, Running, Outcome, Pending

LEMMA StoryAbandon ==
  ASSUME TypeOK, Story, NEW s \in Traders, Abandon(s)
  PROVE  Story'
  <1> DEFINE more == IF pc[s] = "evaluate" THEN {} ELSE {Outcome(s, "NONE")}
  <1>0. s \in Sessions /\ s \notin Boots /\ txn[s] \in TxnType
        /\ pc[s] \in {"evaluate", "size", "place"}
    BY TradingAssumption DEF Sessions, TypeOK, Abandon
  <1>1. OwnWork(s) /\ OwnStory(s)
    BY DEF Story
  <1>2. UNCHANGED <<runs, orders, trades>> /\ todo' = [todo EXCEPT ![s] = {}]
    BY DEF Abandon, NextCode, tables
  <1>3. txn' = [txn EXCEPT ![s] = [txn[s] EXCEPT !.runs = @ \cup more]]
    BY <1>0 DEF Abandon
  <1> HIDE DEF more
  <1>4. /\ txn'[s].runs = txn[s].runs \cup more /\ txn'[s].orders = txn[s].orders
        /\ txn'[s].trades = txn[s].trades
    BY <1>0, <1>3 DEF TypeOK, TxnType
  <1>5. /\ pc'[s] = "commit" /\ todo'[s] = {}
        /\ \A o \in Sessions \ {s} :
             pc'[o] = pc[o] /\ exe'[o] = exe[o] /\ todo'[o] = todo[o] /\ txn'[o] = txn[o]
    BY <1>0, <1>2, <1>3, AbandonStep DEF TypeOK
  <1>6. \A r \in more : /\ r.by = s /\ r.status # "APPLIED"
                        /\ \A t \in txn[s].trades : t.code # r.code
    <2>1. CASE pc[s] = "evaluate"
      BY <2>1 DEF more
    <2>2. CASE pc[s] # "evaluate"
      <3>1. Running(s)
        BY <1>0, <2>2 DEF Running
      <3>2. QED
        BY <1>1, <2>2, <3>1, OwnOutcome DEF more
    <2>3. QED
      BY <2>1, <2>2
  <1>7. OwnWork(s)'
    BY <1>1, <1>4, <1>5, <1>6 DEF OwnWork, Running
  <1>8. OwnStory(s)'
    <2>1. \A r \in txn'[s].runs : r.status = "APPLIED" <=>
             \E t \in txn'[s].trades : t.code = r.code /\ t.side = r.signal
      BY <1>1, <1>4, <1>6 DEF OwnStory
    <2>2. \A o \in txn'[s].orders \ txn'[s].trades :
            \E r \in txn'[s].runs : /\ r.code = o.code
                                    /\ r.signal = o.side /\ r.status = "FAILED"
      BY <1>0, <1>1, <1>4 DEF OwnStory, InHand
    <2>3. QED
      BY <1>1, <1>4, <2>1, <2>2 DEF OwnStory
  <1>9. QED
    BY <1>0, <1>2, <1>5, <1>7, <1>8, StoryStep

(* A strategy run ends without a trade: only one that came to its fill has *)
(* left an order, and then the run says FAILED.                            *)
LEMMA StoryFinish ==
  ASSUME TypeOK, Story, NEW s \in Traders, Running(s),
         NEW status, status # "APPLIED", Finish(s, status, txn[s]),
         pc[s] # "settle", pc[s] = "fill" => status = "FAILED",
         UNCHANGED <<runs, orders, trades>>
  PROVE  Story'
  <1> DEFINE r == Outcome(s, status)
  <1>0. s \in Sessions /\ s \notin Boots /\ txn[s] \in TxnType /\ pc[s] # "done"
    BY TradingAssumption DEF Sessions, TypeOK, Running
  <1>1. OwnWork(s) /\ OwnStory(s)
    BY DEF Story
  <1>2. /\ exe[s].code \in todo[s] /\ r.by = s /\ r.code = exe[s].code
        /\ r.signal = exe[s].signal /\ r.status = status
        /\ (\A x \in txn[s].runs \cup txn[s].trades : x.code # exe[s].code)
        /\ Pending(s).by = s /\ Pending(s).code = exe[s].code
        /\ Pending(s).side = exe[s].signal
    BY <1>1, OwnOutcome
  <1>3. /\ txn' = [txn EXCEPT ![s] = [txn[s] EXCEPT !.runs = @ \cup {r}]]
        /\ todo' = [todo EXCEPT ![s] = todo[s] \ {exe[s].code}]
    BY DEF Finish, NextCode
  <1> HIDE DEF r
  <1>4. /\ txn'[s].runs = txn[s].runs \cup {r} /\ txn'[s].orders = txn[s].orders
        /\ txn'[s].trades = txn[s].trades
    BY <1>0, <1>3 DEF TypeOK, TxnType
  <1>5. pc' = [pc EXCEPT ![s] = pc'[s]] /\ pc'[s] \in {"evaluate", "commit"}
        /\ exe' = [exe EXCEPT ![s] = exe'[s]]
    BY <1>0, FinishStep
  <1>6. /\ todo'[s] = todo[s] \ {exe[s].code}
        /\ \A o \in Sessions \ {s} :
             pc'[o] = pc[o] /\ exe'[o] = exe[o] /\ todo'[o] = todo[o] /\ txn'[o] = txn[o]
    BY <1>0, <1>3, <1>5 DEF TypeOK
  <1>7. OwnWork(s)'
    <2>1. \A o \in txn[s].orders : o.code \notin todo'[s]
      BY <1>1, <1>2, <1>6 DEF OwnWork, InHand
    <2>2. \A x \in txn'[s].runs \cup txn[s].trades : x.code \notin todo'[s]
      BY <1>1, <1>2, <1>4, <1>6 DEF OwnWork
    <2>3. \A x \in txn'[s].runs \cup txn[s].orders \cup txn[s].trades : x.by = s
      BY <1>1, <1>2, <1>4 DEF OwnWork
    <2>4. QED
      BY <1>4, <1>5, <2>1, <2>2, <2>3 DEF OwnWork, Running, InHand
  <1>8. OwnStory(s)'
    <2>1. \A x \in txn'[s].runs : x.status = "APPLIED" <=>
             \E t \in txn'[s].trades : t.code = x.code /\ t.side = x.signal
      BY <1>1, <1>2, <1>4 DEF OwnStory
    <2>2. ASSUME NEW o \in txn'[s].orders \ txn'[s].trades
          PROVE  \E x \in txn'[s].runs : /\ x.code = o.code
                                         /\ x.signal = o.side /\ x.status = "FAILED"
      <3>1. CASE pc[s] = "fill" /\ o = Pending(s)
        BY <1>2, <1>4, <3>1
      <3>2. CASE ~ (pc[s] = "fill" /\ o = Pending(s))
        BY <1>1, <1>4, <3>2 DEF OwnStory, InHand
      <3>3. QED
        BY <3>1, <3>2
    <2>3. QED
      BY <1>1, <1>4, <2>1, <2>2 DEF OwnStory
  <1>9. QED
    BY <1>0, <1>6, <1>7, <1>8, StoryStep

LEMMA StoryRecord ==
  ASSUME TypeOK, Story, NEW s \in Traders, Record(s)
  PROVE  Story'
  <1>0. s \in Sessions /\ pc[s] = "record" /\ Running(s)
        /\ UNCHANGED <<runs, orders, trades>>
    BY DEF Sessions, Record, Running, tables
  <1>1. CASE ~ req[s].execute
    <2>1. Finish(s, "NONE", txn[s])
      BY <1>1 DEF Record
    <2>2. QED
      BY <1>0, <2>1, StoryFinish
  <1>2. CASE req[s].execute
    <2>1. UNCHANGED <<todo, exe, txn>> /\ pc' = [pc EXCEPT ![s] = "check"]
      BY <1>2 DEF Record, Go
    <2>2. /\ pc' = [pc EXCEPT ![s] = pc'[s]] /\ pc'[s] = "check"
          /\ exe' = [exe EXCEPT ![s] = exe'[s]] /\ txn' = [txn EXCEPT ![s] = txn[s]]
          /\ todo' = [todo EXCEPT ![s] = todo'[s]]
      BY <1>0, <2>1 DEF TypeOK
    <2>3. exe[s].code \in todo[s]
      BY <1>0 DEF Story, OwnWork
    <2>4. QED
      BY <1>0, <2>1, <2>2, <2>3, StoryMove
  <1>3. QED
    BY <1>1, <1>2

(* Check and Size go on with the same code.                                *)
LEMMA StoryLocal ==
  ASSUME TypeOK, Story, NEW s \in Traders, pc[s] \in {"check", "size"},
         NEW where \in {"size", "place"}, Go(s, where), UNCHANGED <<tables, todo, txn>>,
         exe' = [exe EXCEPT ![s] = exe'[s]], exe'[s].code = exe[s].code
  PROVE  Story'
  <1>0. s \in Sessions /\ Running(s) /\ UNCHANGED <<runs, orders, trades>>
    BY DEF Sessions, Running, tables
  <1>1. /\ pc' = [pc EXCEPT ![s] = pc'[s]] /\ pc'[s] = where
        /\ txn' = [txn EXCEPT ![s] = txn[s]] /\ todo' = [todo EXCEPT ![s] = todo'[s]]
    BY <1>0 DEF Go, TypeOK
  <1>2. exe[s].code \in todo[s]
    BY <1>0 DEF Story, OwnWork
  <1>3. QED
    BY <1>0, <1>1, <1>2, StoryMove

LEMMA StoryCheck ==
  ASSUME TypeOK, Story, NEW s \in Traders, Check(s)
  PROVE  Story'
  <1> DEFINE row == RowOf(s, exe[s].code)
  <1>0. s \in Sessions /\ exe[s] \in ExeType /\ pc[s] = "check" /\ UNCHANGED tables
    BY DEF Sessions, Check, TypeOK
  <1>1. CASE Finish(s, "SKIPPED", txn[s])
    BY <1>0, <1>1, StoryFinish DEF Running, tables
  <1>2. CASE /\ exe' = [exe EXCEPT ![s].held = row,
                                   ![s].quantity = IF exe[s].signal = "SELL"
                                                   THEN row.qty ELSE 0]
             /\ Go(s, IF exe[s].signal = "SELL" THEN "place" ELSE "size")
             /\ UNCHANGED <<todo, txn>>
    <2> HIDE DEF row
    <2> DEFINE quantity == IF exe[s].signal = "SELL" THEN row.qty ELSE 0
    <2> DEFINE new == [exe[s] EXCEPT !.held = row, !.quantity = quantity]
    <2>1. exe' = [exe EXCEPT ![s] = new]
      BY <1>2
    <2> HIDE DEF quantity
    <2>2. new.code = exe[s].code
      BY <1>0 DEF ExeType
    <2>3. exe' = [exe EXCEPT ![s] = exe'[s]] /\ exe'[s].code = exe[s].code
      BY <1>0, <2>1, <2>2 DEF TypeOK
    <2>4. PICK where \in {"size", "place"} : Go(s, where)
      BY <1>2
    <2>5. QED
      BY <1>0, <1>2, <2>3, <2>4, StoryLocal
  <1>3. QED
    BY <1>1, <1>2 DEF Check

LEMMA StorySize ==
  ASSUME TypeOK, Story, NEW s \in Traders, Size(s)
  PROVE  Story'
  <1>0. s \in Sessions /\ exe[s] \in ExeType /\ pc[s] = "size" /\ UNCHANGED tables
    BY DEF Sessions, Size, TypeOK
  <1>1. CASE Finish(s, "FAILED", txn[s])
    BY <1>0, <1>1, StoryFinish DEF Running, tables
  <1>2. ASSUME NEW quantity,
               exe' = [exe EXCEPT ![s].seen = CashOf(s), ![s].quantity = quantity],
               Go(s, "place"), UNCHANGED <<todo, txn>>
        PROVE  Story'
    <2> DEFINE new == [exe[s] EXCEPT !.seen = CashOf(s), !.quantity = quantity]
    <2>1. exe' = [exe EXCEPT ![s] = new]
      BY <1>2
    <2>2. new.code = exe[s].code
      BY <1>0 DEF ExeType
    <2>3. exe' = [exe EXCEPT ![s] = exe'[s]] /\ exe'[s].code = exe[s].code
      BY <1>0, <2>1, <2>2 DEF TypeOK
    <2>4. QED
      BY <1>0, <1>2, <2>3, StoryLocal
  <1>3. QED
    BY <1>1, <1>2 DEF Size

(* An order is written: it is the one the fill is about.                   *)
LEMMA StoryPlace ==
  ASSUME TypeOK, Story, NEW s \in Traders, Place(s)
  PROVE  Story'
  <1>0. s \in Sessions /\ s \notin Boots /\ exe[s] \in ExeType /\ txn[s] \in TxnType
        /\ pc[s] = "place" /\ Running(s) /\ UNCHANGED <<runs, orders, trades>>
    BY TradingAssumption DEF Sessions, Place, TypeOK, Running, tables
  <1>1. CASE Finish(s, "FAILED", txn[s])
    BY <1>0, <1>1, StoryFinish
  <1> DEFINE seen == IF exe[s].signal = "SELL" THEN CashOf(s) ELSE exe[s].seen
  <1>2. ASSUME NEW price,
               txn' = [txn EXCEPT ![s].orders = @ \cup
                        {[by |-> s, code |-> exe[s].code, side |-> exe[s].signal,
                          quantity |-> exe[s].quantity, price |-> price]}],
               exe' = [exe EXCEPT ![s].price = price, ![s].seen = seen],
               Go(s, "fill"), UNCHANGED todo
        PROVE  Story'
    <2> DEFINE order == [by |-> s, code |-> exe[s].code, side |-> exe[s].signal,
                         quantity |-> exe[s].quantity, price |-> price]
    <2> DEFINE new == [exe[s] EXCEPT !.price = price, !.seen = seen]
    <2> HIDE DEF seen
    <2>1. exe' = [exe EXCEPT ![s] = new]
      BY <1>2
    <2>2. /\ new.code = exe[s].code /\ new.signal = exe[s].signal
          /\ new.quantity = exe[s].quantity /\ new.price = price
      BY <1>0 DEF ExeType
    <2>3. exe'[s] = new /\ \A o \in Sessions \ {s} : exe'[o] = exe[o]
      BY <1>0, <2>1 DEF TypeOK
    <2>4. Pending(s)' = order /\ order.by = s
      BY <2>2, <2>3 DEF Pending
    <2>5. txn' = [txn EXCEPT ![s] = [txn[s] EXCEPT !.orders = @ \cup {order}]]
      BY <1>0, <1>2 DEF TypeOK
    <2> HIDE DEF order, new
    <2>6. /\ txn'[s].runs = txn[s].runs /\ txn'[s].orders = txn[s].orders \cup {order}
          /\ txn'[s].trades = txn[s].trades
          /\ \A o \in Sessions \ {s} : txn'[o] = txn[o]
      BY <1>0, <2>5 DEF TypeOK, TxnType
    <2>7. pc'[s] = "fill" /\ \A o \in Sessions \ {s} : pc'[o] = pc[o]
      BY <1>0, <1>2 DEF Go, TypeOK
    <2>8. OwnWork(s) /\ OwnStory(s)
      BY DEF Story
    <2>9. OwnWork(s)'
      <3>1. exe'[s].code \in todo'[s]
        BY <1>0, <1>2, <2>2, <2>3, <2>8 DEF OwnWork
      <3>2. \A o \in txn[s].orders : o.code \notin todo'[s]
        BY <1>0, <1>2, <2>8 DEF OwnWork, InHand
      <3>3. QED
        BY <1>2, <2>4, <2>6, <2>7, <2>8, <3>1, <3>2 DEF OwnWork, InHand
    <2>10. OwnStory(s)'
      <3>1. \A o \in txn[s].orders \ txn[s].trades :
              \E r \in txn[s].runs : /\ r.code = o.code
                                     /\ r.signal = o.side /\ r.status = "FAILED"
        BY <1>0, <2>8 DEF OwnStory, InHand
      <3>2. QED
        BY <2>4, <2>6, <2>7, <2>8, <3>1 DEF OwnStory, InHand
    <2>11. QED
      BY <1>0, <1>2, <2>3, <2>6, <2>7, <2>9, <2>10, StoryStep
  <1>3. QED
    BY <1>1, <1>2 DEF Place

(* The fill finds its position, or is refused and leaves its order.        *)
LEMMA StoryFind ==
  ASSUME TypeOK, Story, NEW s \in Traders, Find(s)
  PROVE  Story'
  <1>0. s \in Sessions /\ s \notin Boots /\ pc[s] = "fill" /\ UNCHANGED tables
        /\ UNCHANGED <<runs, orders, trades>> /\ Running(s) /\ OwnWork(s) /\ OwnStory(s)
    BY TradingAssumption DEF Sessions, Find, Running, Story, tables
  <1>1. CASE Refused(s)
    BY <1>0, <1>1, StoryFinish DEF Find
  <1>2. CASE ~ Refused(s)
    <2>1. /\ pc' = [pc EXCEPT ![s] = pc'[s]] /\ pc'[s] = "settle"
          /\ exe' = [exe EXCEPT ![s] = exe'[s]]
          /\ exe'[s].code = exe[s].code /\ exe'[s].signal = exe[s].signal
          /\ exe'[s].quantity = exe[s].quantity /\ exe'[s].price = exe[s].price
          /\ UNCHANGED <<todo, txn>>
      BY <1>0, <1>2, FindStep
    <2>2. Pending(s)' = Pending(s) /\ Running(s)' /\ \A o : InHand(s, o)' <=> InHand(s, o)
      BY <1>0, <2>1 DEF Pending, Running, InHand
    <2>3. OwnWork(s)' /\ OwnStory(s)'
      BY <1>0, <2>1, <2>2 DEF OwnWork, OwnStory
    <2>4. \A o \in Sessions \ {s} : pc'[o] = pc[o] /\ exe'[o] = exe[o]
      BY <1>0, <2>1 DEF TypeOK
    <2>5. QED
      BY <1>0, <2>1, <2>3, <2>4, StoryStep
  <1>3. QED
    BY <1>1, <1>2

(* A fill is settled: the order in hand gets its trade, and the run that   *)
(* is recorded says APPLIED.                                               *)
LEMMA StorySettle ==
  ASSUME TypeOK, Story, NEW s \in Traders,
         NEW row \in RowType, NEW paid \in Int, NEW moved,
         Settle(s, row, paid, moved)
  PROVE  Story'
  <1> DEFINE e == exe[s]
  <1> DEFINE trade == Pending(s)
  <1> DEFINE r == Outcome(s, "APPLIED")
  <1> DEFINE writes == [txn[s] EXCEPT !.cash = Write(@, e.seen, e.seen - paid),
                                      !.pos[e.code] = WriteRow(@, e.held, row),
                                      !.trades = @ \cup {trade}]
  <1>0. s \in Sessions /\ s \notin Boots /\ txn[s] \in TxnType /\ Running(s)
        /\ e \in ExeType /\ pc[s] = "settle" /\ UNCHANGED <<runs, orders, trades>>
    BY TradingAssumption DEF Sessions, TypeOK, Running, Settle, tables
  <1>1. Finish(s, "APPLIED", writes)
    BY DEF Settle, Pending
  <1>2. OwnWork(s) /\ OwnStory(s)
    BY DEF Story
  <1>3. /\ e.code \in Codes /\ e.code \in todo[s] /\ r.by = s /\ r.code = e.code
        /\ r.signal = e.signal /\ r.status = "APPLIED"
        /\ (\A x \in txn[s].runs \cup txn[s].trades : x.code # e.code)
        /\ trade.by = s /\ trade.code = e.code /\ trade.side = e.signal
    BY <1>0, <1>2, OwnOutcome
  <1>4. /\ writes.runs = txn[s].runs /\ writes.orders = txn[s].orders
        /\ writes.trades = txn[s].trades \cup {trade}
        /\ DOMAIN writes = DOMAIN txn[s]
    BY <1>0 DEF TxnType
  <1>5. /\ txn' = [txn EXCEPT ![s] = [writes EXCEPT !.runs = @ \cup {r}]]
        /\ todo' = [todo EXCEPT ![s] = todo[s] \ {e.code}]
        /\ exe' = [exe EXCEPT ![s] = NoRun]
        /\ \E where \in {"evaluate", "commit"} : pc' = [pc EXCEPT ![s] = where]
    BY <1>1 DEF Finish, NextCode, Go
  <1> HIDE DEF r, trade, writes
  <1>6. txn'[s] = [writes EXCEPT !.runs = @ \cup {r}]
    BY <1>0, <1>5 DEF TypeOK
  <1>7. /\ txn'[s].runs = txn[s].runs \cup {r} /\ txn'[s].orders = txn[s].orders
        /\ txn'[s].trades = txn[s].trades \cup {trade}
    BY <1>0, <1>4, <1>6 DEF TxnType
  <1>8. /\ todo'[s] = todo[s] \ {e.code} /\ pc'[s] \in {"evaluate", "commit"}
        /\ \A o \in Sessions \ {s} :
             pc'[o] = pc[o] /\ exe'[o] = exe[o] /\ todo'[o] = todo[o] /\ txn'[o] = txn[o]
    BY <1>0, <1>5 DEF TypeOK
  <1>9. OwnWork(s)'
    <2>1. \A o \in txn[s].orders : o.code \notin todo'[s]
      BY <1>2, <1>3, <1>8 DEF OwnWork, InHand, trade
    <2>2. \A x \in txn'[s].runs \cup txn'[s].trades : x.code \notin todo'[s]
      BY <1>2, <1>3, <1>7, <1>8 DEF OwnWork
    <2>3. \A x \in txn'[s].runs \cup txn'[s].orders \cup txn'[s].trades : x.by = s
      BY <1>2, <1>3, <1>7 DEF OwnWork
    <2>4. QED
      BY <1>7, <1>8, <2>1, <2>2, <2>3 DEF OwnWork, Running, InHand
  <1>10. OwnStory(s)'
    <2>1. ASSUME NEW x \in txn'[s].runs
          PROVE  x.status = "APPLIED" <=>
             \E t \in txn'[s].trades : t.code = x.code /\ t.side = x.signal
      <3>1. CASE x = r
        BY <1>3, <1>7, <3>1
      <3>2. CASE x \in txn[s].runs
        BY <1>2, <1>3, <1>7, <3>2 DEF OwnStory
      <3>3. QED
        BY <1>7, <3>1, <3>2
    <2>2. txn'[s].trades \subseteq txn'[s].orders
      BY <1>0, <1>2, <1>7 DEF OwnWork, OwnStory, trade
    <2>3. \A o \in txn'[s].orders \ txn'[s].trades :
            \E x \in txn'[s].runs : /\ x.code = o.code
                                    /\ x.signal = o.side /\ x.status = "FAILED"
      BY <1>2, <1>7 DEF OwnStory, InHand, trade
    <2>4. QED
      BY <2>1, <2>2, <2>3 DEF OwnStory
  <1>11. QED
    BY <1>0, <1>8, <1>9, <1>10, StoryStep

LEMMA StoryFillBuy ==
  ASSUME TypeOK, Story, NEW s \in Traders, FillBuy(s)
  PROVE  Story'
  <1> DEFINE e == exe[s]
  <1> DEFINE cost == BuyCost(e.price, e.quantity)
  <1>1. Settle(s, Bought(s, e.held), cost, e.quantity) /\ pc[s] = "settle"
    BY DEF FillBuy, Settle
  <1>2. s \in Sessions /\ e \in ExeType /\ e.price \in Prices
    BY <1>1 DEF Sessions, TypeOK, TraderOK
  <1>3. e.held \in RowType /\ e.quantity \in Nat /\ e.price \in Nat
    BY <1>2, TradingAssumption DEF ExeType
  <1>4. cost \in Nat
    BY <1>3, BuyCostType
  <1>5. Bought(s, e.held) \in RowType
    BY <1>2, <1>3, BoughtType
  <1> HIDE DEF cost
  <1>6. cost \in Int
    BY <1>4
  <1>7. QED
    BY <1>1, <1>5, <1>6, StorySettle

LEMMA StoryFillSell ==
  ASSUME TypeOK, Story, NEW s \in Traders, FillSell(s)
  PROVE  Story'
  <1> DEFINE e == exe[s]
  <1> DEFINE paid == - SellProceeds(e.price, e.quantity)
  <1>1. e.signal = "SELL" /\ pc[s] = "settle"
        /\ Settle(s, Sold(s, e.held), paid, - e.quantity)
    BY DEF FillSell, Settle
  <1>2. s \in Sessions /\ e \in ExeType /\ e.price \in Prices /\ e.quantity <= e.held.qty
    BY <1>1 DEF Sessions, TypeOK, TraderOK
  <1>3. e.held \in RowType /\ e.quantity \in Nat /\ e.price \in Nat
    BY <1>2, TradingAssumption DEF ExeType
  <1>4. paid \in Int
    BY <1>3, SellProceedsType
  <1>5. Sold(s, e.held) \in RowType
    BY <1>2, <1>3, SoldType
  <1> HIDE DEF paid
  <1>6. QED
    BY <1>1, <1>4, <1>5, StorySettle

(* Bootstraps write neither runs nor orders nor trades.                    *)
LEMMA StoryBoot ==
  ASSUME TypeOK, Story, NEW b \in Boots, UNCHANGED <<tables, todo>>,
         NEW place, Go(b, place), pc[b] \notin {"done", "failed"},
         \A o \in Sessions \ {b} : exe'[o] = exe[o] /\ txn'[o] = txn[o],
         txn'[b].runs = txn[b].runs, txn'[b].orders = txn[b].orders,
         txn'[b].trades = txn[b].trades
  PROVE  Story'
  <1>0. b \in Sessions /\ b \notin Traders /\ UNCHANGED <<runs, orders, trades>>
    BY TradingAssumption DEF Sessions, tables
  <1>1. \A o \in Sessions \ {b} : pc'[o] = pc[o] /\ todo'[o] = todo[o]
    BY <1>0 DEF Go, TypeOK
  <1>2. NoStory(b)'
    BY DEF Story, NoStory
  <1>3. QED
    BY <1>0, <1>1, <1>2, StoryStep

LEMMA StoryLoadAccount ==
  ASSUME TypeOK, Story, NEW b \in Boots, LoadAccount(b)
  PROVE  Story'
  <1>0. b \in Sessions
    BY DEF Sessions
  <1>1. /\ UNCHANGED <<tables, todo, txn>> /\ Go(b, "reset") /\ pc[b] = "idle"
        /\ \A o \in Sessions \ {b} : exe'[o] = exe[o]
    BY <1>0 DEF LoadAccount, TypeOK
  <1>2. QED
    BY <1>1, StoryBoot

LEMMA StoryReset ==
  ASSUME TypeOK, Story, NEW b \in Boots, Reset(b)
  PROVE  Story'
  <1>0. b \in Sessions /\ txn[b] \in TxnType
    BY DEF Sessions, TypeOK
  <1>1. PICK money, rows :
          txn' = [txn EXCEPT ![b] = [txn[b] EXCEPT !.cash = money, !.pos = rows]]
    BY DEF Reset
  <1>2. txn'[b] = [txn[b] EXCEPT !.cash = money, !.pos = rows]
        /\ \A o \in Sessions \ {b} : txn'[o] = txn[o]
    BY <1>0, <1>1 DEF TypeOK
  <1>3. /\ UNCHANGED <<tables, todo, exe>> /\ Go(b, "import") /\ pc[b] = "reset"
    BY DEF Reset
  <1>4. QED
    BY <1>0, <1>2, <1>3, StoryBoot DEF TxnType

LEMMA StoryImport ==
  ASSUME TypeOK, Story, NEW b \in Boots, Import(b)
  PROVE  Story'
  <1>0. b \in Sessions /\ txn[b] \in TxnType
    BY DEF Sessions, TypeOK
  <1>1. PICK rows : txn' = [txn EXCEPT ![b] = [txn[b] EXCEPT !.pos = rows]]
    BY DEF Import
  <1>2. txn'[b] = [txn[b] EXCEPT !.pos = rows] /\ \A o \in Sessions \ {b} : txn'[o] = txn[o]
    BY <1>0, <1>1 DEF TypeOK
  <1>3. /\ UNCHANGED <<tables, todo, exe>> /\ Go(b, "commit") /\ pc[b] = "import"
    BY DEF Import
  <1>4. QED
    BY <1>0, <1>2, <1>3, StoryBoot DEF TxnType

(* A session that ends: it drops its story, after telling it or not.       *)
LEMMA StoryClose ==
  ASSUME TypeOK, Story, NEW s \in Sessions, NEW how \in {"done", "failed"},
         Close(s, how), RunsTellTheTruth'
  PROVE  Story'
  <1>1. pc'[s] = how /\ txn'[s] = NoWrites
    BY DEF Close, Go, TypeOK
  <1>2. \A o \in Sessions \ {s} :
          pc'[o] = pc[o] /\ exe'[o] = exe[o] /\ todo'[o] = todo[o] /\ txn'[o] = txn[o]
    BY DEF Close, Go, TypeOK
  <1>3. txn'[s].runs = {} /\ txn'[s].orders = {} /\ txn'[s].trades = {}
    BY <1>1 DEF NoWrites
  <1>4. OwnWork(s)' /\ OwnStory(s)' /\ NoStory(s)'
    BY <1>1, <1>3 DEF OwnWork, OwnStory, NoStory, Running, InHand
  <1>5. (\A o \in Traders : OwnWork(o)' /\ OwnStory(o)') /\ (\A b \in Boots : NoStory(b)')
    BY <1>2, <1>4, StoryOther DEF Story, Sessions
  <1>6. QED
    BY <1>5 DEF Story

LEMMA StoryCommitRun ==
  ASSUME TypeOK, Story, NEW s \in Traders, CommitRun(s)
  PROVE  Story'
  <1>0. s \in Sessions /\ pc[s] = "commit" /\ Apply(s) /\ Close(s, "done")
    BY DEF Sessions, CommitRun
  <1>1. /\ runs' = runs \cup txn[s].runs /\ orders' = orders \cup txn[s].orders
        /\ trades' = trades \cup txn[s].trades
    BY <1>0 DEF Apply
  <1>2. pc'[s] = "done" /\ \A o \in Sessions \ {s} : pc'[o] = pc[o]
    BY <1>0 DEF Close, Go, TypeOK
  <1>3. \A x \in runs \cup orders \cup trades : x.by \in Sessions /\ pc[x.by] = "done"
    BY DEF TypeOK, RunType, OrderType, Sessions, Story, RunsTellTheTruth
  <1>4. \A x \in txn[s].runs \cup txn[s].orders \cup txn[s].trades : x.by = s
    BY DEF Story, OwnWork
  <1>5. \A x \in runs \cup orders \cup trades : x.by # s
    BY <1>0, <1>3
  <1>6. OwnStory(s) /\ RunsTellTheTruth
    BY DEF Story
  <1>7. \A x \in runs' \cup orders' \cup trades' : pc'[x.by] = "done"
    BY <1>0, <1>1, <1>2, <1>3, <1>4
  <1>8. \A r \in runs' : r.status = "APPLIED" <=>
          \E t \in trades' : t.by = r.by /\ t.code = r.code /\ t.side = r.signal
    <2>1. ASSUME NEW r \in runs
          PROVE  r.status = "APPLIED" <=>
            \E t \in trades' : t.by = r.by /\ t.code = r.code /\ t.side = r.signal
      BY <1>1, <1>4, <1>5, <1>6 DEF RunsTellTheTruth
    <2>2. ASSUME NEW r \in txn[s].runs
          PROVE  r.status = "APPLIED" <=>
            \E t \in trades' : t.by = r.by /\ t.code = r.code /\ t.side = r.signal
      BY <1>1, <1>4, <1>5, <1>6 DEF OwnStory
    <2>3. QED
      BY <1>1, <2>1, <2>2
  <1>9. trades' \subseteq orders'
    BY <1>1, <1>6 DEF RunsTellTheTruth, OwnStory
  <1>10. \A o \in orders' \ trades' :
           \E r \in runs' : /\ r.by = o.by /\ r.code = o.code
                            /\ r.signal = o.side /\ r.status = "FAILED"
    <2>1. ASSUME NEW o \in orders \ trades'
          PROVE  \E r \in runs' : /\ r.by = o.by /\ r.code = o.code
                                  /\ r.signal = o.side /\ r.status = "FAILED"
      BY <1>1, <1>6 DEF RunsTellTheTruth
    <2>2. ASSUME NEW o \in txn[s].orders \ trades'
          PROVE  \E r \in runs' : /\ r.by = o.by /\ r.code = o.code
                                  /\ r.signal = o.side /\ r.status = "FAILED"
      BY <1>0, <1>1, <1>4, <1>6 DEF OwnStory, InHand
    <2>3. QED
      BY <1>1, <2>1, <2>2
  <1>11. RunsTellTheTruth'
    BY <1>7, <1>8, <1>9, <1>10 DEF RunsTellTheTruth
  <1>12. QED
    BY <1>0, <1>11, StoryClose

(* A step that ends a session and adds no rows.                            *)
LEMMA StoryEnd ==
  ASSUME TypeOK, Story, NEW s \in Sessions, pc[s] # "done",
         NEW how \in {"done", "failed"}, Close(s, how), UNCHANGED <<runs, orders, trades>>
  PROVE  Story'
  <1>1. \A o \in Sessions \ {s} : pc'[o] = pc[o]
    BY DEF Close, Go, TypeOK
  <1>2. \A x \in runs \cup orders \cup trades : x.by \in Sessions /\ pc[x.by] = "done"
    BY DEF TypeOK, RunType, OrderType, Sessions, Story, RunsTellTheTruth
  <1>3. \A x \in runs \cup orders \cup trades : pc'[x.by] = "done"
    BY <1>1, <1>2
  <1>4. RunsTellTheTruth'
    BY <1>3 DEF Story, RunsTellTheTruth
  <1>5. QED
    BY <1>4, StoryClose

LEMMA StoryNext ==
  ASSUME TypeOK, Story, [Next]_vars
  PROVE  Story'
  <1>1. ASSUME NEW s \in Traders, Run(s) PROVE Story'
    BY <1>1, StoryStartRun, StoryEvaluate, StoryCannotEvaluate, StoryAbandon, StoryRecord,
       StoryCheck, StorySize, StoryPlace, StoryFind, StoryFillBuy, StoryFillSell,
       StoryCommitRun
    DEF Run
  <1>2. ASSUME NEW b \in Boots, Bootstrap(b) PROVE Story'
    <2>1. CASE CommitImport(b)
      <3>1. b \in Sessions /\ pc[b] = "commit" /\ Close(b, "done")
        BY <2>1 DEF CommitImport, Sessions
      <3>2. UNCHANGED <<runs, orders, trades>>
        BY <2>1 DEF CommitImport, Apply, Story, NoStory
      <3>3. QED
        BY <3>1, <3>2, StoryEnd
    <2>2. QED
      BY <1>2, <2>1, StoryLoadAccount, StoryReset, StoryImport DEF Bootstrap
  <1>3. ASSUME NEW s \in Sessions, Fail(s) PROVE Story'
    BY <1>3, StoryEnd DEF Fail, Active, tables
  <1>4. CASE UNCHANGED vars
    <2>1. \A s \in Sessions : /\ OwnWork(s) => OwnWork(s)'
                              /\ OwnStory(s) => OwnStory(s)'
                              /\ NoStory(s) => NoStory(s)'
      BY <1>4, StoryOther DEF vars
    <2>2. RunsTellTheTruth'
      BY <1>4 DEF vars, Story, RunsTellTheTruth
    <2>3. QED
      BY <2>1, <2>2 DEF Story, Sessions
  <1>5. QED
    BY <1>1, <1>2, <1>3, <1>4 DEF Next

LEMMA StoryInvariant == Spec => []Story
  <1>1. TypeOK /\ Story /\ [Next]_vars => Story'
    BY StoryNext
  <1>2. QED
    BY <1>1, StoryInit, TradingTypeOK, PTL DEF Spec

(* Whatever fails in the middle, and also when a fill is refused because   *)
(* its position has been deleted meanwhile: a committed run says APPLIED   *)
(* exactly when its trade is committed, no trade is without its order, and *)
(* an order without a trade stands next to a run of its side that FAILED.  *)
(* A session that failed has left none of them.                            *)
THEOREM TradingRunsTellTheTruth == Spec => []RunsTellTheTruth
  <1>1. Story => RunsTellTheTruth
    BY DEF Story
  <1>2. QED
    BY <1>1, StoryInvariant, PTL

-----------------------------------------------------------------------------
(* With a write lock, what a session commits was decided on the tables it  *)
(* commits to.                                                             *)
(*                                                                         *)
(* Between the check of a code and the commit lie quotes, fills and other  *)
(* codes.  The session holds the lock all the while, so that the committed *)
(* quantities stay, and its own trades are of other codes.                 *)

(* The codes a session sees open under a write lock: the committed         *)
(* quantities plus its own trades.                                         *)
OpenFor(s) == {c \in Codes : pos[c].qty + tally[s].qty[c] > 0}

(* What a session holding the lock has traded, and is about to trade, is   *)
(* still what it was decided on.                                           *)
Deal(s) ==
  /\ pc[s] = "idle" => tally[s] = NoTally
  /\ \A c \in todo[s] : tally[s].qty[c] = 0
  /\ \A t \in txn[s].trades :
       /\ Holds(s)
       /\ t.side = "BUY" => pos[t.code].qty = 0
       /\ t.side = "SELL" => /\ pos[t.code].qty = t.quantity
                             /\ tally[s].qty[t.code] = - t.quantity
  /\ (\E t \in txn[s].trades : t.side = "BUY") => Cardinality(OpenFor(s)) <= Limit(s)
  /\ pc[s] \in {"size", "place", "fill", "settle"} =>
       /\ exe[s].signal = "BUY" => /\ pos[exe[s].code].qty = 0
                                   /\ Cardinality(OpenFor(s)) < Limit(s)
       /\ exe[s].signal = "SELL" => exe[s].quantity = pos[exe[s].code].qty

Deals == \A s \in Traders : Deal(s)

(* What LockedLedger says of the rows a session sees.                      *)
LEMMA SeenRows ==
  ASSUME TypeOK, LockedLedger, NEW s \in Traders
  PROVE  /\ \A c \in Codes : /\ RowOf(s, c).qty = pos[c].qty + tally[s].qty[c]
                             /\ pos[c].qty \in Nat /\ tally[s].qty[c] \in Int
         /\ OpenCodes([c \in Codes |-> RowOf(s, c)]) = OpenFor(s)
         /\ IsFiniteSet(OpenFor(s)) /\ Cardinality(OpenFor(s)) \in Nat /\ Limit(s) \in Nat
  <1>0. s \in Sessions
    BY DEF Sessions
  <1>1. \A c \in Codes : /\ RowOf(s, c).qty = pos[c].qty + tally[s].qty[c]
                         /\ pos[c].qty \in Nat /\ tally[s].qty[c] \in Int
    BY <1>0 DEF LockedLedger, Undisturbed, TypeOK, RowType, TallyType
  <1>2. OpenCodes([c \in Codes |-> RowOf(s, c)]) = OpenFor(s)
    BY <1>1 DEF OpenCodes, OpenFor
  <1>3. OpenFor(s) \subseteq Codes
    BY DEF OpenFor
  <1>4. IsFiniteSet(OpenFor(s)) /\ Cardinality(OpenFor(s)) \in Nat
    BY <1>3, TradingAssumption, FS_Subset, FS_CardinalityType
  <1>5. Limit(s) \in Nat
    BY TradingAssumption DEF Limit
  <1>6. QED
    BY <1>1, <1>2, <1>4, <1>5

LEMMA DealsInit == Init => Deals
  <1> SUFFICES ASSUME Init, NEW s \in Traders PROVE Deal(s)
    BY DEF Deals
  <1>0. s \in Sessions
    BY DEF Sessions
  <1>1. pc[s] = "idle" /\ txn[s] = NoWrites /\ tally[s] = NoTally /\ todo[s] = {}
    BY <1>0 DEF Init
  <1>2. txn[s].trades = {}
    BY <1>1 DEF NoWrites
  <1>3. QED
    BY <1>1, <1>2 DEF Deal

(* Another session's step: it commits nothing under a session that has     *)
(* traded or is about to, because that one holds the lock.                 *)
LEMMA DealOther ==
  ASSUME TypeOK, LockedLedger, Deals, NEW o \in Traders,
         pc'[o] = pc[o], exe'[o] = exe[o], todo'[o] = todo[o],
         txn'[o] = txn[o], tally'[o] = tally[o], locks'[o] = locks[o],
         Holds(o) => pos' = pos
  PROVE  Deal(o)'
  <1>0. o \in Sessions /\ (Holds(o)' <=> Holds(o)) /\ Deal(o)
    BY DEF Sessions, Holds, Deals
  <1>1. CASE Holds(o)
    <2>1. OpenFor(o)' = OpenFor(o)
      BY <1>1 DEF OpenFor
    <2>2. QED
      BY <1>0, <1>1, <2>1 DEF Deal, Limit
  <1>2. CASE ~ Holds(o)
    <2>1. txn[o].trades = {}
      BY <1>0, <1>2 DEF Deal
    <2>2. pc[o] \notin {"size", "place", "fill", "settle"}
      BY <1>0, <1>2 DEF LockedLedger, Undisturbed
    <2>3. QED
      BY <1>0, <2>1, <2>2 DEF Deal
  <1>3. QED
    BY <1>1, <1>2

LEMMA DealStep ==
  ASSUME TypeOK, LockedLedger, Deals, NEW s \in Sessions, UNCHANGED tables,
         \A o \in Sessions \ {s} :
           /\ pc'[o] = pc[o] /\ exe'[o] = exe[o] /\ todo'[o] = todo[o]
           /\ txn'[o] = txn[o] /\ tally'[o] = tally[o] /\ locks'[o] = locks[o],
         s \in Traders => Deal(s)'
  PROVE  Deals'
  <1>1. ASSUME NEW o \in Traders PROVE Deal(o)'
    <2>1. CASE o = s
      BY <2>1
    <2>2. CASE o # s
      BY <2>2, DealOther DEF Sessions, tables
    <2>3. QED
      BY <2>1, <2>2
  <1>2. QED
    BY <1>1 DEF Deals

(* A step of a session that trades nothing and keeps the lock.             *)
LEMMA DealMove ==
  ASSUME TypeOK, LockedLedger, Deals, NEW s \in Traders, UNCHANGED <<tables, tally>>,
         pc' = [pc EXCEPT ![s] = pc'[s]], exe' = [exe EXCEPT ![s] = exe'[s]],
         todo' = [todo EXCEPT ![s] = todo'[s]], txn' = [txn EXCEPT ![s] = txn'[s]],
         txn'[s].trades = txn[s].trades,
         \A o \in Sessions \ {s} : locks'[o] = locks[o], Holds(s) => Holds(s)',
         todo'[s] \subseteq todo[s] \/ (pc[s] = "idle" /\ todo'[s] \subseteq Codes),
         pc'[s] # "idle",
         pc'[s] \in {"size", "place", "fill", "settle"} =>
           /\ exe'[s].signal = "BUY" => /\ pos[exe'[s].code].qty = 0
                                        /\ Cardinality(OpenFor(s)) < Limit(s)
           /\ exe'[s].signal = "SELL" => exe'[s].quantity = pos[exe'[s].code].qty
  PROVE  Deals'
  <1>0. s \in Sessions /\ pos' = pos /\ Deal(s)
    BY DEF Sessions, tables, Deals
  <1>1. \A o \in Sessions \ {s} :
           /\ pc'[o] = pc[o] /\ exe'[o] = exe[o] /\ todo'[o] = todo[o]
           /\ txn'[o] = txn[o] /\ tally'[o] = tally[o] /\ locks'[o] = locks[o]
    BY <1>0 DEF TypeOK
  <1>2. OpenFor(s)' = OpenFor(s)
    BY <1>0 DEF OpenFor
  <1>3. \A c \in todo'[s] : tally[s].qty[c] = 0
    BY <1>0 DEF Deal, NoTally
  <1>4. Deal(s)'
    BY <1>0, <1>2, <1>3 DEF Deal, Limit
  <1>5. QED
    BY <1>0, <1>1, <1>4, DealStep

(* A run that ends without a fill.                                         *)
LEMMA DealFinish ==
  ASSUME TypeOK, LockedLedger, Deals, NEW s \in Traders, NEW status,
         Finish(s, status, txn[s]), UNCHANGED <<tables, tally>>,
         \A o \in Sessions \ {s} : locks'[o] = locks[o], Holds(s) => Holds(s)'
  PROVE  Deals'
  <1>0. s \in Sessions /\ txn[s] \in TxnType
    BY DEF Sessions, TypeOK
  <1>1. /\ txn' = [txn EXCEPT ![s] = [txn[s] EXCEPT !.runs = @ \cup {Outcome(s, status)}]]
        /\ todo' = [todo EXCEPT ![s] = todo[s] \ {exe[s].code}]
    BY DEF Finish, NextCode
  <1>2. txn'[s].trades = txn[s].trades
    BY <1>0, <1>1 DEF TypeOK, TxnType
  <1>3. /\ todo' = [todo EXCEPT ![s] = todo'[s]] /\ todo'[s] \subseteq todo[s]
    BY <1>0, <1>1 DEF TypeOK
  <1>4. /\ pc' = [pc EXCEPT ![s] = pc'[s]] /\ pc'[s] \in {"evaluate", "commit"}
        /\ exe' = [exe EXCEPT ![s] = exe'[s]] /\ txn' = [txn EXCEPT ![s] = txn'[s]]
    BY <1>0, FinishStep
  <1>5. QED
    BY <1>2, <1>3, <1>4, DealMove

LEMMA DealStartRun ==
  ASSUME TypeOK, LockedLedger, Deals, NEW s \in Traders, StartRun(s)
  PROVE  Deals'
  <1>0. s \in Sessions /\ pc[s] = "idle" /\ UNCHANGED <<tables, locks, exe, txn, tally>>
    BY DEF Sessions, StartRun
  <1>1. PICK targets \in SUBSET Codes : NextCode(s, targets)
    BY DEF StartRun
  <1>2. /\ \E where \in {"evaluate", "commit"} : pc' = [pc EXCEPT ![s] = where]
        /\ todo' = [todo EXCEPT ![s] = targets]
    BY <1>1 DEF NextCode, Go
  <1>3. /\ pc' = [pc EXCEPT ![s] = pc'[s]] /\ pc'[s] \in {"evaluate", "commit"}
        /\ exe' = [exe EXCEPT ![s] = exe'[s]] /\ txn' = [txn EXCEPT ![s] = txn'[s]]
        /\ todo' = [todo EXCEPT ![s] = todo'[s]] /\ todo'[s] \subseteq Codes
    BY <1>0, <1>2 DEF TypeOK
  <1>4. Holds(s) => Holds(s)'
    BY <1>0 DEF Holds
  <1>5. QED
    BY <1>0, <1>3, <1>4, DealMove

LEMMA DealEvaluate ==
  ASSUME TypeOK, LockedLedger, Deals, NEW s \in Traders, Evaluate(s)
  PROVE  Deals'
  <1>0. s \in Sessions /\ UNCHANGED <<tables, locks, todo, txn, tally>>
    BY DEF Sessions, Evaluate
  <1>1. /\ pc' = [pc EXCEPT ![s] = "record"]
        /\ \E run : exe' = [exe EXCEPT ![s] = run]
    BY DEF Evaluate, Go
  <1>2. /\ pc' = [pc EXCEPT ![s] = pc'[s]] /\ pc'[s] = "record"
        /\ exe' = [exe EXCEPT ![s] = exe'[s]] /\ txn' = [txn EXCEPT ![s] = txn'[s]]
        /\ todo' = [todo EXCEPT ![s] = todo'[s]] /\ todo'[s] \subseteq todo[s]
    BY <1>0, <1>1 DEF TypeOK
  <1>3. Holds(s) => Holds(s)'
    BY <1>0 DEF Holds
  <1>4. QED
    BY <1>0, <1>2, <1>3, DealMove

LEMMA DealCannotEvaluate ==
  ASSUME TypeOK, LockedLedger, Deals, NEW s \in Traders, CannotEvaluate(s)
  PROVE  Deals'
  <1>0. s \in Sessions /\ UNCHANGED <<tables, locks, exe, txn, tally>>
    BY DEF Sessions, CannotEvaluate
  <1>1. PICK c \in todo[s] : NextCode(s, todo[s] \ {c})
    BY DEF CannotEvaluate
  <1>2. /\ \E where \in {"evaluate", "commit"} : pc' = [pc EXCEPT ![s] = where]
        /\ todo' = [todo EXCEPT ![s] = todo[s] \ {c}]
    BY <1>1 DEF NextCode, Go
  <1>3. /\ pc' = [pc EXCEPT ![s] = pc'[s]] /\ pc'[s] \in {"evaluate", "commit"}
        /\ exe' = [exe EXCEPT ![s] = exe'[s]] /\ txn' = [txn EXCEPT ![s] = txn'[s]]
        /\ todo' = [todo EXCEPT ![s] = todo'[s]] /\ todo'[s] \subseteq todo[s]
    BY <1>0, <1>2 DEF TypeOK
  <1>4. Holds(s) => Holds(s)'
    BY <1>0 DEF Holds
  <1>5. QED
    BY <1>0, <1>3, <1>4, DealMove

LEMMA DealAbandon ==
  ASSUME TypeOK, LockedLedger, Deals, NEW s \in Traders, Abandon(s)
  PROVE  Deals'
  <1>0. s \in Sessions /\ txn[s] \in TxnType /\ UNCHANGED <<tables, locks, tally>>
    BY DEF Sessions, TypeOK, Abandon
  <1>1. PICK rows : txn' = [txn EXCEPT ![s].runs = rows]
    BY DEF Abandon
  <1>2. txn'[s].trades = txn[s].trades
    BY <1>0, <1>1 DEF TypeOK, TxnType
  <1>3. todo' = [todo EXCEPT ![s] = {}]
    BY DEF Abandon, NextCode
  <1>4. todo' = [todo EXCEPT ![s] = todo'[s]] /\ todo'[s] \subseteq todo[s]
    BY <1>0, <1>3 DEF TypeOK
  <1>5. Holds(s) => Holds(s)'
    BY <1>0 DEF Holds
  <1>6. QED
    BY <1>0, <1>2, <1>4, <1>5, AbandonStep, DealMove

LEMMA DealRecord ==
  ASSUME WriteLock, TypeOK, LockedLedger, Deals, NEW s \in Traders, Record(s)
  PROVE  Deals'
  <1>0. s \in Sessions /\ Acquire(s, {}) /\ UNCHANGED <<tables, tally>>
    BY DEF Sessions, Record
  <1>1. Holds(s)' /\ \A o \in Sessions \ {s} : locks'[o] = locks[o]
    BY <1>0, AcquireLock
  <1>2. CASE ~ req[s].execute
    <2>1. Finish(s, "NONE", txn[s])
      BY <1>2 DEF Record
    <2>2. QED
      BY <1>0, <1>1, <2>1, DealFinish
  <1>3. CASE req[s].execute
    <2>1. UNCHANGED <<todo, exe, txn>> /\ pc' = [pc EXCEPT ![s] = "check"]
      BY <1>3 DEF Record, Go
    <2>2. /\ pc' = [pc EXCEPT ![s] = pc'[s]] /\ pc'[s] = "check"
          /\ exe' = [exe EXCEPT ![s] = exe'[s]] /\ txn' = [txn EXCEPT ![s] = txn'[s]]
          /\ todo' = [todo EXCEPT ![s] = todo'[s]] /\ todo'[s] \subseteq todo[s]
      BY <1>0, <2>1 DEF TypeOK
    <2>3. QED
      BY <1>0, <1>1, <2>1, <2>2, DealMove
  <1>4. QED
    BY <1>2, <1>3

(* The check: a buy is of a code not held below the limit, a sale of the   *)
(* whole position, in the committed tables.                                *)
LEMMA DealCheck ==
  ASSUME TypeOK, LockedLedger, Story, Deals, NEW s \in Traders, Check(s)
  PROVE  Deals'
  <1> DEFINE code == exe[s].code
  <1> DEFINE row == RowOf(s, code)
  <1> DEFINE open == OpenCodes([c \in Codes |-> RowOf(s, c)])
  <1>0. /\ s \in Sessions /\ exe[s] \in ExeType /\ code \in Codes
        /\ pc[s] = "check" /\ UNCHANGED <<tables, locks, tally>>
    BY DEF Sessions, Check, TypeOK, TraderOK
  <1>1. Holds(s) => Holds(s)'
    BY <1>0 DEF Holds
  <1>2. CASE Finish(s, "SKIPPED", txn[s])
    BY <1>0, <1>1, <1>2, DealFinish
  <1>3. CASE /\ ~ Skipped(s, row, open)
             /\ exe' = [exe EXCEPT ![s].held = row,
                                   ![s].quantity = IF exe[s].signal = "SELL"
                                                   THEN row.qty ELSE 0]
             /\ Go(s, IF exe[s].signal = "SELL" THEN "place" ELSE "size")
             /\ UNCHANGED <<todo, txn>>
    <2>1. open = OpenFor(s) /\ row.qty = pos[code].qty + tally[s].qty[code]
          /\ pos[code].qty \in Nat /\ Cardinality(open) \in Nat /\ Limit(s) \in Nat
      BY <1>0, SeenRows
    <2>2. tally[s].qty[code] = 0
      BY <1>0 DEF Story, OwnWork, Running, Deals, Deal
    <2>3. row.qty = pos[code].qty
      BY <2>1, <2>2
    <2> HIDE DEF row, open
    <2>4. exe[s].signal = "BUY" => pos[code].qty = 0 /\ Cardinality(OpenFor(s)) < Limit(s)
      BY <1>3, <2>1, <2>3 DEF Skipped
    <2> DEFINE quantity == IF exe[s].signal = "SELL" THEN row.qty ELSE 0
    <2> DEFINE new == [exe[s] EXCEPT !.held = row, !.quantity = quantity]
    <2>5. exe' = [exe EXCEPT ![s] = new]
      BY <1>3
    <2> HIDE DEF quantity
    <2>6. new.code = code /\ new.signal = exe[s].signal /\ new.quantity = quantity
      BY <1>0 DEF ExeType
    <2>7. exe'[s] = new /\ exe' = [exe EXCEPT ![s] = exe'[s]]
      BY <1>0, <2>5 DEF TypeOK
    <2> HIDE DEF new
    <2>8. exe'[s].signal = "SELL" => exe'[s].quantity = pos[exe'[s].code].qty
      BY <2>3, <2>6, <2>7 DEF quantity
    <2>9. exe'[s].signal = "BUY" => /\ pos[exe'[s].code].qty = 0
                                    /\ Cardinality(OpenFor(s)) < Limit(s)
      BY <2>4, <2>6, <2>7
    <2>10. /\ pc' = [pc EXCEPT ![s] = pc'[s]] /\ pc'[s] \in {"size", "place"}
           /\ txn' = [txn EXCEPT ![s] = txn'[s]] /\ txn'[s] = txn[s]
           /\ todo' = [todo EXCEPT ![s] = todo'[s]] /\ todo'[s] \subseteq todo[s]
      BY <1>0, <1>3 DEF Go, TypeOK
    <2>11. QED
      BY <1>0, <1>1, <2>7, <2>8, <2>9, <2>10, DealMove
  <1>4. QED
    BY <1>2, <1>3 DEF Check

(* Size, Place and Find go on with the same decision.                      *)
LEMMA DealGoOn ==
  ASSUME TypeOK, LockedLedger, Deals, NEW s \in Traders,
         pc[s] \in {"size", "place", "fill"}, UNCHANGED <<tables, locks, tally, todo>>,
         NEW where \in {"place", "fill", "settle"}, Go(s, where),
         exe' = [exe EXCEPT ![s] = exe'[s]],
         exe'[s].code = exe[s].code, exe'[s].signal = exe[s].signal,
         exe[s].signal = "SELL" => exe'[s].quantity = exe[s].quantity,
         txn' = [txn EXCEPT ![s] = txn'[s]], txn'[s].trades = txn[s].trades
  PROVE  Deals'
  <1>0. s \in Sessions /\ Deal(s)
    BY DEF Sessions, Deals
  <1>1. /\ pc' = [pc EXCEPT ![s] = pc'[s]] /\ pc'[s] = where
        /\ todo' = [todo EXCEPT ![s] = todo'[s]] /\ todo'[s] \subseteq todo[s]
    BY <1>0 DEF Go, TypeOK
  <1>2. Holds(s) => Holds(s)'
    BY DEF Holds
  <1>3. /\ exe'[s].signal = "BUY" => /\ pos[exe'[s].code].qty = 0
                                     /\ Cardinality(OpenFor(s)) < Limit(s)
        /\ exe'[s].signal = "SELL" => exe'[s].quantity = pos[exe'[s].code].qty
    BY <1>0 DEF Deal
  <1>4. QED
    BY <1>1, <1>2, <1>3, DealMove

LEMMA DealSize ==
  ASSUME TypeOK, LockedLedger, Deals, NEW s \in Traders, Size(s)
  PROVE  Deals'
  <1>0. s \in Sessions /\ exe[s] \in ExeType /\ exe[s].signal = "BUY" /\ pc[s] = "size"
        /\ UNCHANGED <<tables, locks, tally>>
    BY DEF Sessions, Size, TypeOK, TraderOK
  <1>1. Holds(s) => Holds(s)'
    BY <1>0 DEF Holds
  <1>2. CASE Finish(s, "FAILED", txn[s])
    BY <1>0, <1>1, <1>2, DealFinish
  <1>3. ASSUME NEW quantity,
               exe' = [exe EXCEPT ![s].seen = CashOf(s), ![s].quantity = quantity],
               Go(s, "place"), UNCHANGED <<todo, txn>>
        PROVE  Deals'
    <2> DEFINE new == [exe[s] EXCEPT !.seen = CashOf(s), !.quantity = quantity]
    <2>1. exe' = [exe EXCEPT ![s] = new]
      BY <1>3
    <2>2. new.code = exe[s].code /\ new.signal = exe[s].signal
      BY <1>0 DEF ExeType
    <2> HIDE DEF new
    <2>3. exe'[s] = new /\ exe' = [exe EXCEPT ![s] = exe'[s]]
      BY <1>0, <2>1 DEF TypeOK
    <2>4. txn' = [txn EXCEPT ![s] = txn'[s]] /\ txn'[s] = txn[s]
      BY <1>0, <1>3 DEF TypeOK
    <2>5. QED
      BY <1>0, <1>3, <2>2, <2>3, <2>4, DealGoOn
  <1>4. QED
    BY <1>2, <1>3 DEF Size

LEMMA DealPlace ==
  ASSUME TypeOK, LockedLedger, Deals, NEW s \in Traders, Place(s)
  PROVE  Deals'
  <1>0. s \in Sessions /\ exe[s] \in ExeType /\ txn[s] \in TxnType /\ pc[s] = "place"
        /\ UNCHANGED <<tables, locks, tally>>
    BY DEF Sessions, Place, TypeOK
  <1>1. Holds(s) => Holds(s)'
    BY <1>0 DEF Holds
  <1>2. CASE Finish(s, "FAILED", txn[s])
    BY <1>0, <1>1, <1>2, DealFinish
  <1> DEFINE seen == IF exe[s].signal = "SELL" THEN CashOf(s) ELSE exe[s].seen
  <1>3. ASSUME NEW price, NEW order,
               txn' = [txn EXCEPT ![s].orders = @ \cup {order}],
               exe' = [exe EXCEPT ![s].price = price, ![s].seen = seen],
               Go(s, "fill"), UNCHANGED todo
        PROVE  Deals'
    <2> HIDE DEF seen
    <2> DEFINE new == [exe[s] EXCEPT !.price = price, !.seen = seen]
    <2>1. exe' = [exe EXCEPT ![s] = new]
      BY <1>3
    <2>2. new.code = exe[s].code /\ new.signal = exe[s].signal
          /\ new.quantity = exe[s].quantity
      BY <1>0 DEF ExeType
    <2> HIDE DEF new
    <2>3. exe'[s] = new /\ exe' = [exe EXCEPT ![s] = exe'[s]]
      BY <1>0, <2>1 DEF TypeOK
    <2>4. txn' = [txn EXCEPT ![s] = txn'[s]] /\ txn'[s].trades = txn[s].trades
      <3>1. txn' = [txn EXCEPT ![s] = [txn[s] EXCEPT !.orders = @ \cup {order}]]
        BY <1>0, <1>3 DEF TypeOK
      <3>2. QED
        BY <1>0, <3>1 DEF TypeOK, TxnType
    <2>5. QED
      BY <1>0, <1>3, <2>2, <2>3, <2>4, DealGoOn
  <1>4. QED
    BY <1>2, <1>3 DEF Place

LEMMA DealFind ==
  ASSUME TypeOK, LockedLedger, Deals, NEW s \in Traders, Find(s)
  PROVE  Deals'
  <1>0. s \in Sessions /\ pc[s] = "fill" /\ UNCHANGED <<tables, locks, tally>>
    BY DEF Sessions, Find
  <1>1. Holds(s) => Holds(s)'
    BY <1>0 DEF Holds
  <1>2. CASE Refused(s)
    BY <1>0, <1>1, <1>2, DealFinish DEF Find
  <1>3. CASE ~ Refused(s)
    <2>1. /\ exe' = [exe EXCEPT ![s] = exe'[s]]
          /\ exe'[s].code = exe[s].code /\ exe'[s].signal = exe[s].signal
          /\ exe'[s].quantity = exe[s].quantity
          /\ UNCHANGED <<todo, txn>> /\ Go(s, "settle")
      BY <1>3, FindStep DEF Find
    <2>2. txn' = [txn EXCEPT ![s] = txn'[s]] /\ txn'[s].trades = txn[s].trades
      BY <1>0, <2>1 DEF TypeOK
    <2>3. QED
      BY <1>0, <2>1, <2>2, DealGoOn
  <1>4. QED
    BY <1>2, <1>3

(* A fill: the code moves from untraded to traded.                         *)
LEMMA DealSettle ==
  ASSUME WriteLock, TypeOK, LockedLedger, Story, Deals, NEW s \in Traders,
         NEW row \in RowType, NEW paid \in Int, NEW moved, moved = IF exe[s].signal = "BUY" THEN exe[s].quantity
                                                     ELSE - exe[s].quantity,
         Settle(s, row, paid, moved)
  PROVE  Deals'
  <1> DEFINE e == exe[s]
  <1> DEFINE trade == Pending(s)
  <1> DEFINE writes == [txn[s] EXCEPT !.cash = Write(@, e.seen, e.seen - paid),
                                      !.pos[e.code] = WriteRow(@, e.held, row),
                                      !.trades = @ \cup {trade}]
  <1>0. /\ s \in Sessions /\ txn[s] \in TxnType /\ e \in ExeType /\ e.code \in Codes
        /\ e.signal \in {"BUY", "SELL"} /\ e.quantity \in Nat /\ tally[s] \in TallyType
        /\ pc[s] = "settle" /\ UNCHANGED tables
    BY DEF Sessions, TypeOK, TraderOK, ExeType, Settle
  <1>1. /\ Acquire(s, {AccountRow, e.code}) /\ Finish(s, "APPLIED", writes)
        /\ tally' = [tally EXCEPT ![s].cash = @ - paid, ![s].qty[e.code] = @ + moved]
    BY DEF Settle, Pending
  <1>2. Holds(s)' /\ \A o \in Sessions \ {s} : locks'[o] = locks[o]
    BY <1>0, <1>1, AcquireLock
  <1>3. /\ trade.code = e.code /\ trade.side = e.signal /\ trade.quantity = e.quantity
        /\ e.code \in todo[s] /\ (\A t \in txn[s].trades : t.code \notin todo[s])
    BY <1>0 DEF Pending, Story, OwnWork, Running
  <1>4. Deal(s) /\ tally[s].qty[e.code] = 0
    BY <1>3 DEF Deals, Deal
  <1>5. /\ \A c \in Codes : tally'[s].qty[c] = IF c = e.code THEN moved ELSE tally[s].qty[c]
        /\ \A o \in Sessions \ {s} : tally'[o] = tally[o]
    <2> DEFINE qty == [tally[s].qty EXCEPT ![e.code] = @ + moved]
    <2> DEFINE money == tally[s].cash - paid
    <2>1. tally' = [tally EXCEPT ![s] = [tally[s] EXCEPT !.cash = money, !.qty = qty]]
      BY <1>0, <1>1 DEF TypeOK, TallyType
    <2> HIDE DEF money
    <2>2. tally'[s].qty = qty /\ \A o \in Sessions \ {s} : tally'[o] = tally[o]
      BY <1>0, <2>1 DEF TypeOK, TallyType
    <2>3. 0 + moved = moved
      BY <1>0
    <2>4. QED
      BY <1>0, <1>4, <2>2, <2>3 DEF TallyType
  <1>6. writes.trades = txn[s].trades \cup {trade} /\ DOMAIN writes = DOMAIN txn[s]
    BY <1>0 DEF TxnType
  <1>7. /\ txn' = [txn EXCEPT ![s] = [writes EXCEPT !.runs = @ \cup {Outcome(s, "APPLIED")}]]
        /\ todo' = [todo EXCEPT ![s] = todo[s] \ {e.code}]
        /\ exe' = [exe EXCEPT ![s] = NoRun]
        /\ \E where \in {"evaluate", "commit"} : pc' = [pc EXCEPT ![s] = where]
    BY <1>1 DEF Finish, NextCode, Go
  <1> HIDE DEF writes, trade
  <1>8. txn'[s].trades = txn[s].trades \cup {trade}
    BY <1>0, <1>6, <1>7 DEF TypeOK, TxnType
  <1>9. /\ todo'[s] = todo[s] \ {e.code} /\ pc'[s] \in {"evaluate", "commit"}
        /\ \A o \in Sessions \ {s} :
             pc'[o] = pc[o] /\ exe'[o] = exe[o] /\ todo'[o] = todo[o] /\ txn'[o] = txn[o]
    BY <1>0, <1>7 DEF TypeOK
  <1>10. pos' = pos /\ \A c \in Codes : pos[c].qty \in Nat /\ tally[s].qty[c] \in Int
    BY <1>0 DEF tables, TypeOK, RowType, TallyType
  <1>11. txn[s].trades \subseteq OrderType
    BY <1>0 DEF TxnType
  <1>12. \A t \in txn'[s].trades :
           /\ t.side = "BUY" => pos[t.code].qty = 0
           /\ t.side = "SELL" => /\ pos[t.code].qty = t.quantity
                                 /\ tally'[s].qty[t.code] = - t.quantity
    <2>1. ASSUME NEW t \in txn[s].trades
          PROVE  /\ t.side = "BUY" => pos[t.code].qty = 0
                 /\ t.side = "SELL" => /\ pos[t.code].qty = t.quantity
                                       /\ tally'[s].qty[t.code] = - t.quantity
      <3>1. t.code \in Codes /\ t.code # e.code
        BY <1>3, <1>11 DEF OrderType
      <3>2. QED
        BY <1>4, <1>5, <3>1 DEF Deal
    <2>2. /\ trade.side = "BUY" => pos[trade.code].qty = 0
          /\ trade.side = "SELL" => /\ pos[trade.code].qty = trade.quantity
                                    /\ tally'[s].qty[trade.code] = - trade.quantity
      BY <1>0, <1>3, <1>4, <1>5 DEF Deal
    <2>3. QED
      BY <1>8, <2>1, <2>2
  <1>13. (\E t \in txn'[s].trades : t.side = "BUY") => Cardinality(OpenFor(s)') <= Limit(s)
    <2>0. /\ IsFiniteSet(OpenFor(s)) /\ Cardinality(OpenFor(s)) \in Nat /\ Limit(s) \in Nat
      BY SeenRows
    <2>1. CASE e.signal = "BUY"
      <3>1. OpenFor(s)' \subseteq OpenFor(s) \cup {e.code}
        BY <1>5, <1>10 DEF OpenFor
      <3>2. /\ IsFiniteSet(OpenFor(s) \cup {e.code})
            /\ Cardinality(OpenFor(s) \cup {e.code}) <= Cardinality(OpenFor(s)) + 1
        <4>1. /\ IsFiniteSet(OpenFor(s) \cup {e.code})
              /\ Cardinality(OpenFor(s) \cup {e.code}) =
                   IF e.code \in OpenFor(s) THEN Cardinality(OpenFor(s))
                   ELSE Cardinality(OpenFor(s)) + 1
          BY <2>0, FS_AddElement, Zenon
        <4>2. QED
          BY <2>0, <4>1
      <3>3. Cardinality(OpenFor(s)') <= Cardinality(OpenFor(s) \cup {e.code})
            /\ Cardinality(OpenFor(s)') \in Nat
            /\ Cardinality(OpenFor(s) \cup {e.code}) \in Nat
        BY <3>1, <3>2, FS_Subset, FS_CardinalityType
      <3>4. Cardinality(OpenFor(s)) < Limit(s)
        BY <1>0, <1>4, <2>1 DEF Deal
      <3>5. QED
        BY <2>0, <3>2, <3>3, <3>4
    <2>2. CASE e.signal = "SELL"
      <3>1. OpenFor(s)' \subseteq OpenFor(s)
        BY <1>0, <1>4, <1>5, <1>10, <2>2 DEF OpenFor, Deal
      <3>2. Cardinality(OpenFor(s)') <= Cardinality(OpenFor(s))
            /\ Cardinality(OpenFor(s)') \in Nat
        BY <2>0, <3>1, FS_Subset, FS_CardinalityType
      <3>3. (\E t \in txn'[s].trades : t.side = "BUY") => Cardinality(OpenFor(s)) <= Limit(s)
        BY <1>3, <1>4, <1>8, <2>2 DEF Deal
      <3>4. QED
        BY <2>0, <3>2, <3>3
    <2>3. QED
      BY <1>0, <2>1, <2>2
  <1>14. \A c \in todo'[s] : tally'[s].qty[c] = 0
    <2>1. todo[s] \subseteq Codes
      BY <1>0 DEF TypeOK
    <2>2. QED
      BY <1>4, <1>5, <1>9, <2>1 DEF Deal
  <1>15. Deal(s)'
    BY <1>2, <1>9, <1>10, <1>12, <1>13, <1>14 DEF Deal, Limit
  <1>16. QED
    BY <1>0, <1>2, <1>5, <1>9, <1>15, DealStep

LEMMA DealFillBuy ==
  ASSUME WriteLock, TypeOK, LockedLedger, Story, Deals, NEW s \in Traders, FillBuy(s)
  PROVE  Deals'
  <1> DEFINE e == exe[s]
  <1> DEFINE cost == BuyCost(e.price, e.quantity)
  <1>1. e.signal = "BUY" /\ pc[s] = "settle"
        /\ Settle(s, Bought(s, e.held), cost, e.quantity)
    BY DEF FillBuy, Settle
  <1>2. s \in Sessions /\ e \in ExeType /\ e.price \in Prices
    BY <1>1 DEF Sessions, TypeOK, TraderOK
  <1>3. e.held \in RowType /\ e.quantity \in Nat /\ e.price \in Nat
    BY <1>2, TradingAssumption DEF ExeType
  <1>4. cost \in Nat
    BY <1>3, BuyCostType
  <1>5. Bought(s, e.held) \in RowType
    BY <1>2, <1>3, BoughtType
  <1> HIDE DEF cost
  <1>6. cost \in Int
    BY <1>4
  <1>7. QED
    BY <1>1, <1>5, <1>6, DealSettle

LEMMA DealFillSell ==
  ASSUME WriteLock, TypeOK, LockedLedger, Story, Deals, NEW s \in Traders, FillSell(s)
  PROVE  Deals'
  <1> DEFINE e == exe[s]
  <1> DEFINE paid == - SellProceeds(e.price, e.quantity)
  <1>1. e.signal = "SELL" /\ pc[s] = "settle"
        /\ Settle(s, Sold(s, e.held), paid, - e.quantity)
    BY DEF FillSell, Settle
  <1>2. s \in Sessions /\ e \in ExeType /\ e.price \in Prices /\ e.quantity <= e.held.qty
    BY <1>1 DEF Sessions, TypeOK, TraderOK
  <1>3. e.held \in RowType /\ e.quantity \in Nat /\ e.price \in Nat
    BY <1>2, TradingAssumption DEF ExeType
  <1>4. paid \in Int
    BY <1>3, SellProceedsType
  <1>5. Sold(s, e.held) \in RowType
    BY <1>2, <1>3, SoldType
  <1> HIDE DEF paid
  <1>6. QED
    BY <1>1, <1>4, <1>5, DealSettle

LEMMA DealBootstrap ==
  ASSUME WriteLock, TypeOK, LockedLedger, Deals, NEW b \in Boots,
         LoadAccount(b) \/ Reset(b) \/ Import(b)
  PROVE  Deals'
  <1>0. b \in Sessions /\ b \notin Traders
    BY TradingAssumption DEF Sessions
  <1>1. UNCHANGED <<tables, todo, tally>>
    BY DEF LoadAccount, Reset, Import
  <1>2. \A o \in Sessions \ {b} : pc'[o] = pc[o] /\ exe'[o] = exe[o] /\ txn'[o] = txn[o]
    BY <1>0 DEF LoadAccount, Reset, Import, Go, TypeOK
  <1>3. \A o \in Sessions \ {b} : locks'[o] = locks[o]
    <2>1. UNCHANGED locks \/ \E rows : Acquire(b, rows)
      BY DEF LoadAccount, Reset, Import
    <2>2. QED
      BY <1>0, <2>1, AcquireLock
  <1>4. QED
    BY <1>0, <1>1, <1>2, <1>3, DealStep

(* The end of a session, with its commit or without.                       *)
LEMMA DealClose ==
  ASSUME TypeOK, LockedLedger, Deals, NEW s \in Sessions, NEW how \in {"done", "failed"},
         Close(s, how), UNCHANGED tables \/ Apply(s)
  PROVE  Deals'
  <1>1. pc'[s] = how /\ txn'[s] = NoWrites /\ todo'[s] = {}
    BY DEF Close, Go, TypeOK
  <1>2. \A o \in Sessions \ {s} :
           /\ pc'[o] = pc[o] /\ exe'[o] = exe[o] /\ todo'[o] = todo[o]
           /\ txn'[o] = txn[o] /\ tally'[o] = tally[o] /\ locks'[o] = locks[o]
    BY DEF Close, Go, TypeOK
  <1>3. Deal(s)'
    <2>1. txn'[s].trades = {}
      BY <1>1 DEF NoWrites
    <2>2. QED
      BY <1>1, <2>1 DEF Deal
  <1>4. ASSUME NEW o \in Traders, o # s PROVE Deal(o)'
    <2>1. o \in Sessions
      BY DEF Sessions
    <2>2. Holds(o) => pos' = pos
      <3>1. CASE UNCHANGED tables
        BY <3>1 DEF tables
      <3>2. CASE Apply(s) /\ Holds(o)
        <4>1. ~ Holds(s)
          BY <1>4, <2>1, <3>2 DEF LockedLedger
        <4>2. QED
          BY <3>2, <4>1, IdleCommit
      <3>3. QED
        BY <3>1, <3>2
    <2>3. QED
      BY <1>2, <1>4, <2>1, <2>2, DealOther
  <1>5. QED
    BY <1>3, <1>4 DEF Deals

LEMMA DealNext ==
  ASSUME WriteLock, TypeOK, LockedLedger, Story, Deals, [Next]_vars
  PROVE  Deals'
  <1>1. ASSUME NEW s \in Traders, Run(s) PROVE Deals'
    <2>1. CASE CommitRun(s)
      BY <2>1, DealClose DEF CommitRun, Sessions
    <2>2. QED
      BY <1>1, <2>1, DealStartRun, DealEvaluate, DealCannotEvaluate, DealAbandon,
         DealRecord, DealCheck, DealSize, DealPlace, DealFind, DealFillBuy, DealFillSell
      DEF Run
  <1>2. ASSUME NEW b \in Boots, Bootstrap(b) PROVE Deals'
    <2>1. CASE CommitImport(b)
      BY <2>1, DealClose DEF CommitImport, Sessions
    <2>2. QED
      BY <1>2, <2>1, DealBootstrap DEF Bootstrap
  <1>3. ASSUME NEW s \in Sessions, Fail(s) PROVE Deals'
    BY <1>3, DealClose DEF Fail
  <1>4. CASE UNCHANGED vars
    BY <1>4 DEF vars, Deals, Deal, OpenFor, Holds, Limit
  <1>5. QED
    BY <1>1, <1>2, <1>3, <1>4 DEF Next

(* Everything the action properties rest on, under a write lock.           *)
LEMMA DealsInvariant == WriteLock /\ Spec => [](TypeOK /\ LockedLedger /\ Story /\ Deals)
  <1> SUFFICES ASSUME WriteLock
               PROVE  Spec => [](TypeOK /\ LockedLedger /\ Story /\ Deals)
    OBVIOUS
  <1>1. TypeOK /\ LockedLedger /\ Story /\ Deals /\ [Next]_vars => Deals'
    BY DealNext
  <1>2. QED
    BY <1>1, DealsInit, TradingTypeOK, LockedInvariant, StoryInvariant, PTL DEF Spec

(* A new trade was committed by the session that made it.                  *)
LEMMA NewTrade ==
  ASSUME TypeOK, Story, LockedLedger, Next, NEW t \in trades' \ trades
  PROVE  \E s \in Traders : CommitRun(s) /\ t \in txn[s].trades /\ t.by = s
  <1>1. \A s \in Sessions : ~ Fail(s)
    BY DEF Fail, tables
  <1>2. \A b \in Boots : ~ Bootstrap(b)
    <2> SUFFICES ASSUME NEW b \in Boots, Bootstrap(b) PROVE FALSE
      OBVIOUS
    <2>1. trades' = trades
      <3>1. CASE CommitImport(b)
        BY <3>1 DEF CommitImport, Apply, Story, NoStory
      <3>2. CASE LoadAccount(b) \/ Reset(b) \/ Import(b)
        BY <3>2 DEF LoadAccount, Reset, Import, tables
      <3>3. QED
        BY <3>1, <3>2 DEF Bootstrap
    <2>2. QED
      BY <2>1
  <1>3. PICK s \in Traders : Run(s)
    BY <1>1, <1>2 DEF Next
  <1>4. CommitRun(s)
    BY <1>3 DEF Run, StartRun, Evaluate, CannotEvaluate, Abandon, Record, Check, Size,
                Place, Find, FillBuy, FillSell, Settle, tables
  <1>5. t \in txn[s].trades
    BY <1>4 DEF CommitRun, Apply
  <1>6. t.by = s
    BY <1>5 DEF Story, OwnWork
  <1>7. QED
    BY <1>4, <1>5, <1>6

(* With SQLite's write lock a buy is only ever committed on a code that    *)
(* was not held: not when two sessions buy the same code, nor when a       *)
(* bootstrap brings it in.                                                 *)
THEOREM TradingNoDoubleBuy == WriteLock /\ Spec => NoDoubleBuy
  <1> SUFFICES ASSUME WriteLock PROVE Spec => NoDoubleBuy
    OBVIOUS
  <1>1. ASSUME TypeOK, LockedLedger, Story, Deals, Next,
               NEW t \in trades' \ trades, t.side = "BUY"
        PROVE  pos[t.code].qty = 0
    <2>1. PICK s \in Traders : t \in txn[s].trades
      BY <1>1, NewTrade
    <2>2. QED
      BY <1>1, <2>1 DEF Deals, Deal
  <1>2. TypeOK /\ LockedLedger /\ Story /\ Deals /\ [Next]_vars =>
          [\A t \in trades' \ trades : t.side = "BUY" => pos[t.code].qty = 0]_vars
    BY <1>1
  <1>3. QED
    BY <1>2, DealsInvariant, PTL DEF Spec, NoDoubleBuy

(* With the write lock a sale closes the very position it was sized on,    *)
(* whatever other sessions did between its check and its commit.           *)
THEOREM TradingSaleCloses == WriteLock /\ Spec => SaleCloses
  <1> SUFFICES ASSUME WriteLock PROVE Spec => SaleCloses
    OBVIOUS
  <1>1. ASSUME TypeOK, LockedLedger, Story, Deals, Next,
               NEW t \in trades' \ trades, t.side = "SELL"
        PROVE  pos[t.code].qty = t.quantity /\ pos'[t.code].qty = 0
    <2>1. PICK s \in Traders : CommitRun(s) /\ t \in txn[s].trades
      BY <1>1, NewTrade
    <2>2. s \in Sessions /\ txn[s] \in TxnType
      BY <1>1 DEF Sessions, TypeOK
    <2>3. t.code \in Codes /\ t.quantity \in Nat
      BY <2>1, <2>2 DEF TxnType, OrderType
    <2>4. pos[t.code].qty = t.quantity /\ tally[s].qty[t.code] = - t.quantity
      BY <1>1, <2>1 DEF Deals, Deal
    <2>5. pos'[t.code].qty = RowOf(s, t.code).qty
      BY <2>1, <2>3 DEF CommitRun, Apply
    <2>6. RowOf(s, t.code).qty = pos[t.code].qty + tally[s].qty[t.code]
      BY <1>1, <2>3, SeenRows
    <2>7. QED
      BY <2>3, <2>4, <2>5, <2>6
  <1>2. TypeOK /\ LockedLedger /\ Story /\ Deals /\ [Next]_vars =>
          [\A t \in trades' \ trades :
             t.side = "SELL" => /\ pos[t.code].qty = t.quantity
                                /\ pos'[t.code].qty = 0]_vars
    BY <1>1
  <1>3. QED
    BY <1>2, DealsInvariant, PTL DEF Spec, SaleCloses

(* With the write lock a session that commits a buy leaves at most its     *)
(* limit of open positions, however many others trade at the same time:    *)
(* what PostgreSQL does not give (AtMostConfigured fails there).           *)
THEOREM TradingOpensWithinLimit == WriteLock /\ Spec => OpensWithinLimit
  <1> SUFFICES ASSUME WriteLock PROVE Spec => OpensWithinLimit
    OBVIOUS
  <1>1. ASSUME TypeOK, LockedLedger, Story, Deals, Next, NEW s \in Traders,
               NEW t \in trades' \ trades, t.by = s, t.side = "BUY"
        PROVE  Cardinality(OpenCodes(pos')) <= Limit(s)
    <2>1. CommitRun(s) /\ t \in txn[s].trades
      BY <1>1, NewTrade
    <2>2. pos' = [c \in Codes |-> RowOf(s, c)]
      BY <2>1 DEF CommitRun, Apply
    <2>3. OpenCodes(pos') = OpenFor(s)
      BY <1>1, <2>2, SeenRows
    <2>4. Cardinality(OpenFor(s)) <= Limit(s)
      BY <1>1, <2>1 DEF Deals, Deal
    <2>5. QED
      BY <2>3, <2>4
  <1>2. TypeOK /\ LockedLedger /\ Story /\ Deals /\ [Next]_vars =>
          [\A s \in Traders :
             (\E t \in trades' \ trades : t.by = s /\ t.side = "BUY") =>
               Cardinality(OpenCodes(pos')) <= Limit(s)]_vars
    BY <1>1
  <1>3. QED
    BY <1>2, DealsInvariant, PTL DEF Spec, OpensWithinLimit

-----------------------------------------------------------------------------
(* Money under a write lock: the value of the account is conserved, and    *)
(* its stored metrics are those of its positions.                          *)
(*                                                                         *)
(* Both are sums over the codes.  Like LockedLedger, Books says of what    *)
(* each session SEES what the properties say of the committed tables: a    *)
(* fill changes one row, the cash and the metrics of a whole account.      *)

Principal(rows) == [c \in Codes |-> rows[c].cost - rows[c].pnl]
Worths(rows) == [c \in Codes |-> rows[c].qty * rows[c].price]

LEMMA PrincipalSum ==
  ASSUME NEW rows
  PROVE  MapThenSumSet(LAMBDA c : rows[c].cost - rows[c].pnl, Codes) = Total(Principal(rows), Codes)
  <1> DEFINE term(s) == rows[Pick(s)].cost - rows[Pick(s)].pnl
  <1>1. \A s \in SUBSET Codes : s # {} => Principal(rows)[Pick(s)] = term(s)
    BY PickIn DEF Principal
  <1>2. PICK g : IsTotal(g, Principal(rows), Codes) /\ Total(Principal(rows), Codes) = g[Codes]
    BY TotalIs, TradingAssumption
  <1>3. \A h : IsTotal(h, Principal(rows), Codes) <=>
          h = [s \in SUBSET Codes |-> IF s = {} THEN 0 ELSE term(s) + h[s \ {Pick(s)}]]
    BY <1>1 DEF IsTotal
  <1>4. PICK h :
          /\ h = [s \in SUBSET Codes |-> IF s = {} THEN 0 ELSE term(s) + h[s \ {Pick(s)}]]
          /\ MapThenSumSet(LAMBDA c : rows[c].cost - rows[c].pnl, Codes) = h[Codes]
    BY <1>2, <1>3 DEF MapThenSumSet, MapThenFoldSet, Pick
  <1>5. IsTotal(h, Principal(rows), Codes)
    BY <1>3, <1>4
  <1>6. QED
    BY <1>4, <1>5, TotalOf, TradingAssumption

LEMMA CostsSum ==
  ASSUME NEW rows
  PROVE  MapThenSumSet(LAMBDA c : rows[c].cost, Codes) = Total([c \in Codes |-> rows[c].cost], Codes)
  <1> DEFINE costs == [c \in Codes |-> rows[c].cost]
  <1> DEFINE term(s) == rows[Pick(s)].cost
  <1>1. \A s \in SUBSET Codes : s # {} => costs[Pick(s)] = term(s)
    BY PickIn
  <1>2. PICK g : IsTotal(g, costs, Codes) /\ Total(costs, Codes) = g[Codes]
    BY TotalIs, TradingAssumption
  <1> HIDE DEF costs
  <1>3. \A h : IsTotal(h, costs, Codes) <=>
          h = [s \in SUBSET Codes |-> IF s = {} THEN 0 ELSE term(s) + h[s \ {Pick(s)}]]
    BY <1>1 DEF IsTotal
  <1>4. PICK h :
          /\ h = [s \in SUBSET Codes |-> IF s = {} THEN 0 ELSE term(s) + h[s \ {Pick(s)}]]
          /\ MapThenSumSet(LAMBDA c : rows[c].cost, Codes) = h[Codes]
    BY <1>2, <1>3 DEF MapThenSumSet, MapThenFoldSet, Pick
  <1>5. IsTotal(h, costs, Codes)
    BY <1>3, <1>4
  <1>6. QED
    BY <1>4, <1>5, TotalOf, TradingAssumption DEF costs

(* Where no profit is booked, the cost of the rows is all there is.        *)
LEMMA CostSum ==
  ASSUME NEW rows, rows \in [Codes -> RowType], \A c \in Codes : rows[c].pnl = 0
  PROVE  MapThenSumSet(LAMBDA c : rows[c].cost, Codes) = Total(Principal(rows), Codes)
  <1> DEFINE costs == [c \in Codes |-> rows[c].cost]
  <1>1. MapThenSumSet(LAMBDA c : rows[c].cost, Codes) = Total(costs, Codes)
    BY CostsSum
  <1>2. ASSUME NEW c \in Codes PROVE costs[c] = Principal(rows)[c]
    <2>1. rows[c].cost \in Int /\ rows[c].pnl = 0
      BY DEF RowType
    <2>2. QED
      BY <2>1 DEF Principal
  <1>3. QED
    BY <1>1, <1>2, SumSame, TradingAssumption

LEMMA WorthSum ==
  ASSUME NEW rows
  PROVE  MarketValue(rows) = Total(Worths(rows), Codes)
  <1> DEFINE term(s) == rows[Pick(s)].qty * rows[Pick(s)].price
  <1>1. \A s \in SUBSET Codes : s # {} => Worths(rows)[Pick(s)] = term(s)
    BY PickIn DEF Worths
  <1>2. PICK g : IsTotal(g, Worths(rows), Codes) /\ Total(Worths(rows), Codes) = g[Codes]
    BY TotalIs, TradingAssumption
  <1>3. \A h : IsTotal(h, Worths(rows), Codes) <=>
          h = [s \in SUBSET Codes |-> IF s = {} THEN 0 ELSE term(s) + h[s \ {Pick(s)}]]
    BY <1>1 DEF IsTotal
  <1>4. PICK h :
          /\ h = [s \in SUBSET Codes |-> IF s = {} THEN 0 ELSE term(s) + h[s \ {Pick(s)}]]
          /\ MarketValue(rows) = h[Codes]
    BY <1>2, <1>3 DEF MarketValue, MapThenSumSet, MapThenFoldSet, Pick
  <1>5. IsTotal(h, Worths(rows), Codes)
    BY <1>3, <1>4
  <1>6. QED
    BY <1>4, <1>5, TotalOf, TradingAssumption

LEMMA PrincipalType ==
  ASSUME NEW rows \in [Codes -> RowType]
  PROVE  /\ Total(Principal(rows), Codes) \in Int
         /\ \A c \in Codes : Principal(rows)[c] \in Int
  <1>1. \A c \in Codes : Principal(rows)[c] \in Int
    <2> SUFFICES ASSUME NEW c \in Codes PROVE Principal(rows)[c] \in Int
      OBVIOUS
    <2>1. rows[c].cost \in Int /\ rows[c].pnl \in Int
      BY DEF RowType
    <2>2. QED
      BY <2>1 DEF Principal
  <1>2. QED
    BY <1>1, SumType, TradingAssumption

LEMMA MarketValueType ==
  ASSUME NEW rows \in [Codes -> RowType]
  PROVE  MarketValue(rows) \in Int
  <1>1. \A c \in Codes : Worths(rows)[c] \in Int
    <2> SUFFICES ASSUME NEW c \in Codes PROVE Worths(rows)[c] \in Int
      OBVIOUS
    <2>1. rows[c].qty \in Int /\ rows[c].price \in Int
      BY DEF RowType
    <2>2. QED
      BY <2>1 DEF Worths
  <1>2. QED
    BY <1>1, WorthSum, SumType, TradingAssumption

(* A fill of a row for money conserves the value when what is paid is what *)
(* the row gains.                                                          *)
LEMMA PrincipalMoves ==
  ASSUME NEW rows \in [Codes -> RowType], NEW new \in [Codes -> RowType],
         NEW code \in Codes, \A c \in Codes \ {code} : new[c] = rows[c],
         NEW money \in Int, NEW paid \in Int,
         new[code].cost - new[code].pnl = rows[code].cost - rows[code].pnl + paid
  PROVE  (money - paid) + Total(Principal(new), Codes) = money + Total(Principal(rows), Codes)
  <1>1. \A c \in Codes : Principal(rows)[c] \in Int /\ Principal(new)[c] \in Int
    BY PrincipalType
  <1>2. \A c \in Codes \ {code} : Principal(rows)[c] = Principal(new)[c]
    BY DEF Principal
  <1>3. Total(Principal(new), Codes) =
          Total(Principal(rows), Codes) + Principal(new)[code] - Principal(rows)[code]
    BY <1>1, <1>2, SumChanged, TradingAssumption
  <1>4. Principal(new)[code] = Principal(rows)[code] + paid
    BY DEF Principal
  <1>5. Total(Principal(rows), Codes) \in Int
    BY PrincipalType
  <1>6. QED
    BY <1>1, <1>3, <1>4, <1>5

-----------------------------------------------------------------------------

Metrics == [mv : Int, eq : Int]
WorthType == [seen : Metrics, own : [mv : Int \cup {Keep}, eq : Int \cup {Keep}]]

(* The rows a session sees.                                                *)
View(s) == [c \in Codes |-> RowOf(s, c)]

(* What there is no row of is not there.                                   *)
Existing(rows) == \A c \in Codes : rows[c].id = NoRow => rows[c] = NoPosition

Whole(money, rows) == money + Total(Principal(rows), Codes) = capital

NoneReplaced == \A b \in Boots : pc[b] # "done"

Valued(metrics, money, rows) ==
  NoneReplaced => metrics.mv = MarketValue(rows) /\ metrics.eq = money + metrics.mv

(* A trader's view is a whole account, and what it will write its metrics  *)
(* over is what it loaded.                                                 *)
TraderBooks(s) ==
  /\ Existing(View(s)) /\ Whole(CashOf(s), View(s))
  /\ Valued(WorthOf(s), CashOf(s), View(s))
  /\ pc[s] \in {"fill", "settle"} \/ (pc[s] = "place" /\ exe[s].signal = "BUY") =>
       worth[s].seen = WorthOf(s)
  /\ pc[s] \in {"place", "fill", "settle"} /\ exe[s].signal = "SELL" => exe[s].held.qty > 0

(* A bootstrap empties the account, then fills it with its payload.        *)
BootBooks(b) ==
  /\ pc[b] = "import" => \A c \in Codes : RowOf(b, c) = NoPosition
  /\ pc[b] = "commit" =>
       /\ Existing(View(b))
       /\ \A c \in Codes : RowOf(b, c).pnl = 0 /\ RowOf(b, c).qty = req[b].rows[c].qty

Books ==
  /\ value \in Metrics /\ worth \in [Sessions -> WorthType]
  /\ Existing(pos) /\ Whole(cash, pos) /\ Valued(value, cash, pos)
  /\ \A s \in Sessions : ~ Holds(s) => worth[s].own = NotWritten
  /\ \A s \in Traders : TraderBooks(s)
  /\ \A b \in Boots : BootBooks(b)

LEMMA ViewType ==
  ASSUME TypeOK, NEW s \in Sessions
  PROVE  View(s) \in [Codes -> RowType]
  BY RowOfType DEF View

(* A session without pending writes sees the committed account.            *)
LEMMA IdleView ==
  ASSUME TypeOK, value \in Metrics, NEW s \in Sessions, txn[s].cash = Keep,
         \A c \in Codes : txn[s].pos[c] = KeepRow, worth[s].own = NotWritten
  PROVE  CashOf(s) = cash /\ View(s) = pos /\ WorthOf(s) = value
  <1>1. CashOf(s) = cash
    BY DEF CashOf, Col
  <1>2. \A c \in Codes : RowOf(s, c) = pos[c]
    <2> SUFFICES ASSUME NEW c \in Codes PROVE RowOf(s, c) = pos[c]
      OBVIOUS
    <2>1. RowOf(s, c) = [id |-> pos[c].id, qty |-> pos[c].qty, cost |-> pos[c].cost,
                         price |-> pos[c].price, pnl |-> pos[c].pnl]
      BY DEF RowOf, Col, KeepRow
    <2>2. pos[c] \in RowType
      BY DEF TypeOK
    <2>3. QED
      BY <2>1, <2>2 DEF RowType
  <1>3. View(s) = pos
    BY <1>2 DEF View, TypeOK
  <1>4. WorthOf(s) = value
    BY DEF WorthOf, Col, NotWritten, Metrics
  <1>5. QED
    BY <1>1, <1>3, <1>4

LEMMA WorthOfType ==
  ASSUME Books, NEW s \in Sessions
  PROVE  WorthOf(s) \in Metrics
  <1>1. worth[s] \in WorthType /\ value \in Metrics
    BY DEF Books
  <1>2. QED
    BY <1>1 DEF WorthOf, Col, WorthType, Metrics

LEMMA BooksInit == Init => Books
  <1> SUFFICES ASSUME Init PROVE Books
    OBVIOUS
  <1>0. TypeOK
    BY TypeInit
  <1>1. value \in Metrics /\ worth \in [Sessions -> WorthType]
    BY TradingAssumption DEF Init, Metrics, WorthType, NoWorth, NotWritten
  <1>2. Existing(pos)
    BY DEF Init, Existing
  <1>3. \A c \in Codes : Principal(pos)[c] = 0 /\ Worths(pos)[c] = 0
    BY DEF Init, Principal, Worths, NoPosition
  <1>4. Total(Principal(pos), Codes) = 0 /\ Total(Worths(pos), Codes) = 0
    BY <1>3, SumZero, TradingAssumption
  <1>5. Whole(cash, pos)
    <2>1. cash = capital /\ cash \in Int
      BY TradingAssumption DEF Init
    <2>2. QED
      BY <1>4, <2>1 DEF Whole
  <1>6. Valued(value, cash, pos)
    <2>1. MarketValue(pos) = 0
      BY <1>4, WorthSum
    <2>2. value.mv = 0 /\ value.eq = cash /\ cash \in Int
      BY TradingAssumption DEF Init
    <2>3. QED
      BY <2>1, <2>2 DEF Valued
  <1>7. \A s \in Sessions :
          /\ pc[s] = "idle" /\ worth[s].own = NotWritten /\ txn[s].cash = Keep
          /\ \A c \in Codes : txn[s].pos[c] = KeepRow
    BY DEF Init, NoWrites
  <1>8. ASSUME NEW s \in Traders PROVE TraderBooks(s)
    <2>1. s \in Sessions
      BY DEF Sessions
    <2>2. CashOf(s) = cash /\ View(s) = pos /\ WorthOf(s) = value
      BY <1>0, <1>1, <1>7, <2>1, IdleView
    <2>3. QED
      BY <1>2, <1>5, <1>6, <1>7, <2>1, <2>2 DEF TraderBooks
  <1>9. \A b \in Boots : BootBooks(b)
    BY <1>7 DEF BootBooks, Sessions
  <1>10. QED
    BY <1>1, <1>2, <1>5, <1>6, <1>7, <1>8, <1>9 DEF Books

(* A session's view depends on the tables and its own writes only.         *)
LEMMA SameBooks ==
  ASSUME NEW s \in Sessions, UNCHANGED tables,
         txn'[s].cash = txn[s].cash, txn'[s].pos = txn[s].pos,
         worth'[s].own = worth[s].own
  PROVE  /\ CashOf(s)' = CashOf(s) /\ View(s)' = View(s) /\ WorthOf(s)' = WorthOf(s)
         /\ \A c \in Codes : RowOf(s, c)' = RowOf(s, c)
  <1>1. cash' = cash /\ pos' = pos /\ value' = value
    BY DEF tables
  <1>2. CashOf(s)' = CashOf(s) /\ \A c \in Codes : RowOf(s, c)' = RowOf(s, c)
    BY <1>1, SameView
  <1>3. View(s)' = View(s)
    BY <1>2 DEF View
  <1>4. WorthOf(s)' = WorthOf(s)
    BY <1>1 DEF WorthOf
  <1>5. QED
    BY <1>2, <1>3, <1>4

(* A step of one session, which commits nothing.                           *)
LEMMA BooksStep ==
  ASSUME TypeOK, Books, NEW s \in Sessions, UNCHANGED tables,
         worth' \in [Sessions -> WorthType],
         \A o \in Sessions \ {s} :
           /\ pc'[o] = pc[o] /\ exe'[o] = exe[o] /\ txn'[o] = txn[o]
           /\ worth'[o] = worth[o] /\ locks'[o] = locks[o] /\ req'[o] = req[o],
         pc[s] # "done" /\ pc'[s] # "done",
         ~ Holds(s)' => worth'[s].own = NotWritten,
         s \in Traders => TraderBooks(s)',
         s \in Boots => BootBooks(s)'
  PROVE  Books'
  <1>1. NoneReplaced' <=> NoneReplaced
    BY DEF NoneReplaced, Sessions
  <1>2. cash' = cash /\ pos' = pos /\ value' = value /\ capital' = capital
    BY DEF tables
  <1>3. Existing(pos)' /\ Whole(cash, pos)' /\ Valued(value, cash, pos)'
    BY <1>1, <1>2 DEF Books, Existing, Whole, Valued
  <1>4. \A o \in Sessions : ~ Holds(o)' => worth'[o].own = NotWritten
    BY DEF Books, Holds
  <1>5. ASSUME NEW o \in Traders, o # s PROVE TraderBooks(o)'
    <2>1. o \in Sessions /\ TraderBooks(o)
      BY DEF Sessions, Books
    <2>2. CashOf(o)' = CashOf(o) /\ View(o)' = View(o) /\ WorthOf(o)' = WorthOf(o)
      BY <1>5, <2>1, SameBooks
    <2>3. QED
      BY <1>1, <1>2, <1>5, <2>1, <2>2 DEF TraderBooks, Existing, Whole, Valued
  <1>6. ASSUME NEW o \in Boots, o # s PROVE BootBooks(o)'
    <2>1. o \in Sessions /\ BootBooks(o)
      BY DEF Sessions, Books
    <2>2. View(o)' = View(o) /\ \A c \in Codes : RowOf(o, c)' = RowOf(o, c)
      BY <1>6, <2>1, SameBooks
    <2>3. QED
      BY <1>6, <2>1, <2>2 DEF BootBooks, Existing
  <1>7. QED
    BY <1>2, <1>3, <1>4, <1>5, <1>6 DEF Books

(* A trader's step that writes nothing to the account.                     *)
LEMMA BooksLocal ==
  ASSUME TypeOK, Books, NEW s \in Traders, UNCHANGED tables,
         worth' \in [Sessions -> WorthType],
         \A o \in Sessions \ {s} :
           /\ pc'[o] = pc[o] /\ exe'[o] = exe[o] /\ txn'[o] = txn[o]
           /\ worth'[o] = worth[o] /\ locks'[o] = locks[o] /\ req'[o] = req[o],
         pc[s] # "done", pc'[s] # "done", Holds(s) => Holds(s)',
         txn'[s].cash = txn[s].cash, txn'[s].pos = txn[s].pos, worth'[s].own = worth[s].own,
         pc'[s] \in {"fill", "settle"} \/ (pc'[s] = "place" /\ exe'[s].signal = "BUY") =>
           worth'[s].seen = WorthOf(s),
         pc'[s] \in {"place", "fill", "settle"} /\ exe'[s].signal = "SELL" =>
           exe'[s].held.qty > 0
  PROVE  Books'
  <1>0. s \in Sessions /\ s \notin Boots
    BY TradingAssumption DEF Sessions
  <1>1. /\ CashOf(s)' = CashOf(s) /\ View(s)' = View(s) /\ WorthOf(s)' = WorthOf(s)
        /\ capital' = capital
    BY <1>0, SameBooks DEF tables
  <1>2. NoneReplaced' => NoneReplaced
    BY <1>0 DEF NoneReplaced, Sessions
  <1>3. TraderBooks(s)
    BY DEF Books
  <1>4. Existing(View(s))' /\ Whole(CashOf(s), View(s))' /\ Valued(WorthOf(s), CashOf(s), View(s))'
    BY <1>1, <1>2, <1>3 DEF TraderBooks, Existing, Whole, Valued
  <1>5. TraderBooks(s)'
    BY <1>1, <1>4 DEF TraderBooks
  <1>6. ~ Holds(s)' => worth'[s].own = NotWritten
    BY <1>0 DEF Books
  <1>7. QED
    BY <1>0, <1>5, <1>6, BooksStep

(* ... and loads nothing of it, and goes to no order.                      *)
LEMMA BooksQuiet ==
  ASSUME TypeOK, Books, NEW s \in Traders, UNCHANGED <<tables, worth>>,
         pc' = [pc EXCEPT ![s] = pc'[s]], pc[s] # "done",
         pc'[s] \notin {"done", "place", "fill", "settle"},
         exe' = [exe EXCEPT ![s] = exe'[s]], txn' = [txn EXCEPT ![s] = txn'[s]],
         \A o \in Sessions \ {s} : locks'[o] = locks[o] /\ req'[o] = req[o],
         Holds(s) => Holds(s)',
         txn'[s].cash = txn[s].cash, txn'[s].pos = txn[s].pos
  PROVE  Books'
  <1>0. s \in Sessions
    BY DEF Sessions
  <1>1. worth' \in [Sessions -> WorthType]
    BY DEF Books
  <1>2. \A o \in Sessions \ {s} :
          /\ pc'[o] = pc[o] /\ exe'[o] = exe[o] /\ txn'[o] = txn[o]
          /\ worth'[o] = worth[o] /\ locks'[o] = locks[o] /\ req'[o] = req[o]
    BY <1>0 DEF TypeOK
  <1>3. QED
    BY <1>0, <1>1, <1>2, BooksLocal

LEMMA BooksStartRun ==
  ASSUME TypeOK, Books, NEW s \in Traders, StartRun(s)
  PROVE  Books'
  <1>0. s \in Sessions
    BY DEF Sessions
  <1>1. /\ UNCHANGED <<tables, locks, exe, txn, worth>> /\ pc[s] = "idle"
        /\ \E where \in {"evaluate", "commit"} : pc' = [pc EXCEPT ![s] = where]
        /\ \E r : req' = [req EXCEPT ![s] = r]
    BY DEF StartRun, NextCode, Go
  <1>2. pc' = [pc EXCEPT ![s] = pc'[s]] /\ pc'[s] \in {"evaluate", "commit"}
    BY <1>0, <1>1 DEF TypeOK
  <1>3. exe' = [exe EXCEPT ![s] = exe'[s]] /\ txn' = [txn EXCEPT ![s] = txn'[s]]
    BY <1>0, <1>1 DEF TypeOK
  <1>4. Holds(s)' <=> Holds(s)
    BY <1>1 DEF Holds
  <1>5. \A o \in Sessions \ {s} : locks'[o] = locks[o] /\ req'[o] = req[o]
    BY <1>0, <1>1 DEF TypeOK
  <1>6. QED
    BY <1>1, <1>2, <1>3, <1>4, <1>5, BooksQuiet

LEMMA BooksEvaluate ==
  ASSUME TypeOK, Books, NEW s \in Traders, Evaluate(s)
  PROVE  Books'
  <1>0. s \in Sessions
    BY DEF Sessions
  <1>1. /\ UNCHANGED <<tables, locks, req, txn, worth>> /\ pc[s] = "evaluate"
        /\ pc' = [pc EXCEPT ![s] = "record"]
        /\ \E run : exe' = [exe EXCEPT ![s] = run]
    BY DEF Evaluate, Go
  <1>2. pc' = [pc EXCEPT ![s] = pc'[s]] /\ pc'[s] = "record"
    BY <1>0, <1>1 DEF TypeOK
  <1>3. exe' = [exe EXCEPT ![s] = exe'[s]] /\ txn' = [txn EXCEPT ![s] = txn'[s]]
    BY <1>0, <1>1 DEF TypeOK
  <1>4. Holds(s)' <=> Holds(s)
    BY <1>1 DEF Holds
  <1>5. QED
    BY <1>1, <1>2, <1>3, <1>4, BooksQuiet

LEMMA BooksCannotEvaluate ==
  ASSUME TypeOK, Books, NEW s \in Traders, CannotEvaluate(s)
  PROVE  Books'
  <1>0. s \in Sessions
    BY DEF Sessions
  <1>1. /\ UNCHANGED <<tables, locks, req, exe, txn, worth>> /\ pc[s] = "evaluate"
        /\ \E where \in {"evaluate", "commit"} : pc' = [pc EXCEPT ![s] = where]
    BY DEF CannotEvaluate, NextCode, Go
  <1>2. pc' = [pc EXCEPT ![s] = pc'[s]] /\ pc'[s] \in {"evaluate", "commit"}
    BY <1>0, <1>1 DEF TypeOK
  <1>3. exe' = [exe EXCEPT ![s] = exe'[s]] /\ txn' = [txn EXCEPT ![s] = txn'[s]]
    BY <1>0, <1>1 DEF TypeOK
  <1>4. Holds(s)' <=> Holds(s)
    BY <1>1 DEF Holds
  <1>5. QED
    BY <1>1, <1>2, <1>3, <1>4, BooksQuiet

LEMMA BooksAbandon ==
  ASSUME TypeOK, Books, NEW s \in Traders, Abandon(s)
  PROVE  Books'
  <1>1. UNCHANGED <<tables, locks, req, worth>> /\ pc[s] # "done"
    BY DEF Abandon
  <1>2. Holds(s)' <=> Holds(s)
    BY <1>1 DEF Holds
  <1>3. QED
    BY <1>1, <1>2, AbandonStep, BooksQuiet

(* A run that ends without a fill.                                         *)
LEMMA BooksFinish ==
  ASSUME TypeOK, Books, NEW s \in Traders, NEW status, pc[s] # "done",
         Finish(s, status, txn[s]), UNCHANGED <<tables, locks, req, worth>>
  PROVE  Books'
  <1>1. txn[s] \in TxnType
    BY DEF TypeOK, Sessions
  <1>2. Holds(s)' <=> Holds(s)
    BY DEF Holds
  <1>3. QED
    BY <1>1, <1>2, FinishStep, BooksQuiet

LEMMA BooksRecord ==
  ASSUME TypeOK, WriteLock, LockedLedger, Books, NEW s \in Traders, Record(s)
  PROVE  Books'
  <1>0. s \in Sessions /\ txn[s] \in TxnType
    BY DEF Sessions, TypeOK
  <1>1. Acquire(s, {}) /\ UNCHANGED <<tables, req, worth, tally>> /\ pc[s] = "record"
    BY DEF Record
  <1>2. Holds(s)' /\ \A o \in Sessions \ {s} : locks'[o] = locks[o]
    BY <1>0, <1>1, AcquireLock
  <1>3. /\ pc' = [pc EXCEPT ![s] = pc'[s]] /\ pc'[s] \in {"check", "evaluate", "commit"}
        /\ exe' = [exe EXCEPT ![s] = exe'[s]] /\ txn' = [txn EXCEPT ![s] = txn'[s]]
        /\ txn'[s].cash = txn[s].cash /\ txn'[s].pos = txn[s].pos
    <2>1. CASE req[s].execute
      BY <1>0, <2>1 DEF Record, Go, TypeOK
    <2>2. CASE ~ req[s].execute
      <3>1. Finish(s, "NONE", txn[s])
        BY <2>2 DEF Record
      <3>2. QED
        BY <1>0, <3>1, FinishStep
    <2>3. QED
      BY <2>1, <2>2
  <1>4. QED
    BY <1>1, <1>2, <1>3, BooksQuiet

(* What is sold is there when it is checked.                               *)
LEMMA BooksCheck ==
  ASSUME TypeOK, Books, NEW s \in Traders, Check(s)
  PROVE  Books'
  <1> DEFINE row == RowOf(s, exe[s].code)
  <1> DEFINE open == OpenCodes([c \in Codes |-> RowOf(s, c)])
  <1>0. s \in Sessions /\ exe[s].code \in Codes /\ exe[s] \in ExeType
    BY DEF Sessions, Check, TypeOK, TraderOK
  <1>1. pc[s] = "check" /\ UNCHANGED <<tables, locks, req, worth, tally>>
    BY DEF Check
  <1>2. CASE Finish(s, "SKIPPED", txn[s])
    BY <1>1, <1>2, BooksFinish
  <1>3. CASE /\ ~ Skipped(s, row, open)
             /\ exe' = [exe EXCEPT ![s].held = row,
                                   ![s].quantity = IF exe[s].signal = "SELL"
                                                   THEN row.qty ELSE 0]
             /\ Go(s, IF exe[s].signal = "SELL" THEN "place" ELSE "size")
             /\ UNCHANGED <<todo, txn>>
    <2>0. row \in RowType
      BY <1>0, RowOfType
    <2>1. exe[s].signal = "SELL" => row.qty > 0
      <3>1. row.qty \in Nat
        BY <2>0 DEF RowType
      <3>2. QED
        BY <1>3, <3>1 DEF Skipped
    <2> HIDE DEF row
    <2> DEFINE quantity == IF exe[s].signal = "SELL" THEN row.qty ELSE 0
    <2> DEFINE new == [exe[s] EXCEPT !.held = row, !.quantity = quantity]
    <2>2. exe' = [exe EXCEPT ![s] = new]
      BY <1>3
    <2> HIDE DEF quantity
    <2>3. new.held = row /\ new.signal = exe[s].signal
      BY <1>0 DEF ExeType
    <2>4. exe'[s] = new /\ \A o \in Sessions \ {s} : exe'[o] = exe[o]
      BY <1>0, <2>2 DEF TypeOK
    <2> HIDE DEF new
    <2>5. /\ pc'[s] = IF exe[s].signal = "SELL" THEN "place" ELSE "size"
          /\ \A o \in Sessions \ {s} : pc'[o] = pc[o]
      BY <1>0, <1>3 DEF Go, TypeOK
    <2>6. worth' \in [Sessions -> WorthType]
      BY <1>1 DEF Books
    <2>7. Holds(s)' <=> Holds(s)
      BY <1>1 DEF Holds
    <2>8. pc'[s] \in {"place", "size"} /\ (pc'[s] = "place" => exe'[s].signal = "SELL")
      BY <2>3, <2>4, <2>5
    <2>9. exe'[s].signal = "SELL" => exe'[s].held.qty > 0
      BY <2>1, <2>3, <2>4
    <2>10. pc'[s] \notin {"done", "fill", "settle"} /\ ~ (pc'[s] = "place" /\ exe'[s].signal = "BUY")
      BY <2>8
    <2>11. QED
      BY <1>1, <1>3, <2>4, <2>5, <2>6, <2>7, <2>9, <2>10, BooksLocal
  <1>4. QED
    BY <1>2, <1>3 DEF Check

(* The metrics are loaded with the cash.                                   *)
LEMMA LoadedWorth ==
  ASSUME Books, NEW s \in Sessions, LoadWorth(s)
  PROVE  /\ worth' \in [Sessions -> WorthType]
         /\ worth'[s].own = worth[s].own /\ worth'[s].seen = WorthOf(s)
         /\ \A o \in Sessions \ {s} : worth'[o] = worth[o]
  <1>1. worth \in [Sessions -> WorthType] /\ WorthOf(s) \in Metrics
    BY WorthOfType DEF Books
  <1>2. worth' = [worth EXCEPT ![s] = [@ EXCEPT !.seen = WorthOf(s)]]
    BY DEF LoadWorth
  <1>3. [worth[s] EXCEPT !.seen = WorthOf(s)] \in WorthType
    BY <1>1 DEF WorthType
  <1>4. worth'[s] = [worth[s] EXCEPT !.seen = WorthOf(s)]
    BY <1>1, <1>2
  <1>5. worth'[s].own = worth[s].own /\ worth'[s].seen = WorthOf(s)
    BY <1>1, <1>4 DEF WorthType
  <1>6. QED
    BY <1>1, <1>2, <1>3, <1>5

LEMMA BooksSize ==
  ASSUME TypeOK, Books, NEW s \in Traders, Size(s)
  PROVE  Books'
  <1>0. s \in Sessions /\ exe[s] \in ExeType /\ exe[s].signal = "BUY"
    BY DEF Sessions, Size, TypeOK, TraderOK
  <1>1. pc[s] = "size" /\ UNCHANGED <<tables, locks, req, tally>>
    BY DEF Size
  <1>2. CASE Finish(s, "FAILED", txn[s]) /\ UNCHANGED worth
    BY <1>1, <1>2, BooksFinish
  <1>3. ASSUME NEW quantity,
               exe' = [exe EXCEPT ![s].seen = CashOf(s), ![s].quantity = quantity],
               LoadWorth(s), Go(s, "place"), UNCHANGED <<todo, txn>>
        PROVE  Books'
    <2>1. exe'[s].signal = "BUY" /\ \A o \in Sessions \ {s} : exe'[o] = exe[o]
      BY <1>0, <1>3 DEF TypeOK, ExeType
    <2>2. pc'[s] = "place" /\ \A o \in Sessions \ {s} : pc'[o] = pc[o]
      BY <1>0, <1>3 DEF Go, TypeOK
    <2>3. Holds(s)' <=> Holds(s)
      BY <1>1 DEF Holds
    <2>4. /\ worth' \in [Sessions -> WorthType]
          /\ worth'[s].own = worth[s].own /\ worth'[s].seen = WorthOf(s)
          /\ \A o \in Sessions \ {s} : worth'[o] = worth[o]
      BY <1>0, <1>3, LoadedWorth
    <2>5. QED
      BY <1>1, <1>3, <2>1, <2>2, <2>3, <2>4, BooksLocal
  <1>4. QED
    BY <1>2, <1>3 DEF Size

LEMMA BooksPlace ==
  ASSUME TypeOK, Books, NEW s \in Traders, Place(s)
  PROVE  Books'
  <1>0. s \in Sessions /\ exe[s] \in ExeType /\ txn[s] \in TxnType
        /\ exe[s].signal \in {"BUY", "SELL"}
    BY DEF Sessions, Place, TypeOK, TraderOK
  <1>1. pc[s] = "place" /\ UNCHANGED <<tables, locks, req, tally>>
    BY DEF Place
  <1>2. CASE Finish(s, "FAILED", txn[s]) /\ UNCHANGED worth
    BY <1>1, <1>2, BooksFinish
  <1> DEFINE seen == IF exe[s].signal = "SELL" THEN CashOf(s) ELSE exe[s].seen
  <1>3. ASSUME NEW price, NEW order,
               txn' = [txn EXCEPT ![s].orders = @ \cup {order}],
               exe' = [exe EXCEPT ![s].price = price, ![s].seen = seen],
               IF exe[s].signal = "SELL" THEN LoadWorth(s) ELSE UNCHANGED worth,
               Go(s, "fill")
        PROVE  Books'
    <2> HIDE DEF seen
    <2>1. /\ exe'[s].signal = exe[s].signal /\ exe'[s].held = exe[s].held
          /\ \A o \in Sessions \ {s} : exe'[o] = exe[o]
      BY <1>0, <1>3 DEF TypeOK, ExeType
    <2>2. pc'[s] = "fill" /\ \A o \in Sessions \ {s} : pc'[o] = pc[o]
      BY <1>0, <1>3 DEF Go, TypeOK
    <2>3. Holds(s)' <=> Holds(s)
      BY <1>1 DEF Holds
    <2>4. TraderBooks(s)
      BY DEF Books
    <2>5. /\ worth' \in [Sessions -> WorthType]
          /\ worth'[s].own = worth[s].own /\ worth'[s].seen = WorthOf(s)
          /\ \A o \in Sessions \ {s} : worth'[o] = worth[o]
      <3>1. CASE exe[s].signal = "SELL"
        BY <1>0, <1>3, <3>1, LoadedWorth
      <3>2. CASE exe[s].signal = "BUY"
        BY <1>1, <1>3, <2>4, <3>2 DEF Books, TraderBooks
      <3>3. QED
        BY <1>0, <3>1, <3>2
    <2>6. txn'[s].cash = txn[s].cash /\ txn'[s].pos = txn[s].pos
      <3>1. txn'[s] = [txn[s] EXCEPT !.orders = @ \cup {order}]
        BY <1>0, <1>3 DEF TypeOK
      <3>2. QED
        BY <1>0, <3>1 DEF TxnType
    <2>7. \A o \in Sessions \ {s} : txn'[o] = txn[o]
      BY <1>0, <1>3 DEF TypeOK
    <2>8. exe'[s].signal = "SELL" => exe'[s].held.qty > 0
      BY <1>1, <2>1, <2>4 DEF TraderBooks
    <2>9. QED
      BY <1>1, <2>1, <2>2, <2>3, <2>5, <2>6, <2>7, <2>8, BooksLocal
  <1>4. QED
    BY <1>2, <1>3 DEF Place

LEMMA BooksFind ==
  ASSUME TypeOK, LockedLedger, Books, NEW s \in Traders, Find(s)
  PROVE  Books'
  <1>0. s \in Sessions
    BY DEF Sessions
  <1>1. pc[s] = "fill" /\ UNCHANGED <<tables, locks, req, worth, tally>>
    BY DEF Find
  <1>2. CASE Refused(s)
    BY <1>1, <1>2, BooksFinish DEF Find
  <1>3. CASE ~ Refused(s)
    <2>1. /\ pc' = [pc EXCEPT ![s] = pc'[s]] /\ pc'[s] = "settle"
          /\ exe' = [exe EXCEPT ![s] = exe'[s]]
          /\ exe'[s].held = Found(s) /\ exe'[s].signal = exe[s].signal
          /\ UNCHANGED txn
      BY <1>3, FindStep
    <2>2. exe'[s].held = exe[s].held
      BY <1>1, <2>1, FoundCurrent
    <2>3. TraderBooks(s) /\ worth' \in [Sessions -> WorthType]
      BY <1>1 DEF Books
    <2>4. worth'[s].seen = WorthOf(s) /\ (exe'[s].signal = "SELL" => exe'[s].held.qty > 0)
      BY <1>1, <2>1, <2>2, <2>3 DEF TraderBooks
    <2>5. \A o \in Sessions \ {s} :
            /\ pc'[o] = pc[o] /\ exe'[o] = exe[o] /\ txn'[o] = txn[o]
            /\ worth'[o] = worth[o] /\ locks'[o] = locks[o] /\ req'[o] = req[o]
      BY <1>0, <1>1, <2>1 DEF TypeOK
    <2>6. Holds(s) => Holds(s)'
      BY <1>1 DEF Holds
    <2>7. QED
      BY <1>1, <2>1, <2>3, <2>4, <2>5, <2>6, BooksLocal
  <1>4. QED
    BY <1>2, <1>3

(* What Settle does to the session itself.                                 *)
LEMMA SettleStep ==
  ASSUME TypeOK, NEW s \in Traders, NEW code \in Codes, code = exe[s].code,
         NEW row \in RowType, NEW paid \in Int, NEW moved \in Int,
         Settle(s, row, paid, moved)
  PROVE  /\ pc' = [pc EXCEPT ![s] = pc'[s]] /\ pc'[s] \in {"evaluate", "commit"}
         /\ exe' = [exe EXCEPT ![s] = exe'[s]] /\ txn' = [txn EXCEPT ![s] = txn'[s]]
         /\ txn'[s].cash = Write(txn[s].cash, exe[s].seen, exe[s].seen - paid)
         /\ txn'[s].pos = [txn[s].pos EXCEPT ![code] = WriteRow(@, exe[s].held, row)]
         /\ txn'[s].trades = txn[s].trades \cup {Pending(s)}
  <1> DEFINE e == exe[s]
  <1> DEFINE new == e.seen - paid
  <1> DEFINE trade == [by |-> s, code |-> e.code, side |-> e.signal,
                       quantity |-> e.quantity, price |-> e.price]
  <1> DEFINE w == WriteRow(txn[s].pos[code], e.held, row)
  <1> DEFINE rows == [txn[s].pos EXCEPT ![code] = w]
  <1> DEFINE money == Write(txn[s].cash, e.seen, new)
  <1> DEFINE writes == [txn[s] EXCEPT !.cash = Write(@, e.seen, new),
                                      !.pos[code] = WriteRow(@, exe[s].held, row),
                                      !.trades = @ \cup {trade}]
  <1>0. s \in Sessions /\ txn[s] \in TxnType /\ e \in ExeType
        /\ e.signal \in {"BUY", "SELL"} /\ e.price \in Prices /\ e.held \in RowType
    BY DEF Sessions, TypeOK, TraderOK, ExeType, Settle
  <1>1. Finish(s, "APPLIED", writes)
    BY DEF Settle
  <1>2. txn[s].pos[code] \in Writes
    BY <1>0 DEF TxnType
  <1>3. w \in Writes
    BY <1>0, <1>2, WriteRowType
  <1>4. rows \in [Codes -> Writes]
    BY <1>0, <1>3 DEF TxnType
  <1>5. money \in Int \cup {Keep}
    BY <1>0 DEF Write, TxnType, ExeType
  <1>6. trade \in OrderType
    BY <1>0 DEF OrderType, ExeType
  <1>7. writes = [txn[s] EXCEPT !.cash = money, !.pos = rows, !.trades = @ \cup {trade}]
    BY <1>0
  <1> HIDE DEF rows, money, w, trade, writes, e, new
  <1>8. writes \in TxnType
    BY <1>0, <1>4, <1>5, <1>6, <1>7 DEF TxnType
  <1>9. writes.cash = money /\ writes.pos = rows /\ writes.trades = txn[s].trades \cup {trade}
    BY <1>0, <1>7 DEF TxnType
  <1>10. /\ pc' = [pc EXCEPT ![s] = pc'[s]] /\ pc'[s] \in {"evaluate", "commit"}
         /\ exe' = [exe EXCEPT ![s] = exe'[s]] /\ txn' = [txn EXCEPT ![s] = txn'[s]]
         /\ txn'[s].cash = writes.cash /\ txn'[s].pos = writes.pos
         /\ txn'[s].trades = writes.trades
    BY <1>1, <1>8, FinishStep
  <1>11. QED
    BY <1>1, <1>9, <1>10 DEF money, rows, w, e, new, trade, Pending

(* What a session sees once it has flushed a fill of a current row.        *)
LEMMA SettleView ==
  ASSUME TypeOK, NEW s \in Traders, NEW code \in Codes, code = exe[s].code,
         exe[s].seen = CashOf(s), exe[s].held = RowOf(s, code),
         NEW row \in RowType, NEW paid \in Int, NEW moved \in Int,
         Settle(s, row, paid, moved)
  PROVE  CashOf(s)' = CashOf(s) - paid /\ View(s)' = [View(s) EXCEPT ![code] = row]
  <1> DEFINE loaded == RowOf(s, code)
  <1>0. s \in Sessions /\ txn[s] \in TxnType /\ exe[s].seen \in Int /\ UNCHANGED tables
    BY DEF Sessions, TypeOK, ExeType, Settle
  <1>1. loaded \in RowType
    BY <1>0, RowOfType
  <1>2. /\ txn'[s].cash = Write(txn[s].cash, exe[s].seen, exe[s].seen - paid)
        /\ txn'[s].pos = [txn[s].pos EXCEPT ![code] = WriteRow(@, loaded, row)]
    BY <1>1, SettleStep
  <1>3. CashOf(s)' = CashOf(s) - paid
    <2>1. exe[s].seen = Col(txn[s].cash, cash)
      BY DEF CashOf
    <2>2. exe[s].seen - paid # Keep
      BY <1>0, TradingAssumption
    <2>3. Col(txn'[s].cash, cash) = exe[s].seen - paid
      BY <1>2, <2>1, <2>2, WrittenColumn
    <2>4. QED
      BY <1>0, <2>3 DEF CashOf, tables
  <1>4. RowOf(s, code)' = row
    <2> DEFINE own == txn[s].pos[code]
    <2>1. txn'[s].pos[code] = WriteRow(own, loaded, row)
      BY <1>0, <1>2 DEF TxnType
    <2>2. /\ row.id # Keep /\ row.qty # Keep /\ row.cost # Keep
          /\ row.price # Keep /\ row.pnl # Keep
      BY TradingAssumption DEF RowType
    <2>3. /\ loaded.id = Col(own.id, pos[code].id) /\ loaded.qty = Col(own.qty, pos[code].qty)
          /\ loaded.cost = Col(own.cost, pos[code].cost)
          /\ loaded.price = Col(own.price, pos[code].price)
          /\ loaded.pnl = Col(own.pnl, pos[code].pnl)
      BY DEF RowOf
    <2> HIDE DEF own, loaded
    <2>4. /\ Col(Write(own.id, loaded.id, row.id), pos[code].id) = row.id
          /\ Col(Write(own.qty, loaded.qty, row.qty), pos[code].qty) = row.qty
          /\ Col(Write(own.cost, loaded.cost, row.cost), pos[code].cost) = row.cost
          /\ Col(Write(own.price, loaded.price, row.price), pos[code].price) = row.price
          /\ Col(Write(own.pnl, loaded.pnl, row.pnl), pos[code].pnl) = row.pnl
      BY <2>2, <2>3, WrittenColumn
    <2>5. pos' = pos
      BY <1>0 DEF tables
    <2>6. RowOf(s, code)' = [id |-> row.id, qty |-> row.qty, cost |-> row.cost,
                             price |-> row.price, pnl |-> row.pnl]
      BY <2>1, <2>4, <2>5 DEF RowOf, WriteRow
    <2>7. QED
      BY <2>6 DEF RowType
  <1>5. \A c \in Codes \ {code} : RowOf(s, c)' = RowOf(s, c)
    <2>1. \A c \in Codes \ {code} : txn'[s].pos[c] = txn[s].pos[c]
      BY <1>0, <1>2 DEF TxnType
    <2>2. QED
      BY <1>0, <2>1 DEF RowOf, tables
  <1>6. View(s)' = [View(s) EXCEPT ![code] = row]
    BY <1>4, <1>5 DEF View
  <1>7. QED
    BY <1>3, <1>6

(* A fill pays what its row gains, and refreshes the metrics.              *)
LEMMA BooksSettle ==
  ASSUME TypeOK, TypeOK', WriteLock, LockedLedger, Books, NEW s \in Traders,
         NEW code \in Codes, code = exe[s].code,
         NEW row \in RowType, NEW paid \in Int, NEW moved \in Int,
         row.id # NoRow, row.cost - row.pnl = RowOf(s, code).cost - RowOf(s, code).pnl + paid,
         Settle(s, row, paid, moved)
  PROVE  Books'
  <1> DEFINE new == CashOf(s) - paid
  <1> DEFINE market == MarketValue(View(s)')
  <1>0. s \in Sessions /\ s \notin Boots /\ pc[s] = "settle" /\ UNCHANGED <<tables, req>>
    BY TradingAssumption DEF Sessions, Settle
  <1>1. exe[s].seen = CashOf(s) /\ exe[s].held = RowOf(s, code) /\ RowOf(s, code) \in RowType
    BY <1>0, RowOfType DEF LockedLedger, Undisturbed
  <1>2. CashOf(s)' = new /\ View(s)' = [View(s) EXCEPT ![code] = row]
    BY <1>1, SettleView
  <1>3. /\ pc' = [pc EXCEPT ![s] = pc'[s]] /\ pc'[s] \in {"evaluate", "commit"}
        /\ exe' = [exe EXCEPT ![s] = exe'[s]] /\ txn' = [txn EXCEPT ![s] = txn'[s]]
    BY <1>1, SettleStep
  <1>4. Holds(s)' /\ \A o \in Sessions \ {s} : locks'[o] = locks[o]
    <2>1. Acquire(s, {AccountRow, exe[s].code})
      BY DEF Settle
    <2>2. QED
      BY <1>0, <2>1, AcquireLock
  <1>5. View(s) \in [Codes -> RowType] /\ View(s)' \in [Codes -> RowType] /\ CashOf(s) \in Int
    <2>1. View(s) \in [Codes -> RowType] /\ CashOf(s) \in Int
      BY <1>0, ViewType, CashOfType
    <2>2. QED
      BY <1>2, <2>1
  <1>6. market \in Int /\ new \in Int
    BY <1>5, MarketValueType
  <1>7. TraderBooks(s) /\ worth[s].seen = WorthOf(s)
    BY <1>0 DEF Books, TraderBooks
  <1>8. WriteWorth(s, new, market)
    <2>1. [d \in Codes |-> IF d = code THEN row ELSE RowOf(s, d)] = View(s)'
      BY <1>2 DEF View
    <2>2. QED
      BY <1>1, <2>1 DEF Settle
  <1> HIDE DEF new, market
  <1>9. /\ worth' \in [Sessions -> WorthType]
        /\ \A o \in Sessions \ {s} : worth'[o] = worth[o]
        /\ WorthOf(s)' = [mv |-> market, eq |-> new + market]
    <2>1. worth \in [Sessions -> WorthType] /\ worth[s] \in WorthType
      BY <1>0 DEF Books
    <2> DEFINE own == [mv |-> Write(worth[s].own.mv, worth[s].seen.mv, market),
                       eq |-> Write(worth[s].own.eq, worth[s].seen.eq, new + market)]
    <2>2. worth' = [worth EXCEPT ![s] = [@ EXCEPT !.own = own]]
      <3>1. worth' = [worth EXCEPT ![s].own = own]
        BY <1>8, Zenon DEF WriteWorth
      <3>2. QED
        BY <3>1
    <2>3. own \in [mv : Int \cup {Keep}, eq : Int \cup {Keep}]
      BY <1>6, <2>1 DEF WorthType, Write
    <2>4. worth' \in [Sessions -> WorthType] /\ \A o \in Sessions \ {s} : worth'[o] = worth[o]
      <3> HIDE DEF own
      <3>1. [worth[s] EXCEPT !.own = own] \in WorthType
        BY <2>1, <2>3 DEF WorthType
      <3>2. QED
        BY <1>0, <2>1, <2>2, <3>1
    <2>5. worth'[s].own = own
      <3> HIDE DEF own
      <3>1. worth'[s] = [worth[s] EXCEPT !.own = own]
        BY <1>0, <2>1, <2>2
      <3>2. QED
        BY <2>1, <3>1 DEF WorthType
    <2>6. market # Keep /\ new + market # Keep
      BY <1>6, TradingAssumption
    <2>7. worth[s].seen.mv = Col(worth[s].own.mv, value.mv) /\ worth[s].seen.eq = Col(worth[s].own.eq, value.eq)
      BY <1>7 DEF WorthOf
    <2>8. Col(own.mv, value.mv) = market /\ Col(own.eq, value.eq) = new + market
      BY <2>6, <2>7, WrittenColumn
    <2>9. value' = value
      BY <1>0 DEF tables
    <2>10. QED
      BY <2>4, <2>5, <2>8, <2>9 DEF WorthOf
  <1>10. TraderBooks(s)'
    <2>1. Existing(View(s))'
      <3>1. Existing(View(s))
        BY <1>7 DEF TraderBooks
      <3>2. QED
        BY <1>2, <3>1 DEF Existing, View
    <2>2. Whole(CashOf(s), View(s))'
      <3>1. Whole(CashOf(s), View(s)) /\ capital' = capital
        BY <1>0, <1>7 DEF TraderBooks, tables
      <3>2. \A c \in Codes \ {code} : View(s)'[c] = View(s)[c]
        BY <1>2 DEF View
      <3>3. View(s)'[code] = row /\ View(s)[code] = RowOf(s, code)
        BY <1>2 DEF View
      <3>4. (CashOf(s) - paid) + Total(Principal(View(s)'), Codes)
              = CashOf(s) + Total(Principal(View(s)), Codes)
        BY <1>5, <3>2, <3>3, PrincipalMoves
      <3>5. QED
        BY <1>2, <3>1, <3>4 DEF Whole, new
    <2>3. Valued(WorthOf(s), CashOf(s), View(s))'
      BY <1>2, <1>9 DEF Valued, market
    <2>4. QED
      BY <1>3, <2>1, <2>2, <2>3 DEF TraderBooks
  <1>11. \A o \in Sessions \ {s} :
           /\ pc'[o] = pc[o] /\ exe'[o] = exe[o] /\ txn'[o] = txn[o]
           /\ worth'[o] = worth[o] /\ locks'[o] = locks[o] /\ req'[o] = req[o]
    BY <1>0, <1>3, <1>4, <1>9 DEF TypeOK
  <1>12. QED
    BY <1>0, <1>3, <1>4, <1>9, <1>10, <1>11, BooksStep

LEMMA BooksFillBuy ==
  ASSUME TypeOK, TypeOK', WriteLock, LockedLedger, Books, NEW s \in Traders, FillBuy(s)
  PROVE  Books'
  <1> DEFINE e == exe[s]
  <1> DEFINE cost == BuyCost(e.price, e.quantity)
  <1> DEFINE row == RowOf(s, e.code)
  <1>1. e.signal = "BUY" /\ pc[s] = "settle"
        /\ Settle(s, Bought(s, e.held), cost, e.quantity)
    BY DEF FillBuy, Settle
  <1>2. s \in Sessions /\ e \in ExeType /\ e.code \in Codes /\ e.price \in Prices
    BY <1>1 DEF Sessions, TypeOK, TraderOK
  <1>3. e.held = row
    BY <1>1, <1>2 DEF LockedLedger, Undisturbed
  <1>4. row \in RowType /\ e.quantity \in Nat /\ e.price \in Nat
    BY <1>2, RowOfType, TradingAssumption DEF ExeType
  <1>5. cost \in Nat
    BY <1>4, BuyCostType
  <1>6. Bought(s, row).cost = row.cost + cost /\ Bought(s, row).pnl = row.pnl
    BY <1>4 DEF Bought, RowType
  <1>7. Bought(s, row).id # NoRow
    BY <1>2, <1>4, TradingAssumption DEF Bought, RowType
  <1> HIDE DEF row, cost
  <1>8. Bought(s, row) \in RowType
    BY <1>2, <1>4, BoughtType
  <1>9. Bought(s, row).cost - Bought(s, row).pnl = row.cost - row.pnl + cost
    BY <1>4, <1>5, <1>6 DEF RowType
  <1>10. QED
    BY <1>1, <1>2, <1>3, <1>4, <1>5, <1>7, <1>8, <1>9, BooksSettle DEF row

LEMMA BooksFillSell ==
  ASSUME TypeOK, TypeOK', WriteLock, LockedLedger, Books, NEW s \in Traders, FillSell(s)
  PROVE  Books'
  <1> DEFINE e == exe[s]
  <1> DEFINE paid == - SellProceeds(e.price, e.quantity)
  <1> DEFINE moved == - e.quantity
  <1> DEFINE row == RowOf(s, e.code)
  <1> DEFINE kept == CostLeft(row, row.qty - e.quantity)
  <1>1. e.signal = "SELL" /\ pc[s] = "settle" /\ Settle(s, Sold(s, e.held), paid, moved)
    BY DEF FillSell, Settle
  <1>2. s \in Sessions /\ e \in ExeType /\ e.price \in Prices /\ e.code \in Codes
        /\ e.quantity <= e.held.qty
    BY <1>1 DEF Sessions, TypeOK, TraderOK
  <1>3. e.held = row
    BY <1>1, <1>2 DEF LockedLedger, Undisturbed
  <1>4. row \in RowType /\ e.quantity \in Nat /\ e.price \in Nat
    BY <1>2, RowOfType, TradingAssumption DEF ExeType
  <1>5. SellProceeds(e.price, e.quantity) \in Int
    BY <1>4, SellProceedsType
  <1>6. paid \in Int /\ moved \in Int
    BY <1>4, <1>5
  <1>7. row.id # NoRow
    <2>1. Existing(View(s)) /\ e.held.qty > 0
      BY <1>1 DEF Books, TraderBooks
    <2>2. View(s)[e.code] = row
      BY <1>2 DEF View
    <2>3. row = NoPosition => row.qty = 0
      BY DEF NoPosition
    <2>4. QED
      BY <1>2, <1>3, <2>1, <2>2, <2>3 DEF Existing
  <1> HIDE DEF row
  <1>8. Sold(s, row) \in RowType
    BY <1>2, <1>3, <1>4, SoldType
  <1>9. /\ Sold(s, row).id = row.id /\ Sold(s, row).cost = kept
        /\ Sold(s, row).pnl = row.pnl + SellProceeds(e.price, e.quantity) - (row.cost - kept)
    BY <1>4 DEF Sold, RowType
  <1>10. Sold(s, row).cost - Sold(s, row).pnl = row.cost - row.pnl + paid
    <2>1. row.cost \in Int /\ row.pnl \in Int /\ kept \in Int
      BY <1>4, <1>8, <1>9 DEF RowType
    <2>2. QED
      BY <1>5, <1>9, <2>1
  <1> HIDE DEF paid, moved
  <1>11. QED
    BY <1>1, <1>2, <1>3, <1>6, <1>7, <1>8, <1>9, <1>10, BooksSettle DEF row

-----------------------------------------------------------------------------

LEMMA BooksLoadAccount ==
  ASSUME TypeOK, Books, NEW b \in Boots, LoadAccount(b)
  PROVE  Books'
  <1>0. b \in Sessions /\ b \notin Traders
    BY TradingAssumption DEF Sessions
  <1>1. UNCHANGED <<tables, locks, todo, txn, tally>> /\ pc[b] = "idle"
    BY DEF LoadAccount
  <1>2. /\ worth' \in [Sessions -> WorthType] /\ worth'[b].own = worth[b].own
        /\ \A o \in Sessions \ {b} : worth'[o] = worth[o]
    <2>1. LoadWorth(b)
      BY DEF LoadAccount
    <2>2. QED
      BY <1>0, <2>1, LoadedWorth
  <1>3. /\ pc'[b] = "reset"
        /\ \A o \in Sessions \ {b} : pc'[o] = pc[o] /\ exe'[o] = exe[o] /\ req'[o] = req[o]
    BY <1>0 DEF LoadAccount, Go, TypeOK
  <1>4. ~ Holds(b)' => worth'[b].own = NotWritten
    BY <1>0, <1>1, <1>2 DEF Books, Holds
  <1>5. BootBooks(b)'
    BY <1>3 DEF BootBooks
  <1>6. QED
    BY <1>0, <1>1, <1>2, <1>3, <1>4, <1>5, BooksStep

LEMMA BooksReset ==
  ASSUME TypeOK, WriteLock, LockedLedger, Books, NEW b \in Boots, Reset(b)
  PROVE  Books'
  <1> DEFINE deleted == {c \in Codes : pos[c].id # NoRow}
  <1> DEFINE rows == [c \in Codes |-> IF c \in deleted THEN NoPosition ELSE KeepRow]
  <1>0. b \in Sessions /\ b \notin Traders /\ txn[b] \in TxnType
    BY TradingAssumption DEF Sessions, TypeOK
  <1>1. /\ UNCHANGED <<tables, req, exe, worth>> /\ pc[b] = "reset" /\ Go(b, "import")
        /\ txn' = [txn EXCEPT ![b].cash = Write(@, exe[b].seen, req[b].cash), ![b].pos = rows]
    BY DEF Reset
  <1>2. Holds(b)' /\ \A o \in Sessions \ {b} : locks'[o] = locks[o]
    <2>1. \E r : Acquire(b, r)
      BY DEF Reset
    <2>2. QED
      BY <1>0, <2>1, AcquireLock
  <1>3. /\ pc'[b] = "import"
        /\ \A o \in Sessions \ {b} : pc'[o] = pc[o] /\ txn'[o] = txn[o]
    BY <1>0, <1>1 DEF Go, TypeOK
  <1>4. txn'[b].pos = rows
    <2> HIDE DEF rows
    <2> QED
      BY <1>0, <1>1 DEF TypeOK, TxnType
  <1>5. ASSUME NEW c \in Codes PROVE RowOf(b, c)' = NoPosition
    <2>1. pos' = pos /\ txn'[b].pos[c] = IF c \in deleted THEN NoPosition ELSE KeepRow
      BY <1>1, <1>4 DEF tables
    <2>2. CASE c \in deleted
      <3>1. NoRow # Keep /\ 0 # Keep
        BY TradingAssumption
      <3>2. txn'[b].pos[c] = NoPosition
        BY <2>1, <2>2
      <3>3. QED
        BY <3>1, <3>2 DEF RowOf, Col, NoPosition
    <2>3. CASE c \notin deleted
      <3>1. pos[c] = NoPosition
        BY <2>3 DEF Books, Existing
      <3>2. txn'[b].pos[c] = KeepRow
        BY <2>1, <2>3
      <3>3. QED
        BY <2>1, <3>1, <3>2 DEF RowOf, Col, KeepRow, NoPosition
    <2>4. QED
      BY <2>2, <2>3
  <1>6. BootBooks(b)'
    BY <1>3, <1>5 DEF BootBooks
  <1>7. worth' \in [Sessions -> WorthType]
    BY <1>1 DEF Books
  <1>8. QED
    BY <1>0, <1>1, <1>2, <1>3, <1>6, <1>7, BooksStep

LEMMA BooksImport ==
  ASSUME TypeOK, WriteLock, LockedLedger, Books, NEW b \in Boots, Import(b)
  PROVE  Books'
  <1> DEFINE rows == [c \in Codes |-> ImportedRow(b, c)]
  <1> DEFINE market == MarketValue(rows)
  <1> DEFINE written == [c \in Codes |-> IF c \in Imported(req[b]) THEN rows[c] ELSE txn[b].pos[c]]
  <1>0. b \in Sessions /\ b \notin Traders /\ txn[b] \in TxnType /\ req[b] \in Imports
    BY TradingAssumption DEF Sessions, Import, TypeOK, BootOK, Active
  <1>1. /\ UNCHANGED <<tables, req, exe>> /\ pc[b] = "import" /\ Go(b, "commit")
        /\ txn' = [txn EXCEPT ![b].pos = written]
        /\ WriteWorth(b, req[b].cash, market)
    BY DEF Import, ImportedRow
  <1>2. Holds(b)' /\ \A o \in Sessions \ {b} : locks'[o] = locks[o]
    <2>1. \E r : Acquire(b, r)
      BY DEF Import
    <2>2. QED
      BY <1>0, <2>1, AcquireLock
  <1>3. /\ pc'[b] = "commit"
        /\ \A o \in Sessions \ {b} : pc'[o] = pc[o] /\ txn'[o] = txn[o]
    BY <1>0, <1>1 DEF Go, TypeOK
  <1>4. rows \in [Codes -> RowType]
    BY <1>0, ImportedRowType
  <1>5. market \in Int /\ req[b].cash \in Int
    BY <1>0, <1>4, MarketValueType, TradingAssumption
  <1>6. worth' \in [Sessions -> WorthType] /\ \A o \in Sessions \ {b} : worth'[o] = worth[o]
    <2> HIDE DEF market
    <2>1. worth \in [Sessions -> WorthType] /\ worth[b] \in WorthType
      BY <1>0 DEF Books
    <2> DEFINE own == [mv |-> Write(worth[b].own.mv, worth[b].seen.mv, market),
                       eq |-> Write(worth[b].own.eq, worth[b].seen.eq, req[b].cash + market)]
    <2>2. worth' = [worth EXCEPT ![b].own = own]
      BY <1>1, Zenon DEF WriteWorth
    <2>3. own \in [mv : Int \cup {Keep}, eq : Int \cup {Keep}]
      BY <1>5, <2>1 DEF WorthType, Write
    <2> HIDE DEF own
    <2>4. [worth[b] EXCEPT !.own = own] \in WorthType
      BY <2>1, <2>3 DEF WorthType
    <2>5. QED
      BY <1>0, <2>1, <2>2, <2>4
  <1>7. txn'[b].pos = written
    <2> HIDE DEF written
    <2> QED
      BY <1>0, <1>1 DEF TypeOK, TxnType
  <1>8. ASSUME NEW c \in Codes
        PROVE  RowOf(b, c)' = IF c \in Imported(req[b]) THEN rows[c] ELSE NoPosition
    <2>1. pos' = pos
      BY <1>1 DEF tables
    <2>2. CASE c \in Imported(req[b])
      <3>1. txn'[b].pos[c] = rows[c]
        BY <1>7, <2>2
      <3>2. rows[c] \in RowType
        BY <1>4
      <3> HIDE DEF rows
      <3>3. QED
        BY <2>2, <3>1, <3>2, TradingAssumption DEF RowOf, Col, RowType
    <2>3. CASE c \notin Imported(req[b])
      <3>1. txn'[b].pos[c] = txn[b].pos[c]
        BY <1>7, <2>3
      <3>2. RowOf(b, c) = NoPosition
        BY <1>1 DEF Books, BootBooks
      <3>3. RowOf(b, c)' = RowOf(b, c)
        BY <2>1, <3>1 DEF RowOf
      <3>4. QED
        BY <2>3, <3>2, <3>3
    <2>4. QED
      BY <2>2, <2>3
  <1>9. ASSUME NEW c \in Codes
        PROVE  /\ RowOf(b, c)'.id = NoRow => RowOf(b, c)' = NoPosition
               /\ RowOf(b, c)'.pnl = 0 /\ RowOf(b, c)'.qty = req'[b].rows[c].qty
    <2>1. req' = req /\ req[b].rows[c].qty \in Nat
      BY <1>0, <1>1, TradingAssumption
    <2>2. CASE c \in Imported(req[b])
      <3>1. RowOf(b, c)' = ImportedRow(b, c)
        BY <1>8, <2>2
      <3>2. QED
        BY <1>0, <2>1, <3>1, TradingAssumption DEF ImportedRow
    <2>3. CASE c \notin Imported(req[b])
      <3>1. req[b].rows[c].qty = 0
        BY <2>1, <2>3 DEF Imported
      <3>2. RowOf(b, c)' = NoPosition
        BY <1>8, <2>3
      <3>3. QED
        BY <2>1, <3>1, <3>2 DEF NoPosition
    <2>4. QED
      BY <2>2, <2>3
  <1>10. BootBooks(b)'
    BY <1>3, <1>9 DEF BootBooks, Existing, View
  <1>11. QED
    BY <1>0, <1>1, <1>2, <1>3, <1>6, <1>10, BooksStep

-----------------------------------------------------------------------------

(* Afterwards, a session without pending writes sees the committed account. *)
LEMMA ClosedView ==
  ASSUME TypeOK', value' \in Metrics, NEW s \in Sessions, txn'[s].cash = Keep,
         \A c \in Codes : txn'[s].pos[c] = KeepRow, worth'[s].own = NotWritten
  PROVE  CashOf(s)' = cash' /\ View(s)' = pos' /\ WorthOf(s)' = value'
  <1>1. CashOf(s)' = cash'
    BY DEF CashOf, Col
  <1>2. \A c \in Codes : RowOf(s, c)' = pos'[c]
    <2> SUFFICES ASSUME NEW c \in Codes PROVE RowOf(s, c)' = pos'[c]
      OBVIOUS
    <2>1. RowOf(s, c)' = [id |-> pos'[c].id, qty |-> pos'[c].qty, cost |-> pos'[c].cost,
                          price |-> pos'[c].price, pnl |-> pos'[c].pnl]
      BY DEF RowOf, Col, KeepRow
    <2>2. pos'[c] \in RowType
      BY DEF TypeOK
    <2>3. QED
      BY <2>1, <2>2 DEF RowType
  <1>3. View(s)' = pos'
    BY <1>2 DEF View, TypeOK
  <1>4. WorthOf(s)' = value'
    BY DEF WorthOf, Col, NotWritten, Metrics
  <1>5. QED
    BY <1>1, <1>3, <1>4

(* What a session leaves when it closes.                                   *)
LEMMA CloseStep ==
  ASSUME TypeOK, Books, NEW s \in Sessions, NEW how \in {"done", "failed"}, Close(s, how)
  PROVE  /\ pc'[s] = how /\ locks'[s] = {} /\ txn'[s] = NoWrites
         /\ worth' \in [Sessions -> WorthType] /\ worth'[s].own = NotWritten
         /\ \A o \in Sessions \ {s} :
              /\ pc'[o] = pc[o] /\ exe'[o] = exe[o] /\ txn'[o] = txn[o]
              /\ worth'[o] = worth[o] /\ locks'[o] = locks[o] /\ req'[o] = req[o]
  <1>1. worth \in [Sessions -> WorthType]
    BY DEF Books
  <1>2. [seen |-> NoWorth, own |-> NotWritten] \in WorthType
    BY DEF NoWorth, NotWritten, WorthType, Metrics
  <1>3. worth' = [worth EXCEPT ![s] = [seen |-> NoWorth, own |-> NotWritten]]
    BY DEF Close
  <1>4. /\ worth' \in [Sessions -> WorthType] /\ worth'[s].own = NotWritten
        /\ \A o \in Sessions \ {s} : worth'[o] = worth[o]
    BY <1>1, <1>2, <1>3
  <1>5. /\ pc'[s] = how /\ locks'[s] = {} /\ txn'[s] = NoWrites
        /\ \A o \in Sessions \ {s} :
              /\ pc'[o] = pc[o] /\ exe'[o] = exe[o] /\ txn'[o] = txn[o]
              /\ locks'[o] = locks[o] /\ req'[o] = req[o]
    BY DEF Close, Go, TypeOK
  <1>6. QED
    BY <1>4, <1>5

(* A session that has nothing pending has the books of the tables.         *)
LEMMA ClosedBooks ==
  ASSUME TypeOK', value' \in Metrics, NEW s \in Traders, txn'[s].cash = Keep,
         \A c \in Codes : txn'[s].pos[c] = KeepRow, worth'[s].own = NotWritten,
         pc'[s] \notin {"place", "fill", "settle"},
         Existing(pos)', Whole(cash, pos)', Valued(value, cash, pos)'
  PROVE  TraderBooks(s)'
  <1>1. CashOf(s)' = cash' /\ View(s)' = pos' /\ WorthOf(s)' = value'
    BY ClosedView DEF Sessions
  <1>2. QED
    BY <1>1 DEF TraderBooks, Existing, Whole, Valued

LEMMA BooksFail ==
  ASSUME TypeOK, TypeOK', Books, NEW s \in Sessions, Fail(s)
  PROVE  Books'
  <1>1. Close(s, "failed") /\ UNCHANGED tables /\ pc[s] # "done"
    BY DEF Fail, Active
  <1>2. /\ pc'[s] = "failed" /\ locks'[s] = {} /\ txn'[s] = NoWrites
        /\ worth' \in [Sessions -> WorthType] /\ worth'[s].own = NotWritten
        /\ \A o \in Sessions \ {s} :
              /\ pc'[o] = pc[o] /\ exe'[o] = exe[o] /\ txn'[o] = txn[o]
              /\ worth'[o] = worth[o] /\ locks'[o] = locks[o] /\ req'[o] = req[o]
    BY <1>1, CloseStep
  <1>3. txn'[s].cash = Keep /\ \A c \in Codes : txn'[s].pos[c] = KeepRow
    BY <1>2 DEF NoWrites
  <1>4. /\ Existing(pos)' /\ Whole(cash, pos)' /\ Valued(value, cash, pos)'
        /\ value' \in Metrics
    <2>1. NoneReplaced' <=> NoneReplaced
      BY <1>1, <1>2 DEF NoneReplaced, Sessions
    <2>2. QED
      BY <1>1, <2>1 DEF Books, tables, Existing, Whole, Valued
  <1>5. s \in Traders => TraderBooks(s)'
    BY <1>2, <1>3, <1>4, ClosedBooks
  <1>6. BootBooks(s)'
    BY <1>2 DEF BootBooks
  <1>7. QED
    BY <1>1, <1>2, <1>5, <1>6, BooksStep

(* Who holds no lock is at no place where the lock is needed.              *)
LEMMA UnlockedPlaces ==
  ASSUME LockedLedger, NEW o \in Sessions, ~ Holds(o)
  PROVE  /\ pc[o] \notin {"check", "size", "place", "fill", "settle", "import"}
         /\ o \in Boots => pc[o] # "commit"
         /\ txn[o].cash = Keep /\ \A c \in Codes : txn[o].pos[c] = KeepRow
  BY DEF LockedLedger, Undisturbed

(* A commit of the holder of the lock replaces the tables by its view; the *)
(* others have nothing pending.                                            *)
LEMMA BooksCommit ==
  ASSUME TypeOK, TypeOK', LockedLedger, Books, NEW s \in Sessions, Holds(s), Close(s, "done"),
         Existing(pos)', Whole(cash, pos)', Valued(value, cash, pos)', value' \in Metrics
  PROVE  Books'
  <1>1. /\ pc'[s] = "done" /\ locks'[s] = {} /\ txn'[s] = NoWrites
        /\ worth' \in [Sessions -> WorthType] /\ worth'[s].own = NotWritten
        /\ \A o \in Sessions \ {s} :
              /\ pc'[o] = pc[o] /\ exe'[o] = exe[o] /\ txn'[o] = txn[o]
              /\ worth'[o] = worth[o] /\ locks'[o] = locks[o] /\ req'[o] = req[o]
    BY CloseStep
  <1>2. ASSUME NEW o \in Sessions
        PROVE  /\ txn'[o].cash = Keep /\ \A c \in Codes : txn'[o].pos[c] = KeepRow
               /\ worth'[o].own = NotWritten
               /\ pc'[o] \notin {"place", "fill", "settle", "import"}
               /\ o \in Boots => pc'[o] # "commit"
    <2>1. CASE o = s
      BY <1>1, <2>1 DEF NoWrites
    <2>2. CASE o # s
      <3>1. ~ Holds(o)
        BY <2>2 DEF LockedLedger
      <3>2. worth[o].own = NotWritten
        BY <3>1 DEF Books
      <3>3. QED
        BY <1>1, <2>2, <3>1, <3>2, UnlockedPlaces
    <2>3. QED
      BY <2>1, <2>2
  <1>3. ASSUME NEW o \in Traders PROVE TraderBooks(o)'
    BY <1>2, ClosedBooks DEF Sessions
  <1>4. ASSUME NEW o \in Boots PROVE BootBooks(o)'
    BY <1>2 DEF BootBooks, Sessions
  <1>5. QED
    BY <1>1, <1>2, <1>3, <1>4 DEF Books

LEMMA BooksCommitRun ==
  ASSUME TypeOK, TypeOK', LockedLedger, Books, NEW s \in Traders, CommitRun(s)
  PROVE  Books'
  <1>0. s \in Sessions /\ s \notin Boots
    BY TradingAssumption DEF Sessions
  <1>1. /\ Apply(s) /\ Close(s, "done") /\ capital' = capital /\ pc[s] = "commit"
        /\ cash' = CashOf(s) /\ pos' = View(s) /\ value' = WorthOf(s)
    BY DEF CommitRun, Apply, View
  <1>2. /\ pc'[s] = "done" /\ locks'[s] = {} /\ txn'[s] = NoWrites
        /\ worth' \in [Sessions -> WorthType] /\ worth'[s].own = NotWritten
        /\ \A o \in Sessions \ {s} :
              /\ pc'[o] = pc[o] /\ exe'[o] = exe[o] /\ txn'[o] = txn[o]
              /\ worth'[o] = worth[o] /\ locks'[o] = locks[o] /\ req'[o] = req[o]
    BY <1>0, <1>1, CloseStep
  <1>3. NoneReplaced' <=> NoneReplaced
    BY <1>0, <1>2 DEF NoneReplaced, Sessions
  <1>4. TraderBooks(s) /\ value' \in Metrics
    BY <1>0, <1>1, WorthOfType DEF Books
  <1>5. Existing(pos)' /\ Whole(cash, pos)' /\ Valued(value, cash, pos)'
    BY <1>1, <1>3, <1>4 DEF TraderBooks, Existing, Whole, Valued
  <1>6. CASE Holds(s)
    BY <1>0, <1>1, <1>4, <1>5, <1>6, BooksCommit
  <1>7. CASE ~ Holds(s)
    <2>1. cash' = cash /\ pos' = pos
      BY <1>0, <1>1, <1>7, IdleCommit
    <2>2. value' = value
      <3>1. worth[s].own = NotWritten /\ value \in Metrics
        BY <1>0, <1>7 DEF Books
      <3>2. QED
        BY <1>1, <3>1 DEF WorthOf, Col, NotWritten, Metrics
    <2>3. txn'[s].cash = Keep /\ \A c \in Codes : txn'[s].pos[c] = KeepRow
      BY <1>2 DEF NoWrites
    <2>4. TraderBooks(s)'
      BY <1>2, <1>4, <1>5, <2>3, ClosedBooks
    <2>5. ASSUME NEW o \in Sessions \ {s}
          PROVE  /\ CashOf(o)' = CashOf(o) /\ View(o)' = View(o) /\ WorthOf(o)' = WorthOf(o)
                 /\ \A c \in Codes : RowOf(o, c)' = RowOf(o, c)
      BY <1>2, <2>1, <2>2 DEF CashOf, RowOf, View, WorthOf
    <2>6. ASSUME NEW o \in Traders, o # s PROVE TraderBooks(o)'
      <3>1. o \in Sessions \ {s} /\ TraderBooks(o)
        BY <2>6 DEF Sessions, Books
      <3>2. QED
        BY <1>1, <1>2, <1>3, <2>5, <3>1 DEF TraderBooks, Existing, Whole, Valued
    <2>7. ASSUME NEW o \in Boots PROVE BootBooks(o)'
      <3>1. o \in Sessions \ {s} /\ BootBooks(o)
        BY <1>0 DEF Sessions, Books
      <3>2. QED
        BY <1>2, <2>5, <3>1 DEF BootBooks, Existing
    <2>8. \A o \in Sessions : ~ Holds(o)' => worth'[o].own = NotWritten
      BY <1>2 DEF Books, Holds
    <2>9. QED
      BY <1>2, <1>4, <1>5, <2>4, <2>6, <2>7, <2>8 DEF Books
  <1>8. QED
    BY <1>6, <1>7

LEMMA BooksCommitImport ==
  ASSUME TypeOK, TypeOK', LockedLedger, Books, NEW b \in Boots, CommitImport(b)
  PROVE  Books'
  <1>0. b \in Sessions
    BY DEF Sessions
  <1>1. /\ Apply(b) /\ Close(b, "done") /\ pc[b] = "commit"
        /\ cash' = CashOf(b) /\ pos' = View(b) /\ value' = WorthOf(b)
        /\ capital' = cash' + MapThenSumSet(LAMBDA c : pos'[c].cost, Codes)
    BY DEF CommitImport, Apply, View
  <1>2. Holds(b)
    BY <1>0, <1>1 DEF LockedLedger, Undisturbed
  <1>3. BootBooks(b) /\ value' \in Metrics
    BY <1>0, <1>1, WorthOfType DEF Books
  <1>4. Existing(pos)'
    BY <1>1, <1>3 DEF BootBooks, Existing
  <1>5. Whole(cash, pos)'
    <2>1. \A c \in Codes : pos'[c].pnl = 0
      BY <1>1, <1>3 DEF BootBooks, View
    <2>2. pos' \in [Codes -> RowType]
      BY DEF TypeOK
    <2>3. MapThenSumSet(LAMBDA c : pos'[c].cost, Codes) = Total(Principal(pos'), Codes)
      BY <2>1, <2>2, CostSum
    <2>4. QED
      BY <1>1, <2>3 DEF Whole
  <1>6. pc'[b] = "done"
    BY <1>0, <1>1, CloseStep
  <1>7. Valued(value, cash, pos)'
    BY <1>6 DEF Valued, NoneReplaced
  <1>8. QED
    BY <1>0, <1>1, <1>2, <1>3, <1>4, <1>5, <1>7, BooksCommit

LEMMA BooksNext ==
  ASSUME TypeOK, TypeOK', WriteLock, LockedLedger, Books, [Next]_vars
  PROVE  Books'
  <1>1. ASSUME NEW s \in Traders, Run(s) PROVE Books'
    BY <1>1, BooksStartRun, BooksEvaluate, BooksCannotEvaluate, BooksAbandon, BooksRecord,
       BooksCheck, BooksSize, BooksPlace, BooksFind, BooksFillBuy, BooksFillSell,
       BooksCommitRun
    DEF Run
  <1>2. ASSUME NEW b \in Boots, Bootstrap(b) PROVE Books'
    BY <1>2, BooksLoadAccount, BooksReset, BooksImport, BooksCommitImport DEF Bootstrap
  <1>3. ASSUME NEW s \in Sessions, Fail(s) PROVE Books'
    BY <1>3, BooksFail
  <1>4. CASE UNCHANGED vars
    <2>1. ASSUME NEW s \in Sessions
          PROVE  /\ CashOf(s)' = CashOf(s) /\ View(s)' = View(s) /\ WorthOf(s)' = WorthOf(s)
                 /\ \A c \in Codes : RowOf(s, c)' = RowOf(s, c)
      BY <1>4 DEF vars, CashOf, RowOf, View, WorthOf
    <2>2. NoneReplaced' <=> NoneReplaced
      BY <1>4 DEF vars, NoneReplaced
    <2>3. Existing(pos)' /\ Whole(cash, pos)' /\ Valued(value, cash, pos)' /\ value' \in Metrics
      BY <1>4, <2>2 DEF Books, vars, Existing, Whole, Valued
    <2>4. ASSUME NEW s \in Traders PROVE TraderBooks(s)'
      <3>1. s \in Sessions /\ TraderBooks(s)
        BY DEF Sessions, Books
      <3>2. QED
        BY <1>4, <2>1, <2>2, <3>1 DEF vars, TraderBooks, Existing, Whole, Valued
    <2>5. ASSUME NEW b \in Boots PROVE BootBooks(b)'
      <3>1. b \in Sessions /\ BootBooks(b)
        BY DEF Sessions, Books
      <3>2. QED
        BY <1>4, <2>1, <3>1 DEF vars, BootBooks, Existing
    <2>6. /\ worth' \in [Sessions -> WorthType]
          /\ \A s \in Sessions : ~ Holds(s)' => worth'[s].own = NotWritten
      BY <1>4 DEF Books, vars, Holds
    <2>7. QED
      BY <2>3, <2>4, <2>5, <2>6 DEF Books
  <1>5. QED
    BY <1>1, <1>2, <1>3, <1>4 DEF Next

LEMMA BooksInvariant == WriteLock /\ Spec => [](TypeOK /\ LockedLedger /\ Books)
  <1> SUFFICES ASSUME WriteLock PROVE Spec => [](TypeOK /\ LockedLedger /\ Books)
    OBVIOUS
  <1>1. TypeOK /\ TypeOK' /\ LockedLedger /\ Books /\ [Next]_vars => Books'
    BY BooksNext
  <1>2. QED
    BY <1>1, BooksInit, TradingTypeOK, LockedInvariant, PTL DEF Spec

(* With a write lock, money is neither made nor lost: for any number of    *)
(* sessions and codes, the committed cash and the cost of the positions,   *)
(* less the profit booked, are what the last bootstrap left; every fill    *)
(* pays what its row gains, fee and tax included.                          *)
THEOREM TradingValueConserved == WriteLock /\ Spec => []ValueConserved
  <1>1. Books => ValueConserved
    BY PrincipalSum DEF Books, Whole, ValueConserved
  <1>2. QED
    BY <1>1, BooksInvariant, PTL

(* With a write lock, until a bootstrap writes them from its form, the     *)
(* stored market value and equity are those of the stored positions and    *)
(* cash, although a session refreshes them from objects it has loaded.     *)
THEOREM TradingEquityConsistent == WriteLock /\ Spec => []EquityConsistent
  <1>1. Books => EquityConsistent
    BY DEF Books, Valued, NoneReplaced, EquityConsistent
  <1>2. QED
    BY <1>1, BooksInvariant, PTL

-----------------------------------------------------------------------------
(* Trading implements Ledger under a write lock.                           *)
(*                                                                         *)
(* A commit books the trades of one transaction.  What it moves was added  *)
(* to the session's tally fill by fill; Tallies says that this is the sum  *)
(* over the trades, in whatever order they are added up.                   *)

CashFlows ==
  [t \in OrderType |-> IF t.side = "BUY" THEN - BuyCost(t.price, t.quantity)
                                         ELSE SellProceeds(t.price, t.quantity)]
ShareFlows ==
  [t \in OrderType |-> IF t.side = "BUY" THEN t.quantity ELSE - t.quantity]

Tallied(s) ==
  /\ IsFiniteSet(txn[s].trades)
  /\ tally[s].cash = Total(CashFlows, txn[s].trades)
  /\ \A c \in Codes : tally[s].qty[c] = Total(ShareFlows, {t \in txn[s].trades : t.code = c})

Tallies == \A s \in Traders : Tallied(s)

LEMMA FlowTypes ==
  ASSUME NEW t \in OrderType
  PROVE  CashFlows[t] \in Int /\ ShareFlows[t] \in Int
  <1>1. t.price \in Nat /\ t.quantity \in Nat
    BY TradingAssumption DEF OrderType
  <1>2. BuyCost(t.price, t.quantity) \in Nat
    BY <1>1, BuyCostType
  <1>3. SellProceeds(t.price, t.quantity) \in Int
    BY <1>1, SellProceedsType
  <1>4. QED
    BY <1>1, <1>2, <1>3 DEF CashFlows, ShareFlows

LEMMA NothingTallied ==
  ASSUME NEW s \in Traders, txn'[s] = NoWrites, tally'[s] = NoTally
  PROVE  Tallied(s)'
  <1>1. txn'[s].trades = {} /\ tally'[s].cash = 0 /\ \A c \in Codes : tally'[s].qty[c] = 0
    BY DEF NoWrites, NoTally
  <1>2. IsFiniteSet({}) /\ Total(CashFlows, {}) = 0 /\ Total(ShareFlows, {}) = 0
    BY FS_EmptySet, SumEmpty
  <1>3. \A c \in Codes : {t \in {} : t.code = c} = {}
    OBVIOUS
  <1>4. QED
    BY <1>1, <1>2, <1>3 DEF Tallied, CashFlows, ShareFlows

LEMMA TalliesInit == Init => Tallies
  <1> SUFFICES ASSUME Init, NEW s \in Traders PROVE Tallied(s)
    BY DEF Tallies
  <1>1. txn[s].trades = {} /\ tally[s].cash = 0 /\ \A c \in Codes : tally[s].qty[c] = 0
    BY DEF Init, NoWrites, NoTally, Sessions
  <1>2. IsFiniteSet({}) /\ Total(CashFlows, {}) = 0 /\ Total(ShareFlows, {}) = 0
    BY FS_EmptySet, SumEmpty
  <1>3. \A c \in Codes : {t \in {} : t.code = c} = {}
    OBVIOUS
  <1>4. QED
    BY <1>1, <1>2, <1>3 DEF Tallied

(* A step that changes no trades and no tally, or drops both.              *)
LEMMA TalliesKept ==
  ASSUME Tallies,
         \A s \in Traders :
           \/ txn'[s].trades = txn[s].trades /\ tally'[s] = tally[s]
           \/ txn'[s] = NoWrites /\ tally'[s] = NoTally
  PROVE  Tallies'
  <1> SUFFICES ASSUME NEW s \in Traders PROVE Tallied(s)'
    BY DEF Tallies
  <1>1. CASE txn'[s].trades = txn[s].trades /\ tally'[s] = tally[s]
    <2>1. Tallied(s)
      BY DEF Tallies
    <2>2. QED
      BY <1>1, <2>1 DEF Tallied, CashFlows, ShareFlows
  <1>2. CASE txn'[s] = NoWrites /\ tally'[s] = NoTally
    BY <1>2, NothingTallied
  <1>3. QED
    BY <1>1, <1>2

LEMMA TalliesMove ==
  ASSUME TypeOK, Tallies, NEW s \in Sessions, UNCHANGED tally,
         txn' = [txn EXCEPT ![s] = txn'[s]], txn'[s].trades = txn[s].trades
  PROVE  Tallies'
  <1>1. \A o \in Traders : txn'[o].trades = txn[o].trades /\ tally'[o] = tally[o]
    BY DEF TypeOK, Sessions
  <1>2. QED
    BY <1>1, TalliesKept

LEMMA TalliesFinish ==
  ASSUME TypeOK, Tallies, NEW s \in Traders, NEW status,
         Finish(s, status, txn[s]), UNCHANGED tally
  PROVE  Tallies'
  <1>1. s \in Sessions /\ txn[s] \in TxnType
    BY DEF Sessions, TypeOK
  <1>2. QED
    BY <1>1, FinishStep, TalliesMove

LEMMA TalliesClose ==
  ASSUME TypeOK, Tallies, NEW s \in Sessions, NEW how, Close(s, how)
  PROVE  Tallies'
  <1>1. /\ txn' = [txn EXCEPT ![s] = NoWrites]
        /\ tally' = [tally EXCEPT ![s] = NoTally]
    BY DEF Close
  <1>2. \A o \in Traders :
           \/ txn'[o].trades = txn[o].trades /\ tally'[o] = tally[o]
           \/ txn'[o] = NoWrites /\ tally'[o] = NoTally
    BY <1>1 DEF TypeOK, Sessions
  <1>3. QED
    BY <1>2, TalliesKept

(* A fill adds its trade, which is new, and its flows.                     *)
LEMMA TalliesSettle ==
  ASSUME TypeOK, Story, Tallies, NEW s \in Traders,
         NEW code \in Codes, code = exe[s].code,
         NEW row \in RowType, NEW paid \in Int, NEW moved \in Int,
         Settle(s, row, paid, moved),
         CashFlows[Pending(s)] = - paid, ShareFlows[Pending(s)] = moved
  PROVE  Tallies'
  <1> DEFINE t == Pending(s)
  <1> DEFINE own == txn[s].trades
  <1>0. s \in Sessions /\ txn[s] \in TxnType /\ exe[s] \in ExeType
        /\ exe[s].signal \in {"BUY", "SELL"} /\ exe[s].price \in Prices /\ tally[s] \in TallyType
        /\ pc[s] = "settle"
    BY DEF Sessions, TypeOK, TraderOK, Settle
  <1>0a. txn' = [txn EXCEPT ![s] = txn'[s]] /\ txn'[s].trades = own \cup {t}
    BY SettleStep
  <1>0b. tally' = [tally EXCEPT ![s].cash = @ - paid, ![s].qty[code] = @ + moved]
    BY DEF Settle
  <1>1. /\ txn' = [txn EXCEPT ![s] = txn'[s]] /\ txn'[s].trades = own \cup {t}
        /\ tally' = [tally EXCEPT ![s].cash = @ - paid, ![s].qty[code] = @ + moved]
    BY <1>0a, <1>0b
  <1>2. t \in OrderType /\ t.code = code /\ own \subseteq OrderType
    BY <1>0 DEF Pending, OrderType, ExeType, TxnType
  <1>3. t \notin own
    BY <1>0, <1>2 DEF Story, OwnWork, Running
  <1>4. Tallied(s)
    BY DEF Tallies
  <1>5. /\ tally'[s].cash = tally[s].cash - paid
        /\ tally'[s].qty[code] = tally[s].qty[code] + moved
        /\ \A c \in Codes \ {code} : tally'[s].qty[c] = tally[s].qty[c]
    BY <1>0, <1>1 DEF TypeOK, TallyType
  <1> HIDE DEF t, own
  <1>6. IsFiniteSet(own) /\ IsFiniteSet(own \cup {t})
    BY <1>4, FS_AddElement DEF Tallied, own
  <1>7. \A x \in own \cup {t} : CashFlows[x] \in Int /\ ShareFlows[x] \in Int
    BY <1>2, FlowTypes
  <1>8. tally'[s].cash = Total(CashFlows, own \cup {t})
    <2>1. Total(CashFlows, own \cup {t}) = Total(CashFlows, own) + CashFlows[t]
      BY <1>3, <1>6, <1>7, SumWith
    <2>2. tally[s].cash = Total(CashFlows, own)
      BY <1>4 DEF Tallied, own
    <2>3. tally[s].cash \in Int /\ CashFlows[t] = - paid
      BY <1>0 DEF TallyType, t
    <2>4. QED
      BY <1>5, <2>1, <2>2, <2>3
  <1>9. ASSUME NEW c \in Codes
        PROVE  tally'[s].qty[c] = Total(ShareFlows, {x \in own \cup {t} : x.code = c})
    <2> DEFINE part == {x \in own : x.code = c}
    <2>1. tally[s].qty[c] = Total(ShareFlows, part)
      BY <1>4 DEF Tallied, own
    <2>2. CASE c = code
      <3>1. {x \in own \cup {t} : x.code = c} = part \cup {t} /\ t \notin part
        BY <1>2, <1>3, <2>2
      <3>2. IsFiniteSet(part) /\ \A x \in part \cup {t} : ShareFlows[x] \in Int
        BY <1>6, <1>7, FS_Subset
      <3> HIDE DEF part
      <3>3. Total(ShareFlows, part \cup {t}) = Total(ShareFlows, part) + ShareFlows[t]
        BY <3>1, <3>2, SumWith
      <3>4. ShareFlows[t] = moved
        BY DEF t
      <3>5. QED
        BY <1>5, <2>1, <2>2, <3>1, <3>3, <3>4
    <2>3. CASE c # code
      <3>1. {x \in own \cup {t} : x.code = c} = part
        BY <1>2, <2>3
      <3>2. QED
        BY <1>5, <2>1, <2>3, <3>1
    <2>4. QED
      BY <2>2, <2>3
  <1>10. Tallied(s)'
    BY <1>1, <1>6, <1>8, <1>9 DEF Tallied, CashFlows, ShareFlows
  <1>11. \A o \in Traders \ {s} : txn'[o] = txn[o] /\ tally'[o] = tally[o]
    BY <1>0, <1>1 DEF TypeOK, Sessions
  <1>12. \A o \in Traders \ {s} : Tallied(o)'
    BY <1>11 DEF Tallies, Tallied, CashFlows, ShareFlows
  <1>13. QED
    BY <1>10, <1>12 DEF Tallies

LEMMA TalliesStartRun ==
  ASSUME TypeOK, Tallies, NEW s \in Traders,
         StartRun(s) \/ Evaluate(s) \/ CannotEvaluate(s)
  PROVE  Tallies'
  <1>1. UNCHANGED <<txn, tally>>
    BY DEF StartRun, Evaluate, CannotEvaluate
  <1>2. QED
    BY <1>1, TalliesKept

LEMMA TalliesAbandon ==
  ASSUME TypeOK, Tallies, NEW s \in Traders, Abandon(s)
  PROVE  Tallies'
  <1> DEFINE own == IF pc[s] = "evaluate" THEN txn[s].runs
                                          ELSE txn[s].runs \cup {Outcome(s, "NONE")}
  <1>0. s \in Sessions /\ txn[s] \in TxnType
    BY DEF Sessions, TypeOK
  <1>1. txn' = [txn EXCEPT ![s].runs = own] /\ UNCHANGED tally
    BY DEF Abandon
  <1> HIDE DEF own
  <1>2. txn'[s] = [txn[s] EXCEPT !.runs = own]
    BY <1>0, <1>1 DEF TypeOK
  <1>3. txn' = [txn EXCEPT ![s] = txn'[s]]
    BY <1>0, <1>1 DEF TypeOK
  <1>4. txn'[s].trades = txn[s].trades
    BY <1>0, <1>2 DEF TxnType
  <1>5. QED
    BY <1>0, <1>1, <1>3, <1>4, TalliesMove

LEMMA TalliesDecide ==
  ASSUME TypeOK, Tallies, NEW s \in Traders, Record(s) \/ Check(s) \/ Size(s) \/ Find(s)
  PROVE  Tallies'
  <1>1. UNCHANGED tally /\ (UNCHANGED txn \/ \E status : Finish(s, status, txn[s]))
    BY DEF Record, Check, Size, Find
  <1>2. CASE UNCHANGED txn
    BY <1>1, <1>2, TalliesKept
  <1>3. CASE \E status : Finish(s, status, txn[s])
    BY <1>1, <1>3, TalliesFinish
  <1>4. QED
    BY <1>1, <1>2, <1>3

LEMMA TalliesPlace ==
  ASSUME TypeOK, Tallies, NEW s \in Traders, Place(s)
  PROVE  Tallies'
  <1>0. s \in Sessions /\ txn[s] \in TxnType
    BY DEF Sessions, TypeOK
  <1>1. UNCHANGED tally
    BY DEF Place
  <1>2. CASE Finish(s, "FAILED", txn[s])
    BY <1>1, <1>2, TalliesFinish
  <1>3. ASSUME NEW order, txn' = [txn EXCEPT ![s].orders = @ \cup {order}]
        PROVE  Tallies'
    <2>1. txn'[s] = [txn[s] EXCEPT !.orders = @ \cup {order}]
      BY <1>0, <1>3 DEF TypeOK
    <2>2. txn'[s].trades = txn[s].trades
      BY <1>0, <2>1 DEF TxnType
    <2>3. txn' = [txn EXCEPT ![s] = txn'[s]]
      BY <1>0, <1>3 DEF TypeOK
    <2>4. QED
      BY <1>0, <1>1, <2>2, <2>3, TalliesMove
  <1>4. QED
    BY <1>2, <1>3 DEF Place

LEMMA TalliesFillBuy ==
  ASSUME TypeOK, Story, Tallies, NEW s \in Traders, FillBuy(s)
  PROVE  Tallies'
  <1> DEFINE e == exe[s]
  <1> DEFINE cost == BuyCost(e.price, e.quantity)
  <1>1. e.signal = "BUY" /\ pc[s] = "settle"
        /\ Settle(s, Bought(s, e.held), cost, e.quantity)
    BY DEF FillBuy, Settle
  <1>2. s \in Sessions /\ e \in ExeType /\ e.code \in Codes /\ e.price \in Prices
    BY <1>1 DEF Sessions, TypeOK, TraderOK
  <1>3. e.held \in RowType /\ e.quantity \in Nat /\ e.price \in Nat
    BY <1>2, TradingAssumption DEF ExeType
  <1>4. cost \in Nat
    BY <1>3, BuyCostType
  <1>5. Pending(s) \in OrderType /\ Pending(s).side = "BUY"
        /\ Pending(s).price = e.price /\ Pending(s).quantity = e.quantity
    BY <1>1, <1>2, <1>3 DEF Pending, OrderType
  <1>6. CashFlows[Pending(s)] = - cost /\ ShareFlows[Pending(s)] = e.quantity
    BY <1>5 DEF CashFlows, ShareFlows
  <1>7. Bought(s, e.held) \in RowType
    BY <1>2, <1>3, BoughtType
  <1> HIDE DEF cost
  <1>8. cost \in Int /\ e.quantity \in Int
    BY <1>3, <1>4
  <1>9. QED
    BY <1>1, <1>2, <1>6, <1>7, <1>8, TalliesSettle, Zenon

LEMMA TalliesFillSell ==
  ASSUME TypeOK, Story, Tallies, NEW s \in Traders, FillSell(s)
  PROVE  Tallies'
  <1> DEFINE e == exe[s]
  <1> DEFINE paid == - SellProceeds(e.price, e.quantity)
  <1> DEFINE moved == - e.quantity
  <1>1. e.signal = "SELL" /\ pc[s] = "settle" /\ Settle(s, Sold(s, e.held), paid, moved)
    BY DEF FillSell, Settle
  <1>2. s \in Sessions /\ e \in ExeType /\ e.code \in Codes /\ e.price \in Prices
        /\ e.quantity <= e.held.qty
    BY <1>1 DEF Sessions, TypeOK, TraderOK
  <1>3. e.quantity \in Nat /\ e.price \in Nat /\ e.held \in RowType
    BY <1>2, TradingAssumption DEF ExeType
  <1>4. SellProceeds(e.price, e.quantity) \in Int
    BY <1>3, SellProceedsType
  <1>5. Pending(s) \in OrderType /\ Pending(s).side = "SELL"
        /\ Pending(s).price = e.price /\ Pending(s).quantity = e.quantity
    BY <1>1, <1>2, <1>3 DEF Pending, OrderType
  <1>6. CashFlows[Pending(s)] = SellProceeds(e.price, e.quantity)
        /\ ShareFlows[Pending(s)] = - e.quantity
    BY <1>5 DEF CashFlows, ShareFlows
  <1>7. paid \in Int /\ moved \in Int /\ CashFlows[Pending(s)] = - paid
        /\ ShareFlows[Pending(s)] = moved
    BY <1>3, <1>4, <1>6
  <1>8. Sold(s, e.held) \in RowType
    BY <1>2, <1>3, SoldType
  <1> HIDE DEF paid, moved
  <1>9. QED
    BY <1>1, <1>2, <1>7, <1>8, TalliesSettle, Zenon

LEMMA TalliesBootstrap ==
  ASSUME TypeOK, Tallies, NEW b \in Boots, Bootstrap(b)
  PROVE  Tallies'
  <1>0. b \in Sessions /\ b \notin Traders
    BY TradingAssumption DEF Sessions
  <1>1. CASE LoadAccount(b)
    <2>1. UNCHANGED <<txn, tally>>
      BY <1>1 DEF LoadAccount
    <2>2. QED
      BY <2>1, TalliesKept
  <1>2. CASE Reset(b) \/ Import(b)
    <2>1. UNCHANGED tally
      BY <1>2 DEF Reset, Import
    <2>2. \A o \in Traders : txn'[o] = txn[o]
      BY <1>0, <1>2 DEF Reset, Import, TypeOK, Sessions
    <2>3. QED
      BY <2>1, <2>2, TalliesKept
  <1>3. CASE CommitImport(b)
    BY <1>0, <1>3, TalliesClose DEF CommitImport
  <1>4. QED
    BY <1>1, <1>2, <1>3 DEF Bootstrap

LEMMA TalliesNext ==
  ASSUME TypeOK, Story, Tallies, [Next]_vars
  PROVE  Tallies'
  <1>1. ASSUME NEW s \in Traders, Run(s) PROVE Tallies'
    <2>1. CASE CommitRun(s)
      BY <2>1, TalliesClose DEF CommitRun, Sessions
    <2>2. QED
      BY <1>1, <2>1, TalliesStartRun, TalliesAbandon, TalliesDecide, TalliesPlace,
         TalliesFillBuy, TalliesFillSell DEF Run
  <1>2. ASSUME NEW b \in Boots, Bootstrap(b) PROVE Tallies'
    BY <1>2, TalliesBootstrap
  <1>3. ASSUME NEW s \in Sessions, Fail(s) PROVE Tallies'
    BY <1>3, TalliesClose DEF Fail
  <1>4. CASE UNCHANGED vars
    <2>1. UNCHANGED <<txn, tally>>
      BY <1>4 DEF vars
    <2>2. QED
      BY <2>1, TalliesKept
  <1>5. QED
    BY <1>1, <1>2, <1>3, <1>4 DEF Next

(* The sums of Ledger are those of Tallies.                                *)
LEMMA AbstractFlows ==
  ASSUME NEW t \in OrderType
  PROVE  Abstract!CashFlow(t) = CashFlows[t] /\ Abstract!ShareFlow(t) = ShareFlows[t]
  <1>1. Abstract!BuyCost(t.price, t.quantity) = BuyCost(t.price, t.quantity)
    BY DEF Abstract!BuyCost, Abstract!Fee, BuyCost, Fee
  <1>2. Abstract!SellProceeds(t.price, t.quantity) = SellProceeds(t.price, t.quantity)
    BY DEF Abstract!SellProceeds, Abstract!Fee, Abstract!Tax, SellProceeds, Fee, Tax
  <1>3. QED
    BY <1>1, <1>2 DEF CashFlows, ShareFlows, Abstract!CashFlow, Abstract!ShareFlow

LEMMA AbstractCash ==
  ASSUME NEW S, S \subseteq OrderType, IsFiniteSet(S)
  PROVE  Abstract!MapThenSumSet(Abstract!CashFlow, S) = Total(CashFlows, S)
  <1> DEFINE flow(s) == Abstract!CashFlow(Pick(s))
  <1>1. \A s \in SUBSET S : s # {} => CashFlows[Pick(s)] = flow(s)
    BY PickIn, AbstractFlows
  <1>2. PICK g : IsTotal(g, CashFlows, S) /\ Total(CashFlows, S) = g[S]
    BY TotalIs
  <1>3. \A h : IsTotal(h, CashFlows, S) <=>
                 h = [s \in SUBSET S |-> IF s = {} THEN 0 ELSE flow(s) + h[s \ {Pick(s)}]]
    BY <1>1 DEF IsTotal
  <1>4. PICK h : /\ h = [s \in SUBSET S |-> IF s = {} THEN 0 ELSE flow(s) + h[s \ {Pick(s)}]]
                 /\ Abstract!MapThenSumSet(Abstract!CashFlow, S) = h[S]
    BY <1>2, <1>3 DEF Abstract!MapThenSumSet, Abstract!MapThenFoldSet, Pick
  <1>5. IsTotal(h, CashFlows, S)
    BY <1>3, <1>4
  <1>6. QED
    BY <1>4, <1>5, TotalOf

LEMMA AbstractShares ==
  ASSUME NEW S, S \subseteq OrderType, IsFiniteSet(S)
  PROVE  Abstract!MapThenSumSet(Abstract!ShareFlow, S) = Total(ShareFlows, S)
  <1> DEFINE flow(s) == Abstract!ShareFlow(Pick(s))
  <1>1. \A s \in SUBSET S : s # {} => ShareFlows[Pick(s)] = flow(s)
    BY PickIn, AbstractFlows
  <1>2. PICK g : IsTotal(g, ShareFlows, S) /\ Total(ShareFlows, S) = g[S]
    BY TotalIs
  <1>3. \A h : IsTotal(h, ShareFlows, S) <=>
                 h = [s \in SUBSET S |-> IF s = {} THEN 0 ELSE flow(s) + h[s \ {Pick(s)}]]
    BY <1>1 DEF IsTotal
  <1>4. PICK h : /\ h = [s \in SUBSET S |-> IF s = {} THEN 0 ELSE flow(s) + h[s \ {Pick(s)}]]
                 /\ Abstract!MapThenSumSet(Abstract!ShareFlow, S) = h[S]
    BY <1>2, <1>3 DEF Abstract!MapThenSumSet, Abstract!MapThenFoldSet, Pick
  <1>5. IsTotal(h, ShareFlows, S)
    BY <1>3, <1>4
  <1>6. QED
    BY <1>4, <1>5, TotalOf

(* Only a commit changes the ledger: everything else is a stutter.         *)
LEMMA LedgerStutters ==
  ASSUME UNCHANGED tables
  PROVE  UNCHANGED Abstract!ledger
  BY DEF tables, Abstract!ledger

(* A commit of a strategy run books the trades of its transaction, if it   *)
(* has any.                                                                *)
LEMMA LedgerCommitRun ==
  ASSUME TypeOK, TypeOK', LockedLedger, Story, Tallies, NoOverdraft',
         NEW s \in Traders, CommitRun(s)
  PROVE  Abstract!BookTrades \/ UNCHANGED Abstract!ledger
  <1> DEFINE own == txn[s].trades
  <1> DEFINE of(c) == {t \in own : t.code = c}
  <1>0. s \in Sessions /\ txn[s] \in TxnType /\ pc[s] = "commit" /\ tally[s] \in TallyType
    BY DEF Sessions, TypeOK, CommitRun
  <1>1. /\ cash' = CashOf(s) /\ pos' = [c \in Codes |-> RowOf(s, c)]
        /\ trades' = trades \cup own
    BY DEF CommitRun, Apply
  <1>2. CashOf(s) = cash + tally[s].cash
        /\ \A c \in Codes : RowOf(s, c).qty = pos[c].qty + tally[s].qty[c]
    BY <1>0 DEF LockedLedger, Undisturbed
  <1>3. \A c \in Codes : pos'[c].qty = pos[c].qty + tally[s].qty[c]
    BY <1>1, <1>2
  <1>4. /\ IsFiniteSet(own) /\ tally[s].cash = Total(CashFlows, own)
        /\ \A c \in Codes : tally[s].qty[c] = Total(ShareFlows, of(c))
    BY DEF Tallies, Tallied
  <1>5. own \subseteq OrderType
    BY <1>0 DEF TxnType
  <1>6. trades' \ trades = own
    <2>1. \A t \in trades : pc[t.by] = "done"
      BY DEF Story, RunsTellTheTruth
    <2>2. \A t \in own : pc[t.by] = "commit"
      BY <1>0 DEF Story, OwnWork
    <2>3. own \cap trades = {}
      BY <2>1, <2>2
    <2>4. QED
      BY <1>1, <2>3
  <1>7. CASE own = {}
    <2>1. trades' = trades
      BY <1>1, <1>7
    <2>2. \A c \in Codes : of(c) = {}
      BY <1>7
    <2>3. tally[s].cash = 0 /\ \A c \in Codes : tally[s].qty[c] = 0
      BY <1>4, <1>7, <2>2, SumEmpty
    <2>4. cash' = cash /\ \A c \in Codes : pos'[c].qty = pos[c].qty
      BY <1>1, <1>2, <1>3, <2>3 DEF TypeOK, RowType
    <2>5. [c \in Codes |-> pos'[c].qty] = [c \in Codes |-> pos[c].qty]
      BY <2>4
    <2>6. QED
      BY <2>1, <2>4, <2>5 DEF Abstract!ledger
  <1>8. CASE own # {}
    <2>1. Abstract!MapThenSumSet(Abstract!CashFlow, own) = tally[s].cash
      BY <1>4, <1>5, AbstractCash
    <2>2. ASSUME NEW c \in Codes
          PROVE  Abstract!MapThenSumSet(Abstract!ShareFlow, of(c)) = tally[s].qty[c]
      <3>1. IsFiniteSet(of(c)) /\ of(c) \subseteq OrderType
        BY <1>4, <1>5, FS_Subset
      <3>2. QED
        BY <1>4, <3>1, AbstractShares
    <2>3. cash' = cash + Abstract!MapThenSumSet(Abstract!CashFlow, own)
      BY <1>1, <1>2, <2>1
    <2>4. [c \in Codes |-> pos'[c].qty]
            = [c \in Codes |-> [d \in Codes |-> pos[d].qty][c]
                                 + Abstract!MapThenSumSet(Abstract!ShareFlow, of(c))]
      BY <1>3, <2>2
    <2>5. cash' >= 0 /\ \A c \in Codes : pos'[c].qty >= 0
      BY DEF NoOverdraft, TypeOK, RowType
    <2>6. trades \subseteq trades'
      BY <1>1
    <2>7. QED
      BY <1>6, <1>8, <2>3, <2>4, <2>5, <2>6 DEF Abstract!BookTrades, Abstract!Booked
  <1>9. QED
    BY <1>7, <1>8

(* A commit of a bootstrap replaces the portfolio.                         *)
LEMMA LedgerCommitImport ==
  ASSUME TypeOK, TypeOK', Books, Story, NoOverdraft', NEW b \in Boots, CommitImport(b)
  PROVE  Abstract!Replace
  <1>0. pc[b] = "commit" /\ req[b] \in Imports
    BY DEF CommitImport, TypeOK, BootOK, Active
  <1>1. pos' = [c \in Codes |-> RowOf(b, c)] /\ trades' = trades \cup txn[b].trades
    BY DEF CommitImport, Apply
  <1>2. trades' = trades
    BY <1>1 DEF Story, NoStory
  <1>3. \A c \in Codes : pos'[c].qty = req[b].rows[c].qty
    BY <1>0, <1>1 DEF Books, BootBooks
  <1>4. [c \in Codes |-> pos'[c].qty] = [c \in Codes |-> req[b].rows[c].qty]
    BY <1>3
  <1>5. cash' \in Nat
    BY DEF TypeOK, NoOverdraft
  <1>6. [c \in Codes |-> req[b].rows[c].qty] \in { [c \in Codes |-> p.rows[c].qty] : p \in Imports }
    BY <1>0
  <1>7. [cash |-> cash', qty |-> [c \in Codes |-> pos'[c].qty]] \in Importable
    BY <1>4, <1>5, <1>6 DEF Importable
  <1>8. QED
    BY <1>2, <1>7 DEF Abstract!Replace

LEMMA LedgerStep ==
  ASSUME TypeOK, TypeOK', LockedLedger, Books, Story, Tallies, NoOverdraft', [Next]_vars
  PROVE  [Abstract!BookTrades \/ Abstract!Replace]_(Abstract!ledger)
  <1>1. ASSUME NEW s \in Traders, Run(s)
        PROVE  CommitRun(s) \/ UNCHANGED tables
    BY <1>1 DEF Run, StartRun, Evaluate, CannotEvaluate, Abandon, Record, Check, Size,
                Place, Find, FillBuy, FillSell, Settle
  <1>2. ASSUME NEW b \in Boots, Bootstrap(b)
        PROVE  CommitImport(b) \/ UNCHANGED tables
    BY <1>2 DEF Bootstrap, LoadAccount, Reset, Import
  <1>3. ASSUME NEW s \in Sessions, Fail(s) PROVE UNCHANGED tables
    BY <1>3 DEF Fail
  <1>4. CASE UNCHANGED vars
    BY <1>4, LedgerStutters DEF vars, tables
  <1>5. QED
    BY <1>1, <1>2, <1>3, <1>4, LedgerStutters, LedgerCommitRun, LedgerCommitImport DEF Next

(* With a write lock the trading core is a ledger, for any number of       *)
(* sessions, codes and prices: whatever the interleaving, the crashes and  *)
(* the failures, the committed portfolio moves only by booking the trades  *)
(* of one transaction, all of them and in full, or by being replaced by a  *)
(* bootstrap.                                                              *)
THEOREM TradingImplementsLedger == OrdinaryCharges /\ WriteLock /\ Spec => LedgerSpec
  <1> SUFFICES ASSUME OrdinaryCharges, WriteLock PROVE Spec => LedgerSpec
    OBVIOUS
  <1>1. Init => Abstract!Open
    BY TradingAssumption DEF Init, Abstract!Open, NoPosition
  <1>2. Spec => []Tallies
    <2>1. TypeOK /\ Story /\ Tallies /\ [Next]_vars => Tallies'
      BY TalliesNext
    <2>2. QED
      BY <2>1, TalliesInit, TradingTypeOK, StoryInvariant, PTL DEF Spec
  <1>3. Spec => []NoOverdraft
    BY TradingNoOverdraft
  <1>4. TypeOK /\ TypeOK' /\ LockedLedger /\ Books /\ Story /\ Tallies /\ NoOverdraft' /\ [Next]_vars
          => [Abstract!BookTrades \/ Abstract!Replace]_(Abstract!ledger)
    BY LedgerStep
  <1>5. QED
    BY <1>1, <1>2, <1>3, <1>4, BooksInvariant, StoryInvariant, PTL
       DEF Spec, LedgerSpec, Abstract!LedgerSpec
=============================================================================
