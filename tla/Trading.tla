-------------------------------- MODULE Trading --------------------------------
(***************************************************************************)
(* The paper-trading core: database sessions that read the account and the *)
(* positions, decide, fetch quotes over the network, and write back.       *)
(*                                                                         *)
(* Three kinds of session share one account:                               *)
(*   Jobs   runs of the daily automation (jobs/run_automation.py, started  *)
(*          by the scheduler or by POST /jobs/run/automation): all target  *)
(*          codes in one session, one commit at the end;                   *)
(*   Apis   POST /strategies/run requests: one code, one commit;           *)
(*   Boots  POST /portfolio/bootstrap requests, which replace the          *)
(*          portfolio.                                                     *)
(* Each session runs once.  The workspace has one user, so one account.    *)
(*                                                                         *)
(* A session's writes stay in its transaction (txn) until it commits.      *)
(* What a session has loaded into objects stays as it was loaded           *)
(* (exe[s].seen, exe[s].held): the ORM does not refresh it, and on flush   *)
(* it writes the columns whose value differs from the one it LOADED.       *)
(*                                                                         *)
(* WriteLock chooses the database.  TRUE is SQLite: the first flush of a   *)
(* session takes the one write lock, which it holds until it commits or    *)
(* rolls back.  FALSE is PostgreSQL at READ COMMITTED: an updated row is   *)
(* locked, reading waits for nobody.                                       *)
(***************************************************************************)
EXTENDS Charges, FiniteSets, FiniteSetsExt

CONSTANTS
  Jobs, Apis, Boots,   \* the sessions
  Codes,               \* stock codes
  Prices,              \* prices a quote can have
  Sizings,             \* [mode, quantity, pct] a request or a config can ask
  Imports,             \* bootstrap payloads: [cash, rows]
  OpeningCash,         \* the account when the behaviour starts
  ConfigMax,           \* max_open_positions of the automation config
  SettingsMax,         \* max_open_positions of the settings
  WriteLock,           \* TRUE: SQLite, FALSE: PostgreSQL
  NoQuote,             \* no quote, or a quote without a price
  NoRow,               \* id of a position row that does not exist
  Keep                 \* a column the transaction has not written

Traders == Jobs \cup Apis
Sessions == Traders \cup Boots

ASSUME TradingAssumption ==
  /\ Jobs \cap Apis = {} /\ Traders \cap Boots = {}
  /\ IsFiniteSet(Codes)
  /\ Prices \subseteq Nat \ {0}
  /\ NoQuote \notin Prices
  /\ NoRow \notin Sessions /\ Keep \notin Sessions \cup {NoRow}
  /\ Keep \notin Int
  /\ OpeningCash \in Nat
  /\ ConfigMax \in Nat \ {0} /\ SettingsMax \in Nat \ {0}
  /\ WriteLock \in BOOLEAN
  /\ \A z \in Sizings : /\ z.mode \in {FixedShares, CashPercent}
                        /\ z.quantity \in Nat \ {0}
                        /\ z.pct \in 1 .. 100
  /\ \A p \in Imports :
       /\ p.cash \in Nat
       /\ p.rows \in [Codes -> [qty : Nat, avg : Nat, price : Nat]]
       /\ \A c \in Codes : p.rows[c].qty > 0 => p.rows[c].avg > 0

VARIABLES
  \* committed tables
  cash,      \* accounts.available_cash
  value,     \* accounts.market_value and accounts.total_equity
  pos,       \* positions, one row at most per code
  runs,      \* strategy_runs with the execution status of their snapshot
  orders,    \* orders, all with status FILLED
  trades,    \* trades
  \* sessions
  pc,        \* where a session is
  locks,     \* the locks it holds in the database
  req,       \* what it was asked
  todo,      \* the codes it still has to run
  exe,       \* local variables and loaded objects of the run in progress
  txn,       \* its uncommitted writes
  worth,     \* market value and equity: as it loaded, and as it wrote them
  \* auxiliary: what the trade rows say, as opposed to what was stored
  tally,     \* per session, of the trades of its transaction
  book,      \* of the committed trades since the last bootstrap
  capital    \* what that bootstrap left: its cash and the cost of its positions

tables == <<cash, value, pos, runs, orders, trades, book, capital>>
vars == <<cash, value, pos, runs, orders, trades,
          pc, locks, req, todo, exe, txn, worth, tally, book, capital>>

-----------------------------------------------------------------------------
(* Records *)

NoPosition == [id |-> NoRow, qty |-> 0, cost |-> 0, price |-> 0, pnl |-> 0]
KeepRow == [id |-> Keep, qty |-> Keep, cost |-> Keep, price |-> Keep,
            pnl |-> Keep]

NoWrites ==
  [cash |-> Keep, pos |-> [c \in Codes |-> KeepRow], runs |-> {}, orders |-> {}, trades |-> {}]
NoTally == [cash |-> 0, qty |-> [c \in Codes |-> 0]]
NoRun ==
  [code |-> NoRow, signal |-> "HOLD", quantity |-> 0, price |-> NoQuote,
   seen |-> 0, held |-> NoPosition]
NoWorth == [mv |-> 0, eq |-> 0]
NotWritten == [mv |-> Keep, eq |-> Keep]
NoRequest == [execute |-> FALSE]

(* A column as the session sees it: its own write, else the committed one. *)
Col(own, stored) == IF own = Keep THEN stored ELSE own

(* Flushing an attribute: nothing is written when the new value equals the *)
(* loaded one.                                                             *)
Write(own, loaded, new) == IF new = loaded THEN own ELSE new

WriteRow(own, loaded, new) ==
  [id    |-> Write(own.id, loaded.id, new.id),
   qty   |-> Write(own.qty, loaded.qty, new.qty),
   cost  |-> Write(own.cost, loaded.cost, new.cost),
   price |-> Write(own.price, loaded.price, new.price),
   pnl   |-> Write(own.pnl, loaded.pnl, new.pnl)]

RowOf(s, c) ==
  LET own == txn[s].pos[c] IN
  [id    |-> Col(own.id, pos[c].id),
   qty   |-> Col(own.qty, pos[c].qty),
   cost  |-> Col(own.cost, pos[c].cost),
   price |-> Col(own.price, pos[c].price),
   pnl   |-> Col(own.pnl, pos[c].pnl)]

CashOf(s) == Col(txn[s].cash, cash)

WorthOf(s) == [mv |-> Col(worth[s].own.mv, value.mv),
               eq |-> Col(worth[s].own.eq, value.eq)]

(* The account is loaded into an object: its cash goes to exe[s].seen, its *)
(* two metrics here.                                                       *)
LoadWorth(s) == worth' = [worth EXCEPT ![s].seen = WorthOf(s)]

(* Mutant: the equity is refreshed before the market value is.             *)
WriteWorthStale(s, available, market) ==
  worth' = [worth EXCEPT
    ![s].own = [mv |-> Write(@.mv, worth[s].seen.mv, market),
                eq |-> Write(@.eq, worth[s].seen.eq, available + worth[s].seen.mv)]]

(* _refresh_account_metrics, given the cash and the positions' value.      *)
WriteWorth(s, available, market) ==
  worth' = [worth EXCEPT
    ![s].own = [mv |-> Write(@.mv, worth[s].seen.mv, market),
                eq |-> Write(@.eq, worth[s].seen.eq, available + market)]]

OpenCodes(rows) == { c \in Codes : rows[c].qty > 0 }

MarketValue(rows) == MapThenSumSet(LAMBDA c : rows[c].qty * rows[c].price, Codes)

-----------------------------------------------------------------------------
(* Locks *)

(* Mutant: the flush takes row locks only, whatever the database.          *)
AcquireRowsOnly(s, rows) ==
  /\ \A o \in Sessions \ {s} : locks[o] \cap rows = {}
  /\ locks' = [locks EXCEPT ![s] = @ \cup rows]

(* Take what a flush locks: the database, or in PostgreSQL the rows.       *)
Acquire(s, rows) ==
  LET wanted == IF WriteLock THEN {"db"} ELSE rows IN
  /\ \A o \in Sessions \ {s} : locks[o] \cap wanted = {}
  /\ locks' = [locks EXCEPT ![s] = @ \cup wanted]

AccountRow == "account"

-----------------------------------------------------------------------------

Init ==
  /\ cash = OpeningCash
  /\ value = [mv |-> 0, eq |-> OpeningCash]
  /\ pos = [c \in Codes |-> NoPosition]
  /\ runs = {} /\ orders = {} /\ trades = {}
  /\ pc = [s \in Sessions |-> "idle"]
  /\ locks = [s \in Sessions |-> {}]
  /\ req = [s \in Sessions |-> NoRequest]
  /\ todo = [s \in Sessions |-> {}]
  /\ exe = [s \in Sessions |-> NoRun]
  /\ txn = [s \in Sessions |-> NoWrites]
  /\ worth = [s \in Sessions |-> [seen |-> NoWorth, own |-> NotWritten]]
  /\ tally = [s \in Sessions |-> NoTally]
  /\ book = [cash |-> OpeningCash, qty |-> [c \in Codes |-> 0]]
  /\ capital = OpeningCash

Go(s, where) == pc' = [pc EXCEPT ![s] = where]

(* The next code of the session, or its commit when there is none left.    *)
NextCode(s, left) ==
  /\ todo' = [todo EXCEPT ![s] = left]
  /\ Go(s, IF left = {} THEN "commit" ELSE "evaluate")

(* A request or a job begins.  A job takes the codes of the trading pool   *)
(* and the sizing of its config, a request has a single code and may ask   *)
(* for the signal only.                                                    *)
StartRun(s) ==
  /\ pc[s] = "idle"
  /\ \E z \in Sizings, x \in BOOLEAN, targets \in SUBSET Codes :
       /\ s \in Jobs => x = TRUE
       /\ s \in Apis => Cardinality(targets) = 1
       /\ req' = [req EXCEPT ![s] = [execute |-> x, sizing |-> z]]
       /\ NextCode(s, targets)
  /\ UNCHANGED <<tables, locks, exe, txn, worth, tally>>

(* run_strategy up to the signal.  The strategy reads the price history    *)
(* and the position; any signal can come out of it.                        *)
Evaluate(s) ==
  /\ pc[s] = "evaluate"
  /\ \E c \in todo[s], signal \in {"BUY", "SELL", "HOLD"} :
       exe' = [exe EXCEPT ![s] = [NoRun EXCEPT !.code = c, !.signal = signal]]
  /\ Go(s, "record")
  /\ UNCHANGED <<tables, locks, req, todo, txn, worth, tally>>

(* StrategyServiceError: unknown strategy, stock not synced, no or too few *)
(* prices.  The automation goes on with the next code.  (The route rolls   *)
(* back and answers 400, which is Fail below.)                             *)
CannotEvaluate(s) ==
  /\ pc[s] = "evaluate" /\ s \in Jobs
  /\ \E c \in todo[s] : NextCode(s, todo[s] \ {c})
  /\ UNCHANGED <<tables, locks, req, exe, txn, worth, tally>>

(* The row of the strategy run, with its outcome: NONE when the snapshot   *)
(* says nothing of an execution.                                           *)
Outcome(s, status) ==
  [by |-> s, code |-> exe[s].code, signal |-> exe[s].signal, status |-> status]

(* The strategy run is complete: its row carries the outcome, and what it  *)
(* loaded goes out of scope.                                               *)
Finish(s, status, writes) ==
  /\ txn' = [txn EXCEPT ![s] = [writes EXCEPT !.runs = @ \cup {Outcome(s, status)}]]
  /\ exe' = [exe EXCEPT ![s] = NoRun]
  /\ NextCode(s, todo[s] \ {exe[s].code})

(* Any other exception of a strategy or of a quote (a field that is not a  *)
(* number): the automation catches it around the codes of the user, drops  *)
(* the ones that are left and COMMITS what has been flushed, the row of    *)
(* the run without an outcome included.                                    *)
Abandon(s) ==
  /\ s \in Jobs /\ pc[s] \in {"evaluate", "size", "place"}
  /\ txn' = [txn EXCEPT ![s].runs =
       IF pc[s] = "evaluate" THEN @ ELSE @ \cup {Outcome(s, "NONE")}]
  /\ exe' = [exe EXCEPT ![s] = NoRun]
  /\ NextCode(s, {})
  /\ UNCHANGED <<tables, locks, req, worth, tally>>

(* The strategy run is inserted and flushed: in SQLite this takes the      *)
(* write lock, after the signal was computed and before anything else.     *)
Record(s) ==
  /\ pc[s] = "record"
  /\ Acquire(s, {})
  /\ IF req[s].execute
     THEN Go(s, "check") /\ UNCHANGED <<todo, exe, txn>>
     ELSE Finish(s, "NONE", txn[s])
  /\ UNCHANGED <<tables, req, worth, tally>>

Limit(s) == IF s \in Jobs THEN ConfigMax ELSE SettingsMax

(* Mutants: a held code is bought again; the limit is off by one.          *)
SkippedUnlessFlat(s, row, open) ==
  \/ exe[s].signal = "HOLD"
  \/ exe[s].signal = "BUY" /\ Cardinality(open) >= Limit(s)
  \/ exe[s].signal = "SELL" /\ row.qty <= 0

SkippedPastLimit(s, row, open) ==
  \/ exe[s].signal = "HOLD"
  \/ exe[s].signal = "BUY" /\ (row.qty > 0 \/ Cardinality(open) > Limit(s))
  \/ exe[s].signal = "SELL" /\ row.qty <= 0

(* The signals that are not traded: HOLD, a second buy of a held code, a   *)
(* buy beyond the limit, a sale of nothing.                                *)
Skipped(s, row, open) ==
  \/ exe[s].signal = "HOLD"
  \/ exe[s].signal = "BUY" /\ (row.qty > 0 \/ Cardinality(open) >= Limit(s))
  \/ exe[s].signal = "SELL" /\ row.qty <= 0

(* Mutant: a sale is of one lot.                                           *)
CheckOneLot(s) ==
  LET row  == RowOf(s, exe[s].code)
      open == OpenCodes([c \in Codes |-> RowOf(s, c)])
  IN
  /\ pc[s] = "check"
  /\ \/ /\ Skipped(s, row, open)
        /\ Finish(s, "SKIPPED", txn[s])
     \/ /\ ~ Skipped(s, row, open)
        /\ exe' = [exe EXCEPT ![s].held = row, ![s].quantity = LotSize]
        /\ Go(s, IF exe[s].signal = "SELL" THEN "place" ELSE "size")
        /\ UNCHANGED <<todo, txn>>
  /\ UNCHANGED <<tables, locks, req, worth, tally>>

(* _apply_signal_to_portfolio up to the quantity of a sale, which is the   *)
(* whole position.  The position object loaded here is the one the order   *)
(* will change.                                                            *)
Check(s) ==
  LET row  == RowOf(s, exe[s].code)
      open == OpenCodes([c \in Codes |-> RowOf(s, c)])
  IN
  /\ pc[s] = "check"
  /\ \/ /\ Skipped(s, row, open)
        /\ Finish(s, "SKIPPED", txn[s])
     \/ /\ ~ Skipped(s, row, open)
        /\ exe' = [exe EXCEPT ![s].held = row,
                              ![s].quantity = IF exe[s].signal = "SELL"
                                              THEN row.qty ELSE 0]
        /\ Go(s, IF exe[s].signal = "SELL" THEN "place" ELSE "size")
        /\ UNCHANGED <<todo, txn>>
  /\ UNCHANGED <<tables, locks, req, worth, tally>>

(* A buy is sized on the cash of the account, loaded here, and on a        *)
(* preview quote.                                                          *)
Size(s) ==
  /\ pc[s] = "size"
  /\ \E price \in Prices \cup {NoQuote} :
       LET quantity == IF price = NoQuote THEN 0
                       ELSE ResolveBuyQuantity(CashOf(s), price, req[s].sizing)
       IN  IF quantity = 0
           THEN Finish(s, "FAILED", txn[s]) /\ UNCHANGED worth
           ELSE /\ exe' = [exe EXCEPT ![s].seen = CashOf(s),
                                      ![s].quantity = quantity]
                /\ LoadWorth(s)
                /\ Go(s, "place")
                /\ UNCHANGED <<todo, txn>>
  /\ UNCHANGED <<tables, locks, req, tally>>

(* Round lots are enforced on fixed_shares buys only.                      *)
BadLot(s) ==
  /\ exe[s].signal = "BUY" /\ req[s].sizing.mode = FixedShares
  /\ exe[s].quantity % LotSize # 0

(* place_market_order up to its first flush: a quote read again, which is  *)
(* the fill price, and an order row that is FILLED before anybody has      *)
(* looked at the cash.  The quote is the preview from the client's cache   *)
(* unless that has expired or another request has refreshed it: any quote. *)
(* The account is the object of the preview if there was one.              *)
Place(s) ==
  /\ pc[s] = "place"
  /\ \E price \in Prices \cup {NoQuote} :
       IF BadLot(s) \/ price = NoQuote
       THEN Finish(s, "FAILED", txn[s]) /\ UNCHANGED worth
       ELSE LET order == [by |-> s, code |-> exe[s].code,
                          side |-> exe[s].signal,
                          quantity |-> exe[s].quantity, price |-> price]
                loads == exe[s].signal = "SELL"
            IN  /\ txn' = [txn EXCEPT ![s].orders = @ \cup {order}]
                /\ exe' = [exe EXCEPT ![s].price = price,
                                      ![s].seen = IF loads THEN CashOf(s) ELSE @]
                /\ IF loads THEN LoadWorth(s) ELSE UNCHANGED worth
                /\ Go(s, "fill")
                /\ UNCHANGED todo
  /\ UNCHANGED <<tables, locks, req, tally>>

(* Mutant: the fee is left out of the cost.                                *)
BoughtWithoutFee(s, row) ==
  [row EXCEPT !.id = IF row.id = NoRow THEN s ELSE @,
              !.qty = @ + exe[s].quantity,
              !.cost = @ + exe[s].price * exe[s].quantity,
              !.price = exe[s].price]

(* The position after a buy of the whole order: a new row when there is    *)
(* none, and a cost that includes the fee.                                 *)
Bought(s, row) ==
  [row EXCEPT !.id = IF row.id = NoRow THEN s ELSE @,
              !.qty = @ + exe[s].quantity,
              !.cost = @ + BuyCost(exe[s].price, exe[s].quantity),
              !.price = exe[s].price]

(* What the shares that are left after a sale have cost: the average cost  *)
(* does not change, and is cleared with the last share.                    *)
CostLeft(row, left) ==
  IF left = 0 THEN 0 ELSE (row.cost * left) \div row.qty

(* The position after a sale.                                              *)
Sold(s, row) ==
  LET left == row.qty - exe[s].quantity IN
  [row EXCEPT !.qty = left,
              !.cost = CostLeft(row, left),
              !.price = exe[s].price,
              !.pnl = @ + SellProceeds(exe[s].price, exe[s].quantity)
                        - (row.cost - CostLeft(row, left))]

(* The position the fill selects again.  A row that is already loaded      *)
(* comes back as the object it was loaded into, whatever has been written  *)
(* to it since; another row (a portfolio was imported meanwhile) is fresh, *)
(* and there may be none any more.                                         *)
Found(s) ==
  LET now == RowOf(s, exe[s].code)
  IN  IF now.id = exe[s].held.id THEN exe[s].held ELSE now

(* Mutant: the cash is not compared with the cost.                         *)
RefusedOnCredit(s) ==
  /\ exe[s].signal = "SELL"
  /\ Found(s).id = NoRow \/ Found(s).qty < exe[s].quantity

(* What _execute_buy and _execute_sell refuse: the loaded cash does not    *)
(* pay for the buy; the position to sell is gone or too small.             *)
Refused(s) ==
  LET e == exe[s] IN
  \/ e.signal = "BUY" /\ e.seen < BuyCost(e.price, e.quantity)
  \/ e.signal = "SELL" /\ (Found(s).id = NoRow \/ Found(s).qty < e.quantity)

(* Mutant: a refused fill is reported as skipped.                          *)
FindSkips(s) ==
  /\ pc[s] = "fill"
  /\ \/ /\ Refused(s)
        /\ Finish(s, "SKIPPED", txn[s])
     \/ /\ ~ Refused(s)
        /\ exe' = [exe EXCEPT ![s].held = Found(s)]
        /\ Go(s, "settle")
        /\ UNCHANGED <<todo, txn>>
  /\ UNCHANGED <<tables, locks, req, worth, tally>>

(* The fill up to the position it changes.  The order row stays when the   *)
(* fill is refused: the error is caught and the session goes on to its     *)
(* commit.                                                                 *)
Find(s) ==
  /\ pc[s] = "fill"
  /\ \/ /\ Refused(s)
        /\ Finish(s, "FAILED", txn[s])
     \/ /\ ~ Refused(s)
        /\ exe' = [exe EXCEPT ![s].held = Found(s)]
        /\ Go(s, "settle")
        /\ UNCHANGED <<todo, txn>>
  /\ UNCHANGED <<tables, locks, req, worth, tally>>

(* The flush of a fill: position, cash, trade, then market value and       *)
(* equity.  The row must still be the one that was found (an UPDATE that   *)
(* matches no row raises, and so does a second row of the code) and the    *)
(* locks must be free.                                                     *)
Settle(s, row, paid, moved) ==
  LET e      == exe[s]
      c      == e.code
      new    == e.seen - paid
      trade  == [by |-> s, code |-> c, side |-> e.signal,
                 quantity |-> e.quantity, price |-> e.price]
      market == MarketValue([d \in Codes |-> IF d = c THEN row ELSE RowOf(s, d)])
  IN  /\ pc[s] = "settle"
      /\ e.held.id = RowOf(s, c).id
      /\ Acquire(s, {AccountRow, c})
      /\ Finish(s, "APPLIED",
           [txn[s] EXCEPT !.cash = Write(@, e.seen, new),
                          !.pos[c] = WriteRow(@, e.held, row),
                          !.trades = @ \cup {trade}])
      /\ WriteWorth(s, new, market)
      /\ tally' = [tally EXCEPT ![s].cash = @ - paid, ![s].qty[c] = @ + moved]
      /\ UNCHANGED <<tables, req>>

(* The rest of _execute_buy, on the position found or on a new one.        *)
FillBuy(s) ==
  LET e == exe[s] IN
  /\ e.signal = "BUY"
  /\ Settle(s, Bought(s, e.held), BuyCost(e.price, e.quantity), e.quantity)

(* Mutant: a sale pays the gross amount.                                   *)
FillSellGross(s) ==
  LET e == exe[s] IN
  /\ e.signal = "SELL"
  /\ Settle(s, Sold(s, e.held), - e.price * e.quantity, - e.quantity)

(* The rest of _execute_sell.                                              *)
FillSell(s) ==
  LET e == exe[s] IN
  /\ e.signal = "SELL"
  /\ Settle(s, Sold(s, e.held), - SellProceeds(e.price, e.quantity), - e.quantity)

-----------------------------------------------------------------------------
(* Bootstrap *)

Imported(p) == { c \in Codes : p.rows[c].qty > 0 }

(* The account is loaded, before any lock is taken.                        *)
LoadAccount(b) ==
  /\ pc[b] = "idle"
  /\ \E p \in Imports : req' = [req EXCEPT ![b] = p]
  /\ exe' = [exe EXCEPT ![b].seen = CashOf(b)]
  /\ LoadWorth(b)
  /\ Go(b, "reset")
  /\ UNCHANGED <<tables, locks, todo, txn, tally>>

(* The DELETE of the positions and the flush after it.                     *)
Reset(b) ==
  LET loaded  == exe[b].seen
      deleted == { c \in Codes : pos[c].id # NoRow }
  IN
  /\ pc[b] = "reset"
  /\ Acquire(b, deleted \cup
                 (IF req[b].cash = loaded THEN {} ELSE {AccountRow}))
  /\ txn' = [txn EXCEPT
       ![b].cash = Write(@, loaded, req[b].cash),
       ![b].pos = [c \in Codes |-> IF c \in deleted THEN NoPosition ELSE KeepRow]]
  /\ Go(b, "import")
  /\ UNCHANGED <<tables, req, todo, exe, worth, tally>>

(* The imported positions and the metrics, in a second flush.  A row that  *)
(* somebody else has committed for the same code is a unique violation.    *)
Import(b) ==
  LET rows == [c \in Codes |->
                 [id |-> b, qty |-> req[b].rows[c].qty,
                  cost |-> req[b].rows[c].qty * req[b].rows[c].avg,
                  price |-> req[b].rows[c].price, pnl |-> 0]]
      market == MarketValue(rows)
  IN
  /\ pc[b] = "import"
  /\ \A c \in Imported(req[b]) : RowOf(b, c).id = NoRow
  /\ Acquire(b, Imported(req[b]) \cup {AccountRow})
  /\ txn' = [txn EXCEPT
       ![b].pos = [c \in Codes |-> IF c \in Imported(req[b]) THEN rows[c] ELSE @[c]]]
  /\ WriteWorth(b, req[b].cash, market)
  /\ Go(b, "commit")
  /\ UNCHANGED <<tables, req, todo, exe, tally>>

-----------------------------------------------------------------------------
(* The end of a session *)

(* Mutant: the locks survive the session.                                  *)
CloseKeepsLocks(s, how) ==
  /\ Go(s, how)
  /\ req' = [req EXCEPT ![s] = NoRequest]
  /\ todo' = [todo EXCEPT ![s] = {}]
  /\ exe' = [exe EXCEPT ![s] = NoRun]
  /\ txn' = [txn EXCEPT ![s] = NoWrites]
  /\ worth' = [worth EXCEPT ![s] = [seen |-> NoWorth, own |-> NotWritten]]
  /\ tally' = [tally EXCEPT ![s] = NoTally]
  /\ UNCHANGED locks

(* What every session drops when it ends.                                  *)
Close(s, how) ==
  /\ Go(s, how)
  /\ locks' = [locks EXCEPT ![s] = {}]
  /\ req' = [req EXCEPT ![s] = NoRequest]
  /\ todo' = [todo EXCEPT ![s] = {}]
  /\ exe' = [exe EXCEPT ![s] = NoRun]
  /\ txn' = [txn EXCEPT ![s] = NoWrites]
  /\ worth' = [worth EXCEPT ![s] = [seen |-> NoWorth, own |-> NotWritten]]
  /\ tally' = [tally EXCEPT ![s] = NoTally]

Apply(s) ==
  /\ cash' = CashOf(s)
  /\ value' = WorthOf(s)
  /\ pos' = [c \in Codes |-> RowOf(s, c)]
  /\ runs' = runs \cup txn[s].runs
  /\ orders' = orders \cup txn[s].orders
  /\ trades' = trades \cup txn[s].trades

CommitRun(s) ==
  /\ pc[s] = "commit"
  /\ Apply(s)
  /\ book' = [book EXCEPT !.cash = @ + tally[s].cash,
                          !.qty = [c \in Codes |-> @[c] + tally[s].qty[c]]]
  /\ UNCHANGED capital
  /\ Close(s, "done")

CommitImport(b) ==
  /\ pc[b] = "commit"
  /\ Apply(b)
  /\ book' = [cash |-> cash', qty |-> [c \in Codes |-> pos'[c].qty]]
  /\ capital' = cash' + MapThenSumSet(LAMBDA c : pos'[c].cost, Codes)
  /\ Close(b, "done")

Active(s) == pc[s] \notin {"idle", "done", "failed"}

(* Anything else that ends a session: a statement or the commit fails      *)
(* (SQLite's "database is locked" after 30 seconds, a lost connection, a   *)
(* unique or stale-row violation, a deadlock victim), the metadata service *)
(* fails during an import, a request's StrategyServiceError, or the        *)
(* process dies.  The exception of a flush inside the automation is caught *)
(* per user, but leaves the session unable to commit, so that run is       *)
(* rolled back as well.                                                    *)
Fail(s) ==
  /\ Active(s)
  /\ Close(s, "failed")
  /\ UNCHANGED tables

Run(s) ==
  \/ StartRun(s) \/ Evaluate(s) \/ CannotEvaluate(s) \/ Abandon(s)
  \/ Record(s) \/ Check(s) \/ Size(s) \/ Place(s) \/ Find(s)
  \/ FillBuy(s) \/ FillSell(s) \/ CommitRun(s)

Bootstrap(b) == LoadAccount(b) \/ Reset(b) \/ Import(b) \/ CommitImport(b)

Next ==
  \/ \E s \in Traders : Run(s)
  \/ \E b \in Boots : Bootstrap(b)
  \/ \E s \in Sessions : Fail(s)

Spec == Init /\ [][Next]_vars

(* A session that has begun is a running thread: it takes its next step    *)
(* unless the database makes it wait.  Nothing makes a session begin, and  *)
(* nothing is assumed about failures.                                      *)
FairSpec ==
  /\ Spec
  /\ \A s \in Traders : WF_vars(Active(s) /\ Run(s))
  /\ \A b \in Boots : WF_vars(Active(b) /\ Bootstrap(b))

-----------------------------------------------------------------------------
(* Properties *)

RowType == [id : Sessions \cup {NoRow}, qty : Nat, cost : Nat, price : Nat,
            pnl : Int]
Writes ==
  [id : Sessions \cup {NoRow, Keep}, qty : Nat \cup {Keep},
   cost : Nat \cup {Keep}, price : Nat \cup {Keep}, pnl : Int \cup {Keep}]
OrderType ==
  [by : Traders, code : Codes, side : {"BUY", "SELL"}, quantity : Nat,
   price : Prices]
RunType ==
  [by : Traders, code : Codes, signal : {"BUY", "SELL", "HOLD"},
   status : {"NONE", "SKIPPED", "FAILED", "APPLIED"}]
ExeType ==
  [code : Codes \cup {NoRow}, signal : {"BUY", "SELL", "HOLD"}, quantity : Nat,
   price : Prices \cup {NoQuote}, seen : Int, held : RowType]
TxnType ==
  [cash : Int \cup {Keep}, pos : [Codes -> Writes], runs : SUBSET RunType,
   orders : SUBSET OrderType, trades : SUBSET OrderType]
TallyType == [cash : Int, qty : [Codes -> Int]]
Runs == [execute : BOOLEAN, sizing : Sizings]
Places == {"idle", "evaluate", "record", "check", "size", "place", "fill",
           "settle", "reset", "import", "commit", "done", "failed"}

(* What a session has at each place of its code.                           *)
TraderOK(s) ==
  /\ pc[s] \notin {"reset", "import"}
  /\ Active(s) => req[s] \in Runs
  /\ pc[s] \in {"record", "check", "size", "place", "fill", "settle"} =>
       exe[s].code \in Codes
  /\ pc[s] = "size" => exe[s].signal = "BUY"
  /\ pc[s] \in {"place", "fill", "settle"} => exe[s].signal \in {"BUY", "SELL"}
  /\ pc[s] \in {"fill", "settle"} => exe[s].price \in Prices
  /\ pc[s] = "settle" /\ exe[s].signal = "SELL" =>
       exe[s].quantity <= exe[s].held.qty

BootOK(b) ==
  /\ pc[b] \in {"idle", "reset", "import", "commit", "done", "failed"}
  /\ Active(b) => req[b] \in Imports

(* The types of everything but the stored market value and equity.         *)
TypeOK ==
  /\ cash \in Int
  /\ pos \in [Codes -> RowType]
  /\ runs \subseteq RunType /\ orders \subseteq OrderType /\ trades \subseteq OrderType
  /\ pc \in [Sessions -> Places]
  /\ locks \in [Sessions -> SUBSET (Codes \cup {AccountRow, "db"})]
  /\ req \in [Sessions -> {NoRequest} \cup Runs \cup Imports]
  /\ todo \in [Sessions -> SUBSET Codes]
  /\ exe \in [Sessions -> ExeType]
  /\ txn \in [Sessions -> TxnType]
  /\ tally \in [Sessions -> TallyType]
  /\ book \in TallyType
  /\ \A s \in Traders : TraderOK(s)
  /\ \A b \in Boots : BootOK(b)

(* The committed account and positions are what the committed trades since *)
(* the last bootstrap make of what it left: no concurrent session's fill   *)
(* is overwritten.  It needs the write lock of SQLite: fills write absolute*)
(* values computed from values loaded earlier.                             *)
LedgerBalanced ==
  /\ cash = book.cash
  /\ \A c \in Codes : pos[c].qty = book.qty[c]

Holds(s) == "db" \in locks[s]

(* Why the write lock keeps the ledger balanced: whoever has written, or   *)
(* has loaded what it is about to write back, holds the one lock, so what  *)
(* it loaded is still there.                                               *)
Undisturbed(s) ==
  /\ ~ Holds(s) => /\ txn[s].cash = Keep
                   /\ \A c \in Codes : txn[s].pos[c] = KeepRow
                   /\ tally[s] = NoTally
  /\ pc[s] \in {"check", "size", "place", "fill", "settle", "import"} => Holds(s)
  /\ s \in Boots /\ pc[s] = "commit" => Holds(s)
  /\ s \in Traders =>
       /\ CashOf(s) = cash + tally[s].cash
       /\ \A c \in Codes : RowOf(s, c).qty = pos[c].qty + tally[s].qty[c]
       /\ pc[s] \in {"size", "place", "fill", "settle"} =>
            exe[s].held = RowOf(s, exe[s].code)
       /\ pc[s] \in {"fill", "settle"} \/ (pc[s] = "place" /\ exe[s].signal = "BUY") =>
            exe[s].seen = CashOf(s)

(* One session at a time writes, the others have nothing pending, and the  *)
(* committed tables balance.                                               *)
LockedLedger ==
  /\ \A s, o \in Sessions : Holds(s) /\ Holds(o) => s = o
  /\ \A s \in Sessions : Undisturbed(s)
  /\ LedgerBalanced

(* Money is neither made nor lost by trading: cash plus the cost of what   *)
(* is held, less the profit booked, is what the last bootstrap left.  Fees *)
(* and taxes have to be in the cost and in the profit for this to hold.    *)
ValueConserved ==
  cash + MapThenSumSet(LAMBDA c : pos[c].cost - pos[c].pnl, Codes) = capital

(* Until a bootstrap sets them from what it was given, the stored market   *)
(* value and equity are those of the stored positions and cash.            *)
EquityConsistent ==
  (\A b \in Boots : pc[b] # "done") =>
    /\ value.mv = MarketValue(pos)
    /\ value.eq = cash + value.mv

(* Whatever the database does, nobody spends money the account does not    *)
(* have.  A buy is sized on the cash and the quote of a preview, and paid  *)
(* at another quote, other sessions having committed in between.           *)
NoOverdraft == cash >= 0

(* What a session has written is solvent, and so is what it has loaded; at *)
(* its flush a buy is paid for by the cash it has loaded.                  *)
SolventRun(s) ==
  LET e == exe[s] IN
  /\ txn[s].cash # Keep => txn[s].cash >= 0
  /\ e.seen >= 0
  /\ pc[s] \in {"place", "fill", "settle"} => e.quantity > 0
  /\ pc[s] = "settle" /\ e.signal = "BUY" => BuyCost(e.price, e.quantity) <= e.seen

(* Why nobody overdraws, even without a write lock: the cash is decided on *)
(* an object that was itself solvent when it was loaded.                   *)
Solvent == cash >= 0 /\ \A s \in Sessions : SolventRun(s)

(* What is committed of a strategy run tells one story: APPLIED exactly    *)
(* when its trade exists, no trade without an order, and an order without  *)
(* a trade (which the code leaves behind, marked FILLED, when the fill is  *)
(* refused) only next to a run of its side that says FAILED.  A session    *)
(* that failed, whatever it had done by then, has left none of them.       *)
RunsTellTheTruth ==
  /\ \A x \in runs \cup orders \cup trades : pc[x.by] = "done"
  /\ \A r \in runs :
       r.status = "APPLIED" <=>
         \E t \in trades : t.by = r.by /\ t.code = r.code /\ t.side = r.signal
  /\ trades \subseteq orders
  /\ \A o \in orders \ trades :
       \E r \in runs : /\ r.by = o.by /\ r.code = o.code
                       /\ r.signal = o.side /\ r.status = "FAILED"

(* A buy is committed only on a code that was not held.                    *)
NoDoubleBuy ==
  [][ \A t \in trades' \ trades : t.side = "BUY" => pos[t.code].qty = 0 ]_vars

(* A run of the automation never raises the number of open positions above *)
(* its limit, and a request never above that of the settings.              *)
OpensWithinLimit ==
  [][ \A s \in Traders :
        (\E t \in trades' \ trades : t.by = s /\ t.side = "BUY") =>
          Cardinality(OpenCodes(pos')) <= Limit(s) ]_vars

(* A sale closes the position it was made for.                             *)
SaleCloses ==
  [][ \A t \in trades' \ trades :
        t.side = "SELL" => /\ pos[t.code].qty = t.quantity
                           /\ pos'[t.code].qty = 0 ]_vars

(* Every session that begins ends, and nobody waits for the write lock for *)
(* ever.                                                                   *)
SessionsEnd ==
  \A s \in Sessions : Active(s) ~> pc[s] \in {"done", "failed"}

(* The account and the positions as a ledger, whose portfolio can be       *)
(* replaced by an imported one.                                            *)
Importable ==
  [cash : Nat, qty : { [c \in Codes |-> p.rows[c].qty] : p \in Imports }]
Abstract ==
  INSTANCE Ledger WITH Portfolios <- Importable,
                       qty <- [c \in Codes |-> pos[c].qty]
LedgerSpec == Abstract!LedgerSpec

(* The automation holds no more stocks at a time than it is configured to. *)
AtMostConfigured == Cardinality(OpenCodes(pos)) <= ConfigMax
=============================================================================
