------------------------------ MODULE HistorySync ------------------------------
(***************************************************************************)
(* Synchronisation of daily bars: market_data_service.py run by the 14:10  *)
(* job (jobs/sync_workspace_data.py) and by POST /jobs/sync/history and    *)
(* /jobs/sync/history-range.                                               *)
(*                                                                         *)
(* A batch goes through its codes.  It skips a code whose cached bars      *)
(* already cover the window up to an effective end, else it fetches the    *)
(* window from the exchange and upserts what it got, one commit per code.  *)
(* The exchange publishes the bar of a trading day after the close; a      *)
(* suspended stock has none.  Its answer need not be complete: a month     *)
(* without tables is an empty list and a short row is dropped, neither is  *)
(* an error, and the batch reports the code as synced or skipped.          *)
(*                                                                         *)
(* A bar is only its day.  The days are those of one year, so one entry of *)
(* the holiday cache.  Two batches that upsert the same bars are           *)
(* serialised by the database or one of them fails, so an upsert is one    *)
(* step.                                                                   *)
(***************************************************************************)
EXTENDS Integers, FiniteSets

CONSTANTS
  Codes,       \* stock codes
  LastDay,     \* bound: the days are 1 .. LastDay
  Month,       \* the first and the last day of the month of each day
  Weekend,     \* Saturdays and Sundays
  Holidays,    \* days of the exchange's holiday schedule
  MaxGap,      \* HISTORY_COVERAGE_MAX_GAP_DAYS
  Close,       \* the scheduled job
  Manual,      \* batches started by a request, each runs at most once
  Windows,     \* the windows <<from, to>> a request can ask
  NoCode       \* no code in hand

Days == 1 .. LastDay
Batches == {Close} \cup Manual
TradingDays == Days \ (Weekend \cup Holidays)
Clocks == {"morning", "afternoon", "evening"}   \* before the close, before 18:00, after
Answers == {"synced", "skipped", "failed"}

ASSUME HistoryAssumption ==
  /\ LastDay \in Nat \ {0}
  /\ Month \in [Days -> [first : Days, last : Days]]
  /\ \A d \in Days : Month[d].first =< d /\ d =< Month[d].last
  /\ Weekend \subseteq Days /\ Holidays \subseteq Days
  /\ MaxGap \in Nat
  /\ Close \notin Manual
  /\ NoCode \notin Codes
  /\ Windows \subseteq Days \X Days

VARIABLES
  day, clock,     \* the wall clock
  published,      \* the bars the exchange has, by code
  bars,           \* table daily_prices, by code
  calendar,       \* TradingCalendarService._holiday_cache of the year
  closeDay,       \* the last day the scheduled job fired
  batch,          \* the batches and their local variables
  due,            \* ghost: bars of past days a batch has vouched for, by code
  served          \* ghost: bars of its own day the job has vouched for, by code

vars == <<day, clock, published, bars, calendar, closeDay, batch, due, served>>

Idle == [pc |-> "idle", from |-> 1, to |-> LastDay, todo |-> {}, code |-> NoCode,
         asOf |-> 1, found |-> {}, asked |-> {},
         answer |-> [c \in {} |-> "failed"]]

BatchType ==
  [pc : {"idle", "codes", "fetch", "store", "done"}, from : Days, to : Days,
   todo : SUBSET Codes, code : Codes \cup {NoCode}, asOf : Days,
   found : SUBSET Days, asked : SUBSET Codes,
   answer : UNION {[S -> Answers] : S \in SUBSET Codes}]

Fetching(b) == batch[b].pc \in {"fetch", "store"}

WorldOK ==
  /\ day \in Days /\ clock \in Clocks
  /\ published \in [Codes -> SUBSET Days] /\ bars \in [Codes -> SUBSET Days]
  /\ calendar \in {"unknown", "loaded", "blank"}
  /\ closeDay \in 0 .. LastDay
  /\ due \in [Codes -> SUBSET Days] /\ served \in [Codes -> SUBSET Days]

TypeOK ==
  /\ WorldOK
  /\ batch \in [Batches -> BatchType]
  /\ \A b \in Batches : /\ batch[b].todo \subseteq batch[b].asked
                        /\ DOMAIN batch[b].answer \subseteq batch[b].asked
                        /\ Fetching(b) => batch[b].code \in batch[b].todo

Init ==
  /\ day = 1 /\ clock = "morning"
  /\ published = [c \in Codes |-> {}]
  /\ bars = [c \in Codes |-> {}]
  /\ calendar = "unknown"
  /\ closeDay = 0
  /\ batch = [b \in Batches |-> Idle]
  /\ due = [c \in Codes |-> {}]
  /\ served = [c \in Codes |-> {}]

-----------------------------------------------------------------------------
(* The world: the clock and the exchange.                                  *)

Tick ==
  /\ \/ clock = "morning" /\ clock' = "afternoon" /\ day' = day
     \/ clock = "afternoon" /\ clock' = "evening" /\ day' = day
     \/ clock = "evening" /\ day < LastDay /\ clock' = "morning" /\ day' = day + 1
  /\ UNCHANGED <<published, bars, calendar, closeDay, batch, due, served>>

Publish(c) ==
  /\ day \in TradingDays /\ clock # "morning" /\ day \notin published[c]
  /\ published' = [published EXCEPT ![c] = @ \cup {day}]
  /\ UNCHANGED <<day, clock, bars, calendar, closeDay, batch, due, served>>

-----------------------------------------------------------------------------
(* The calendar.  The holiday schedule is fetched when it is not cached;   *)
(* an answer without rows is cached as if there were no holidays, an error *)
(* is not cached.                                                          *)

Consulted == IF calendar = "unknown" THEN {"loaded", "blank", "error"} ELSE {calendar}

Cached(cal) == IF cal = "error" THEN calendar ELSE cal

IsTradingDay(d, cal) == d \notin Weekend /\ (cal = "blank" \/ d \notin Holidays)

-----------------------------------------------------------------------------
(* Coverage of a window by the cached bars.                                *)

(* Mutant: the end of the window is exclusive and yesterday is left out.   *)
CoverageEndEarly(to) == IF to >= day THEN day - 2 ELSE to

CoverageEnd(to) ==
  IF to >= day THEN IF clock = "evening" THEN day ELSE day - 1 ELSE to

\* The fallback without a calendar: no gap above MaxGap.
NoGap(dates, from, to) ==
  /\ \E d \in dates : d - from =< MaxGap
  /\ \A d \in dates : to - d =< MaxGap \/ \E e \in dates : d < e /\ e - d =< MaxGap

Covered(c, from, to, cal) ==
  LET dates == bars[c] \cap (from .. to)
  IN  /\ dates # {}
      /\ IF cal = "error" THEN NoGap(dates, from, to)
         ELSE {d \in from .. to : IsTradingDay(d, cal)} \subseteq dates

\* The calendar is asked only for weekdays, and only when there are bars to compare.
Asks(c, from, to) == bars[c] \cap (from .. to) # {} /\ ~ (from .. to) \subseteq Weekend

-----------------------------------------------------------------------------
(* Batches.                                                                *)

Started(from, to, codes) ==
  [Idle EXCEPT !.pc = "codes", !.from = from, !.to = to, !.todo = codes, !.asked = codes]

(* Mutant: the result is kept under the code in hand.                      *)
AnsweredInHand(b, c, a) ==
  [batch EXCEPT ![b].pc = "codes", ![b].code = NoCode, ![b].todo = @ \ {c},
                ![b].asOf = 1, ![b].found = {},
                ![b].answer = [x \in DOMAIN @ \cup {batch[b].code} |-> a]]

Answered(b, c, a) ==
  [batch EXCEPT ![b].pc = "codes", ![b].code = NoCode, ![b].todo = @ \ {c},
                ![b].asOf = 1, ![b].found = {},
                ![b].answer = [x \in DOMAIN @ \cup {c} |-> IF x = c THEN a ELSE @[x]]]

\* Batch b reports code c without a failure: it vouches for these bars of the days up
\* to the one it looked at the code.
Vouch(b, c, some, asOf) ==
  /\ due' = [due EXCEPT ![c] = @ \cup {d \in some : d < asOf}]
  /\ served' = [served EXCEPT ![c] = @ \cup IF b = Close THEN some \cap {asOf} ELSE {}]

\* run_close_sync_workspace_data_job, at 14:10.  The calendar is asked first; a
\* weekend needs no schedule, an error ends the job.
StartClose ==
  /\ clock = "afternoon" /\ closeDay < day
  /\ batch[Close].pc \in {"idle", "done"}
  /\ closeDay' = day
  /\ \E cal \in IF day \in Weekend THEN {calendar} ELSE Consulted :
       /\ calendar' = Cached(cal)
       /\ batch' = [batch EXCEPT ![Close] =
                      IF cal # "error" /\ IsTradingDay(day, cal)
                      THEN Started(Month[day].first, Month[day].last, Codes) ELSE Idle]
  /\ UNCHANGED <<day, clock, published, bars, due, served>>

\* POST /jobs/sync/history and /jobs/sync/history-range.
StartManual(b) ==
  /\ batch[b].pc = "idle"
  /\ \E w \in Windows, codes \in (SUBSET Codes) \ {{}} :
       batch' = [batch EXCEPT ![b] = Started(w[1], w[2], codes)]
  /\ UNCHANGED <<day, clock, published, bars, calendar, closeDay, due, served>>

\* _has_complete_trading_day_coverage: skip the code or go on to fetch it.  A skip
\* says that the database has all there is.
Cover(b, c) ==
  LET from == batch[b].from
      last == CoverageEnd(batch[b].to)
      all  == published[c] \cap (from .. batch[b].to)
  IN
  /\ batch[b].pc = "codes" /\ c \in batch[b].todo
  /\ \E cal \in IF Asks(c, from, last) THEN Consulted ELSE {calendar} :
       /\ calendar' = Cached(cal)
       /\ \/ /\ Covered(c, from, last, cal)
             /\ batch' = Answered(b, c, "skipped")
             /\ IF cal = "error" THEN UNCHANGED <<due, served>> ELSE Vouch(b, c, all, day)
          \/ /\ ~ Covered(c, from, last, cal)
             /\ batch' = [batch EXCEPT ![b].pc = "fetch", ![b].code = c, ![b].asOf = day]
             /\ UNCHANGED <<due, served>>
  /\ UNCHANGED <<day, clock, published, bars, closeDay>>

\* get_history_range, or the fetch of a month: whatever part of the published bars of
\* the window the exchange answers with.
Fetch(b) ==
  /\ batch[b].pc = "fetch"
  /\ \E found \in SUBSET (published[batch[b].code] \cap (batch[b].from .. batch[b].to)) :
       batch' = [batch EXCEPT ![b].pc = "store", ![b].found = found]
  /\ UNCHANGED <<day, clock, published, bars, calendar, closeDay, due, served>>

\* upsert_daily_prices and the commit of the code.  The batch vouches for what it got.
Store(b) ==
  LET c == batch[b].code
      new == batch[b].found \ bars[c]
  IN
  /\ batch[b].pc = "store"
  /\ bars' = [bars EXCEPT ![c] = @ \cup new]
  /\ batch' = Answered(b, c, IF new = {} THEN "skipped" ELSE "synced")
  /\ Vouch(b, c, batch[b].found, batch[b].asOf)
  /\ UNCHANGED <<day, clock, published, calendar, closeDay>>

\* The code a batch may fail at: the one in hand, or the next while it is compared
\* with the cache.
AtCode(b, c) ==
  \/ Fetching(b) /\ c = batch[b].code
  \/ batch[b].pc = "codes" /\ c \in batch[b].todo

(* Mutant: the exception ends the loop over the codes.                     *)
FailStops(b, c) ==
  /\ AtCode(b, c)
  /\ batch' = [Answered(b, c, "failed") EXCEPT ![b].todo = {}]
  /\ UNCHANGED <<day, clock, published, bars, calendar, closeDay, due, served>>

\* An exception of the exchange or of the database: the code is rolled back.
Fail(b, c) ==
  /\ AtCode(b, c)
  /\ batch' = Answered(b, c, "failed")
  /\ UNCHANGED <<day, clock, published, bars, calendar, closeDay, due, served>>

Finish(b) ==
  /\ batch[b].pc = "codes" /\ batch[b].todo = {}
  /\ batch' = [batch EXCEPT ![b] = [Idle EXCEPT !.pc = "done", !.asked = batch[b].asked,
                                               !.answer = batch[b].answer]]
  /\ UNCHANGED <<day, clock, published, bars, calendar, closeDay, due, served>>

\* The process dies and starts again: what was committed stays.
Restart ==
  /\ batch' = [b \in Batches |-> IF b = Close THEN Idle
                                 ELSE IF batch[b].pc \in {"idle", "done"} THEN batch[b]
                                 ELSE [Idle EXCEPT !.pc = "done"]]
  /\ calendar' = "unknown"
  /\ UNCHANGED <<day, clock, published, bars, closeDay, due, served>>

Step(b) == \/ \E c \in Codes : Cover(b, c) \/ Fail(b, c)
           \/ Fetch(b) \/ Store(b) \/ Finish(b)

Next ==
  \/ Tick
  \/ \E c \in Codes : Publish(c)
  \/ StartClose
  \/ \E b \in Manual : StartManual(b)
  \/ \E b \in Batches : Step(b)
  \/ Restart

Spec == Init /\ [][Next]_vars

-----------------------------------------------------------------------------
(* A code is only skipped over what is there: once a batch has skipped a   *)
(* code on the word of its calendar, the database has every bar of a past  *)
(* day of the window that the exchange had published when the batch        *)
(* looked, whatever the phase of the day, the state of the holiday cache,  *)
(* the batches running beside it and the restarts in between; and what a   *)
(* batch has fetched and reported is there as well.  In particular a bar   *)
(* that an earlier sync failed to get, or that the exchange left out of    *)
(* its answer, is asked for again by the sync of each later day of the     *)
(* month: no batch takes the hole for coverage.                            *)
NothingOverdue == \A c \in Codes : due[c] \subseteq bars[c]

(* A batch that ended by itself has given exactly one answer for each code *)
(* it was asked for: a code that fails does not take others with it.       *)
EveryCodeAnswered ==
  \A b \in Batches : batch[b].pc = "done" => DOMAIN batch[b].answer = batch[b].asked

(* README.md:25-27: after the 14:10 update "the latest data is available   *)
(* for the next day": on the next morning the database has each bar that   *)
(* was published when the job reported its code without a failure.         *)
LatestForTomorrow ==
  clock = "morning" => \A c \in Codes : served[c] \subseteq bars[c]
================================================================================
