-------------------------------- MODULE Quotes --------------------------------
(***************************************************************************)
(* The quote client of services/twstock_client.py as the threads of one    *)
(* server process use it: the limiter of requests to the exchange, the     *)
(* retries of a realtime quote, the short-lived quote cache and the last   *)
(* price known of a code.                                                  *)
(*                                                                         *)
(* The calls for a quote are all for one code: the caches hold one entry   *)
(* per code and codes meet in the limiter only, where the months that a    *)
(* history call fetches stand for every other request.  A quote is its     *)
(* price, its time and where the price comes from; a snapshot of the       *)
(* exchange is its number, and the price traded in it has that number.     *)
(*                                                                         *)
(* Time is kept as ages, which Tick increases: monotonic() is only ever    *)
(* subtracted.  The tenth of a second a sleeping thread adds to its wait   *)
(* makes it wake when the oldest slot has left the window, as here.        *)
(***************************************************************************)
EXTENDS Integers, Sequences, FiniteSets

CONSTANTS
  Threads,      \* worker threads
  MaxCalls,     \* bound: calls the threads make in all
  MaxSnap,      \* bound: snapshots of the exchange
  Window,       \* REALTIME_LIMIT_WINDOW_SECONDS
  MaxRequests,  \* REALTIME_LIMIT_MAX_REQUESTS
  Attempts,     \* REALTIME_PRICE_RETRY_ATTEMPTS, and the months of a history call
  Delay,        \* REALTIME_PRICE_RETRY_DELAY_SECONDS
  TTL           \* QUOTE_CACHE_TTL_SECONDS

ASSUME QuotesAssumption ==
  /\ MaxCalls \in Nat /\ MaxSnap \in Nat \ {0}
  /\ Window \in Nat \ {0} /\ MaxRequests \in Nat \ {0}
  /\ Attempts \in Nat \ {0} /\ Delay \in Nat /\ TTL \in Nat

VARIABLES
  snap,     \* the exchange's current snapshot
  slots,    \* _realtime_request_times, oldest first, as ages
  granted,  \* ghost: ages of the last MaxRequests + 1 requests let through
  cache,    \* _quote_cache of the code: at most one entry
  last,     \* _last_priced_quote_cache of the code: at most one quote
  calls,    \* how many calls were made
  thread    \* the calls and their local variables

vars == <<snap, slots, granted, cache, last, calls, thread>>

Kinds == {"quote", "forced", "history"}
Sources == {"realtime", "cache", "unavailable"}

\* 0 is None.  "from" is the time the warning of a fallback gives for its price.
Quote == [price : 0 .. MaxSnap, time : 1 .. MaxSnap, source : Sources, from : 0 .. MaxSnap]
Priced(q) == q.price # 0

Call == [pc : {"idle", "slot", "ask", "read", "store", "answered", "failed"},
         kind : Kinds, tries : 0 .. Attempts, timer : 0 .. Window + Delay,
         payload : 0 .. MaxSnap, quote : SUBSET Quote,
         known : BOOLEAN]   \* ghost: a price was known when the call began

NoCall == [pc |-> "idle", kind |-> "history", tries |-> 0, timer |-> 0, payload |-> 0,
           quote |-> {}, known |-> FALSE]

TypeOK ==
  /\ snap \in 1 .. MaxSnap /\ calls \in 0 .. MaxCalls
  /\ slots \in Seq(0 .. Window) /\ granted \in Seq(0 .. Window)
  /\ cache \in SUBSET [age : 0 .. TTL + 1, quote : Quote]
  /\ last \in SUBSET Quote
  /\ thread \in [Threads -> Call]

Init ==
  /\ snap = 1 /\ slots = <<>> /\ granted = <<>>
  /\ cache = {} /\ last = {} /\ calls = 0
  /\ thread = [t \in Threads |-> NoCall]

At(t, pc) == thread[t].pc = pc
Ended(t) == thread[t].pc \in {"idle", "answered", "failed"}
Become(t, c) == thread' = [thread EXCEPT ![t] = c]

-----------------------------------------------------------------------------
(* The world.                                                              *)

Trade ==
  /\ snap < MaxSnap /\ snap' = snap + 1
  /\ UNCHANGED <<slots, granted, cache, last, calls, thread>>

Older(a, cap) == IF a < cap THEN a + 1 ELSE cap

Tick ==
  /\ slots' = [i \in DOMAIN slots |-> Older(slots[i], Window)]
  /\ granted' = [i \in DOMAIN granted |-> Older(granted[i], Window)]
  /\ cache' = {[e EXCEPT !.age = Older(@, TTL + 1)] : e \in cache}
  /\ thread' = [t \in Threads |->
                  [thread[t] EXCEPT !.timer = IF @ > 0 THEN @ - 1 ELSE 0]]
  /\ UNCHANGED <<snap, last, calls>>

-----------------------------------------------------------------------------
(* A call.                                                                 *)

Fresh == {e \in cache : e.age =< TTL}

\* A call, with the look-up in the cache that may answer it at once; an entry
\* past its time is dropped.
Lookup(kind) == IF kind = "quote" THEN {e.quote : e \in Fresh} ELSE {}

Start(t, kind) ==
  /\ Ended(t) /\ calls < MaxCalls
  /\ calls' = calls + 1
  /\ cache' = IF kind = "quote" THEN Fresh ELSE cache
  /\ Become(t, [pc |-> IF Lookup(kind) = {} THEN "slot" ELSE "answered",
                kind |-> kind, tries |-> 0, timer |-> 0, payload |-> 0,
                quote |-> Lookup(kind), known |-> last # {}])
  /\ UNCHANGED <<snap, slots, granted, last>>

\* _acquire_twse_slot: prune, check and append under one lock, else sleep and
\* come back.  The expired slots are the first ones.
PruneAll(s) == IF s # <<>> /\ Head(s) >= Window THEN <<>> ELSE s   \* mutant

Prune(s) == SubSeq(s, 1 + Cardinality({i \in DOMAIN s : s[i] >= Window}), Len(s))
Newest(s) == IF Len(s) > MaxRequests + 1 THEN Tail(s) ELSE s

\* mutant: a full deque is left as it is
AcquireUnpruned(t) ==
  /\ At(t, "slot") /\ thread[t].timer = 0
  /\ \/ /\ Len(slots) < MaxRequests
        /\ slots' = Append(Prune(slots), 0) /\ granted' = Newest(Append(granted, 0))
        /\ Become(t, [thread[t] EXCEPT !.pc = "ask"])
     \/ /\ Len(slots) >= MaxRequests
        /\ UNCHANGED <<slots, granted>>
        /\ Become(t, [thread[t] EXCEPT !.timer = Window - Head(slots)])
  /\ UNCHANGED <<snap, cache, last, calls>>

Acquire(t) ==
  LET open == Prune(slots)
  IN /\ At(t, "slot") /\ thread[t].timer = 0
     /\ \/ /\ Len(open) < MaxRequests
           /\ slots' = Append(open, 0) /\ granted' = Newest(Append(granted, 0))
           /\ Become(t, [thread[t] EXCEPT !.pc = "ask"])
        \/ /\ Len(open) >= MaxRequests
           /\ slots' = open /\ granted' = granted
           /\ Become(t, [thread[t] EXCEPT !.timer = Window - Head(open)])
     /\ UNCHANGED <<snap, cache, last, calls>>

\* A month of a history call: the next month, the end, or the error that ends it.
AskMonth(t, answer) ==
  LET c == [thread[t] EXCEPT !.tries = @ + 1]
  IN Become(t, [c EXCEPT !.pc = CASE answer = "error" -> "failed"
                                  [] answer # "error" /\ c.tries < Attempts -> "slot"
                                  [] OTHER -> "answered"])

\* An attempt at a quote: a trade price ends the loop; without one, or without a
\* snapshot, the thread sleeps and tries again, and after the last attempt falls
\* back on what it has.
AskQuote(t, answer) ==
  LET c == [thread[t] EXCEPT !.tries = @ + 1,
                             !.payload = IF answer = "error" THEN @ ELSE snap]
  IN \/ /\ answer = "priced"
        /\ Become(t, [c EXCEPT !.pc = "store",
                               !.quote = {[price |-> snap, time |-> snap,
                                           source |-> "realtime", from |-> snap]}])
     \/ /\ answer # "priced" /\ c.tries < Attempts
        /\ Become(t, [c EXCEPT !.pc = "slot", !.timer = Delay])
     \/ /\ answer # "priced" /\ c.tries = Attempts
        /\ Become(t, [c EXCEPT !.pc = IF c.payload = 0 THEN "failed" ELSE "read"])

Ask(t) ==
  /\ At(t, "ask")
  /\ \E answer \in {"priced", "unpriced", "error"} :
       IF thread[t].kind = "history" THEN AskMonth(t, answer) ELSE AskQuote(t, answer)
  /\ UNCHANGED <<snap, slots, granted, cache, last, calls>>

\* The snapshot without a price, completed with the last price known.
Fallback(payload) ==
  IF last = {}
  THEN {[price |-> 0, time |-> payload, source |-> "unavailable", from |-> 0]}
  ELSE {[price |-> q.price, time |-> payload, source |-> "cache", from |-> q.time] :
        q \in last}

ReadLast(t) ==
  /\ At(t, "read")
  /\ Become(t, [thread[t] EXCEPT !.pc = "store", !.quote = Fallback(thread[t].payload)])
  /\ UNCHANGED <<snap, slots, granted, cache, last, calls>>

\* _cache_quote: only a price of this very snapshot is remembered as the last one.
\* mutants: a price that was itself a fallback is remembered; a fallback forgets
\* the last price.
CacheQuotePriced(q) ==
  /\ cache' = {[age |-> 0, quote |-> q]}
  /\ last' = IF Priced(q) THEN {q} ELSE last

CacheQuoteForgets(q) ==
  /\ cache' = {[age |-> 0, quote |-> q]}
  /\ last' = IF q.source = "realtime" THEN {q} ELSE {}

CacheQuote(q) ==
  /\ cache' = {[age |-> 0, quote |-> q]}
  /\ last' = IF q.source = "realtime" THEN {q} ELSE last

Store(t) ==
  /\ At(t, "store")
  /\ \E q \in thread[t].quote : CacheQuote(q)
  /\ Become(t, [thread[t] EXCEPT !.pc = "answered"])
  /\ UNCHANGED <<snap, slots, granted, calls>>

-----------------------------------------------------------------------------
Work(t) == Acquire(t) \/ Ask(t) \/ ReadLast(t) \/ Store(t)

Next ==
  \/ Trade
  \/ Tick
  \/ \E t \in Threads : Work(t) \/ \E kind \in Kinds : Start(t, kind)

Spec == Init /\ [][Next]_vars

\* The threads of the server run and time passes; the calls are the users'.
FairSpec == Spec /\ WF_vars(Tick) /\ \A t \in Threads : WF_vars(Work(t))

-----------------------------------------------------------------------------
(* What the client promises.                                               *)

\* Whatever the threads, and whatever they ask for, at most MaxRequests requests
\* are let through to the exchange in any Window: of the last MaxRequests + 1, the
\* first is a Window ago (twstock_client.py:352-373).
WindowBound == Len(granted) > MaxRequests => granted[1] >= Window

\* A call that began when a price of the code was known, and that reached the
\* exchange, does not answer without a price: what other threads store meanwhile
\* does not make the process forget it (twstock_client.py:202-228).
KnownPriceServed ==
  \A t \in Threads :
    At(t, "answered") /\ thread[t].known /\ thread[t].tries > 0
      => \A q \in thread[t].quote : Priced(q)

\* A price comes with the time it was traded: a quote that falls back on an older
\* price says of when that price is, however many fallbacks came between
\* (twstock_client.py:204-217, 342-346).
PricesAreDated ==
  \A t \in Threads : \A q \in thread[t].quote : Priced(q) => q.from = q.price

\* Every call comes back with an answer or an error, whatever the exchange answers:
\* a slot that expired is given out again, and the retries end.  The number of calls
\* is bounded: under an endless load others may overtake a waiting thread for ever
\* (twstock_client.py:150-251, 352-366).
CallsEnd == \A t \in Threads : ~Ended(t) ~> Ended(t)
===============================================================================
